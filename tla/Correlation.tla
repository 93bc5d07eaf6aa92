----------------------------- MODULE Correlation -----------------------------
(***************************************************************************)
(* How Arc matches the observations of adjacent sensors (skbx-mission).    *)
(* Observations of one flow that lie within the window are candidates; a   *)
(* minimum-cost maximum matching is found along shortest augmenting paths  *)
(* of the residual graph (Bellman-Ford), in the order of the code's scan.  *)
(*                                                                         *)
(* Abstracted: a tuple is a pair of endpoints, the protocols left out;     *)
(* handles are numbers; saturation of 64-bit times; the texts of an edge.  *)
(***************************************************************************)
EXTENDS Integers, Sequences, FiniteSets, SequencesExt, FiniteSetsExt, TLC

CONSTANTS
  NoTuple,          \* an event without a tuple
  LENGTH_PENALTY    \* the cost of a byte by which lengths differ

Monus(a, b) == IF a > b THEN a - b ELSE 0
Diff(a, b) == Monus(a, b) + Monus(b, a)

-----------------------------------------------------------------------------
\* Observations.

\* A sensor's monotonic clock, moved to where its capture began.
global_timestamp(trace, event) ==
  trace.started_unix + Monus(event.timestamp, trace.started_monotonic)

\* Both directions of a flow have one key.
FlowKey(tuple) == {tuple[1], tuple[2]}

comparable_events(trace) ==
  LET seen == SelectSeq(trace.events, LAMBDA e : e.tuple # NoTuple)
  IN [i \in DOMAIN seen |->
        [handle |-> seen[i].handle, timestamp |-> global_timestamp(trace, seen[i]),
         uncertainty |-> trace.clock_uncertainty, len |-> seen[i].len,
         tuple |-> seen[i].tuple, tunnel_tuple |-> seen[i].tunnel_tuple]]

Earlier(a, b) ==
  a.timestamp < b.timestamp \/ (a.timestamp = b.timestamp /\ a.handle < b.handle)

OfFlow(events, flow) == SortSeq(SelectSeq(events, LAMBDA e : FlowKey(e.tuple) = flow), Earlier)

-----------------------------------------------------------------------------
\* Candidates.

tuples_compatible(left, right) ==
  left.tuple = right.tuple \/ left.tunnel_tuple = right.tuple \/ right.tunnel_tuple = left.tuple

Strong(left, right) == left.len = right.len /\ tuples_compatible(left, right)

Delta(left, right) == Diff(left.timestamp, right.timestamp)

InWindow(left, right, window) == Delta(left, right) <= left.uncertainty + right.uncertainty + window

Cost(left, right, window) ==
  Delta(left, right) + Diff(left.len, right.len) * LENGTH_PENALTY
    + (IF Strong(left, right) THEN 0 ELSE window)

NotBefore(time, event) == time <= event.timestamp

\* One sweep over both sides, sorted by time.  cursor[i]: the first observation
\* on the right that is not too early for the i-th on the left.
correlation_candidates(left, right, window) ==
  LET broad(i) == left[i].uncertainty + window
                    + Max({0} \cup {right[j].uncertainty : j \in DOMAIN right})
      cursor[i \in 0..Len(left)] ==
        IF i = 0 THEN 1
        ELSE Min({j \in cursor[i - 1]..Len(right) :
                    NotBefore(Monus(left[i].timestamp, broad(i)), right[j])} \cup {Len(right) + 1})
      reached(i) ==
        SelectSeq([n \in 1..(Len(right) + 1 - cursor[i]) |-> cursor[i] - 1 + n],
                  LAMBDA j : /\ right[j].timestamp <= left[i].timestamp + broad(i)
                             /\ InWindow(left[i], right[j], window))
      candidate(i, j) == [left |-> i, right |-> j, cost |-> Cost(left[i], right[j], window),
                          strong |-> Strong(left[i], right[j])]
  IN FlattenSeq([i \in DOMAIN left |->
       [n \in DOMAIN reached(i) |-> candidate(i, reached(i)[n])]])

-----------------------------------------------------------------------------
\* The matching.  Nodes are numbered as in the code: the source is 0, then the
\* left side, the right side, and the sink.

Edge(from, to, cost) == [from |-> from, to |-> to, cost |-> cost]

Edges(left_count, right_count, candidates) ==
  [l \in 1..left_count |-> Edge(0, l, 0)]
  \o [c \in DOMAIN candidates |->
        Edge(candidates[c].left, left_count + candidates[c].right, candidates[c].cost)]
  \o [r \in 1..right_count |-> Edge(left_count + r, left_count + right_count + 1, 0)]

\* What is left of the edges when those in `full` are used: an edge that is used
\* can be taken back.
Residual(edges, full) ==
  [e \in DOMAIN edges |->
     [edge |-> e] @@ (IF e \in full THEN Edge(edges[e].to, edges[e].from, -edges[e].cost)
                      ELSE edges[e])]

\* The residual edges, node by node.
ScanOrder(residual, sink) ==
  FlattenSeq([n \in 1..(sink + 1) |-> SelectSeq(residual, LAMBDA a : a.from = n - 1)])

\* reached[n]: the distance of node n from the source so far, and the edge that
\* leads there.
Relax(reached, a) ==
  LET distance == reached[a.from].distance + a.cost
  IN IF a.from \notin DOMAIN reached THEN reached
     ELSE IF a.to \in DOMAIN reached /\ reached[a.to].distance <= distance THEN reached
     ELSE (a.to :> [distance |-> distance, by |-> a]) @@ reached

\* Bellman-Ford: sweeps until nothing changes.
RECURSIVE Settle(_, _, _)
Settle(arcs, reached, sweeps) ==
  LET After(next) == IF sweeps = 1 \/ next = reached THEN next ELSE Settle(arcs, next, sweeps - 1)
  IN After(FoldLeft(Relax, reached, arcs))

RECURSIVE PathEdges(_, _)
PathEdges(reached, node) ==
  IF node = 0 THEN {}
  ELSE {reached[node].by.edge} \cup PathEdges(reached, reached[node].by.from)

\* Mutant: an augmenting path cannot take back what an earlier one used.
AugmentOnly(full, path) == full \cup path

Augment(full, path) == SymDiff(full, path)

RECURSIVE Matched(_, _, _)
Matched(edges, sink, full) ==
  LET From(reached) ==
        IF sink \notin DOMAIN reached THEN full
        ELSE Matched(edges, sink, Augment(full, PathEdges(reached, sink)))
  IN From(Settle(ScanOrder(Residual(edges, full), sink),
                 0 :> [distance |-> 0, by |-> Edge(0, 0, 0)], sink))

sparse_min_cost_matching(left_count, right_count, candidates) ==
  IF candidates = <<>> THEN {}
  ELSE LET full == Matched(Edges(left_count, right_count, candidates),
                           left_count + right_count + 1, {})
       IN {candidates[c] : c \in {d \in DOMAIN candidates : left_count + d \in full}}

-----------------------------------------------------------------------------
\* Edges of the topology.

unknown_edge == [level |-> "unknown", matched |-> {}]

\* The observations matched flow by flow, and how far they agree.
correlate_pair(left, right, window) ==
  LET lefts == comparable_events(left)
      rights == comparable_events(right)
      Flows(events) == {FlowKey(e.tuple) : e \in ToSet(events)}
      InFlow(ls, rs) ==
        {[left |-> ls[c.left], right |-> rs[c.right], strong |-> c.strong] :
           c \in sparse_min_cost_matching(Len(ls), Len(rs), correlation_candidates(ls, rs, window))}
      Level(matched) ==
        IF matched = {} THEN unknown_edge
        ELSE [level |-> IF \A p \in matched : p.strong THEN "correlated" ELSE "candidate",
              matched |-> matched]
  IN Level(UNION {InFlow(OfFlow(lefts, flow), OfFlow(rights, flow)) :
                    flow \in Flows(lefts) \cap Flows(rights)})

\* One edge for each two neighbours; traces is a function on those that have one.
correlate_adjacent(sensors, traces, window) ==
  [i \in 1..(Len(sensors) - 1) |->
     IF {sensors[i], sensors[i + 1]} \subseteq DOMAIN traces
       THEN correlate_pair(traces[sensors[i]], traces[sensors[i + 1]], window)
       ELSE unknown_edge]
=============================================================================
