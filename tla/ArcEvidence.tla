---------------------------- MODULE ArcEvidence ----------------------------
(***************************************************************************)
(* The control plane and the matching of what its sensors submit.  Every   *)
(* submission recomputes the mission's edges from the evidence it has; the *)
(* edges are checked against what a matching is for, over every pair of    *)
(* traces two sensors may submit.                                          *)
(***************************************************************************)
EXTENDS ArcControl, Correlation

CONSTANTS
  Window,      \* correlation_window_ns
  TracePairs   \* bound: the traces of two neighbours, a pair <<left, right>> each

\* Observations of one flow, close enough on a common clock.  The definitions
\* below name an event by its handle and a match by a pair of them.
ClockTime(trace, event) ==
  trace.started_unix
    + (IF event.timestamp > trace.started_monotonic
         THEN event.timestamp - trace.started_monotonic ELSE 0)

SameFlow(a, b) == a.tuple = b.tuple \/ <<a.tuple[2], a.tuple[1]>> = b.tuple

Distance(left, right, i, j) ==
  Diff(ClockTime(left, left.events[i]), ClockTime(right, right.events[j]))

Viable(left, right) ==
  {p \in (DOMAIN left.events) \X (DOMAIN right.events) :
     /\ left.events[p[1]].tuple # NoTuple /\ right.events[p[2]].tuple # NoTuple
     /\ SameFlow(left.events[p[1]], right.events[p[2]])
     /\ Distance(left, right, p[1], p[2])
          <= Window + left.clock_uncertainty + right.clock_uncertainty}

\* The observations agree in more than their flow and time.
Agreeing(left, right, p) == Strong(left.events[p[1]], right.events[p[2]])

OneToOne(match) == \A p, q \in match : (p[1] = q[1] <=> p[2] = q[2])

TotalCost(left, right, match) ==
  MapThenSumSet(LAMBDA p : Distance(left, right, p[1], p[2])
      + Diff(left.events[p[1]].len, right.events[p[2]].len) * LENGTH_PENALTY
      + (IF Agreeing(left, right, p) THEN 0 ELSE Window), match)

\* A match of as many observations as possible and, of those, a cheapest.
IsBest(left, right, match) ==
  \A other \in SUBSET Viable(left, right) : OneToOne(other) =>
    \/ Cardinality(other) < Cardinality(match)
    \/ /\ Cardinality(other) = Cardinality(match)
       /\ TotalCost(left, right, other) >= TotalCost(left, right, match)

Match(edge) == {<<p.left.handle, p.right.handle>> : p \in edge.matched}

EdgeIsRight(left, right, edge) ==
  /\ Match(edge) \subseteq Viable(left, right)
  /\ Cardinality(edge.matched) = Cardinality(Match(edge))
  /\ OneToOne(Match(edge))
  /\ IsBest(left, right, Match(edge))
  /\ edge.level = IF Viable(left, right) = {} THEN "unknown"
                  ELSE IF \A p \in Match(edge) : Agreeing(left, right, p) THEN "correlated"
                  ELSE "candidate"

\* The edges of three sensors of which the third has sent nothing.
EdgesAreRight ==
  \A pair \in TracePairs :
    LET Judged(edges) == EdgeIsRight(pair[1], pair[2], edges[1]) /\ edges[2] = unknown_edge
    IN Judged(correlate_adjacent(<<1, 2, 3>>, pair, Window))

\* Whatever two sensors of a mission have submitted, the edge between them
\* matches as many observations as can be matched one to one within the window
\* and the clocks' uncertainty, at the least cost, and is called correlated just
\* when every match agrees in length and tuple: a greedy choice, a cursor that
\* has moved too far or a path that cannot take back a match would tell a worse
\* story of the same packets.
CorrelationsAreBest ==
  (\E m \in Mission, s, t \in Sensor : s # t /\ {s, t} \subseteq correlated[m]) => EdgesAreRight
=============================================================================
