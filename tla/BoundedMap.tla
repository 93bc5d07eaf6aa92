----------------------------- MODULE BoundedMap -----------------------------
(***************************************************************************)
(* The insertion-ordered bounded map that replay keeps its open routes in. *)
(* A map is a record of the struct's fields.  `order` is the deque of      *)
(* nodes; each is pushed with a generation larger than any before, nodes   *)
(* leave from the front or by a filter, so the deque is the set of its     *)
(* nodes and its front the node of the least generation.  Inserting a key  *)
(* again, or removing one, leaves a stale node behind.                     *)
(*                                                                         *)
(* The generation is a u64; that it wraps after 2^64 insertions is left    *)
(* out.                                                                    *)
(***************************************************************************)
EXTENDS Naturals, FiniteSetsExt, Functions

New(capacity) ==
  [capacity |-> capacity, generation |-> 0, values |-> [k \in {} |-> 0],
   order |-> {}, evictions |-> 0]

Keys(m) == DOMAIN m.values
Get(m, k) == m.values[k].value

\* The node of k's last insertion.
NodeOf(m, k) == [key |-> k, generation |-> m.values[k].generation]

IsLive(m, node) == node.key \in Keys(m) /\ node = NodeOf(m, node.key)

\* The keys that go when every node up to generation g is popped.
Freed(m, g) == {k \in Keys(m) : NodeOf(m, k) \in m.order /\ NodeOf(m, k).generation <= g}

\* Nodes are popped until the map fits, or there is none left.
Enough(m) == {g \in 0..m.generation : Cardinality(Keys(m) \ Freed(m, g)) <= m.capacity}
PopTo(m) == IF Enough(m) = {} THEN m.generation ELSE Min(Enough(m))

\* The while loop of evict_to_capacity.
Evict(m) ==
  LET gone == Freed(m, PopTo(m))
  IN [m EXCEPT !.values = Restrict(m.values, Keys(m) \ gone),
               !.order = {node \in m.order : node.generation > PopTo(m)},
               !.evictions = m.evictions + Cardinality(gone)]

\* Mutant: the deque is compacted by key, which keeps the stale nodes of live keys.
CompactByKey(m) ==
  IF Cardinality(m.order) > 4 * m.capacity
    THEN [m EXCEPT !.order = {node \in m.order : node.key \in Keys(m)}]
    ELSE m

\* "Bound queue overhead to 4x the declared capacity by rebuilding from live
\* generations."
Compact(m) ==
  IF Cardinality(m.order) > 4 * m.capacity
    THEN [m EXCEPT !.order = {node \in m.order : IsLive(m, node)}]
    ELSE m

\* Mutant: a refreshed key keeps its place.
PutInPlace(m, k, v) ==
  LET g == m.generation + 1
      stamp == IF k \in Keys(m) THEN m.values[k].generation ELSE g
  IN [m EXCEPT !.generation = g,
               !.values = [x \in Keys(m) \cup {k} |->
                             IF x = k THEN [value |-> v, generation |-> stamp]
                             ELSE m.values[x]],
               !.order = m.order \cup {[key |-> k, generation |-> stamp]}]

\* Mutant: a refresh keeps the map's generation as it is.
PutUnstamped(m, k, v) ==
  LET g == IF k \in Keys(m) THEN m.generation ELSE m.generation + 1
  IN [m EXCEPT !.generation = g,
               !.values = [x \in Keys(m) \cup {k} |->
                             IF x = k THEN [value |-> v, generation |-> g]
                             ELSE m.values[x]],
               !.order = m.order \cup {[key |-> k, generation |-> g]}]

\* The key and its node, before anything is evicted.
Put(m, k, v) ==
  LET g == m.generation + 1
  IN [m EXCEPT !.generation = g,
               !.values = [x \in Keys(m) \cup {k} |->
                             IF x = k THEN [value |-> v, generation |-> g]
                             ELSE m.values[x]],
               !.order = m.order \cup {[key |-> k, generation |-> g]}]

Insert(m, k, v) == Compact(Evict(Put(m, k, v)))

Remove(m, k) == [m EXCEPT !.values = Restrict(m.values, Keys(m) \ {k})]
=============================================================================
