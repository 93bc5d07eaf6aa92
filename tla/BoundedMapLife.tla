--------------------------- MODULE BoundedMapLife ---------------------------
(***************************************************************************)
(* The life of one bounded map: any sequence of insertions and removals.   *)
(***************************************************************************)
EXTENDS BoundedMap

CONSTANTS
  Key,
  Value,
  Capacity,   \* BoundedMap::new asserts that it is not zero
  MaxInserts  \* bound: insertions in one behaviour

ASSUME CapacityAssumption == Capacity \in Nat \ {0} /\ MaxInserts \in Nat

VARIABLE map

Entry == [value : Value, generation : Nat]
Node == [key : Key, generation : Nat]

Fields == {"capacity", "generation", "values", "order", "evictions"}

MapTypeOK ==
  /\ DOMAIN map = Fields
  /\ map.capacity = Capacity
  /\ map.generation \in Nat
  /\ Keys(map) \subseteq Key
  /\ map.values \in [Keys(map) -> Entry]
  /\ map.order \subseteq Node
  /\ map.evictions \in Nat

Init == map = New(Capacity)

InsertKey(k, v) ==
  /\ map.generation < MaxInserts
  /\ map' = Insert(map, k, v)

RemoveKey(k) == k \in Keys(map) /\ map' = Remove(map, k)

Next == \E k \in Key : RemoveKey(k) \/ \E v \in Value : InsertKey(k, v)

Spec == Init /\ [][Next]_map

-----------------------------------------------------------------------------
\* "Keeping the public capacity invariant exact without an unbounded secondary
\* index": neither the map nor, stale nodes included, its queue outgrows what
\* was declared.
BoundsHold ==
  /\ Cardinality(Keys(map)) <= Capacity
  /\ Cardinality(map.order) <= 4 * Capacity

\* Every key has the node of its last insertion in the queue, under a generation
\* no other node has: an eviction can always find the key that is due, and never
\* takes a refreshed one.
QueueCoversKeys ==
  /\ \A k \in Keys(map) : NodeOf(map, k) \in map.order
  /\ \A n1, n2 \in map.order : n1.generation = n2.generation => n1 = n2
  /\ \A n \in map.order : n.generation \in 1..map.generation

\* Stale nodes, their lazy removal and the compaction of the queue do not show:
\* the map forgets exactly the key that was inserted longest ago.
Recency == INSTANCE RecencyMap WITH
  contents <- map.values, clock <- map.generation, forgotten <- map.evictions

ImplementsRecency == Recency!Spec
=============================================================================
