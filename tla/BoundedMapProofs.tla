-------------------------- MODULE BoundedMapProofs --------------------------
(***************************************************************************)
(* The bounded map keeps its bounds and implements RecencyMap, for every   *)
(* capacity and every set of keys and values.                              *)
(***************************************************************************)
EXTENDS BoundedMapLife, FiniteSetTheorems, WellFoundedInduction, TLAPS

\* A set of naturals has a least element.
LEMMA MinOfNaturals ==
  ASSUME NEW S \in SUBSET Nat, S # {}
  PROVE  Min(S) \in S /\ \A x \in S : Min(S) <= x
<1> DEFINE R == {ss \in Nat \X Nat : ss[1] < ss[2]}
<1>1. IsWellFoundedOn(R, Nat)
  BY NatLessThanWellFounded DEF OpToRel
<1>2. PICK x \in S : \A y \in S : <<y, x>> \notin R
  <2> HIDE DEF R
  <2> QED
    BY <1>1, WFMin
<1>3. \A y \in S : ~ (y < x)
  BY <1>2
<1>4. \A y \in S : x <= y
  BY <1>3
<1> HIDE DEF R
<1> QED
  BY <1>2, <1>4 DEF Min

\* A map whose fields have their types and whose queue covers its keys; the
\* invariant QueueCoversKeys, said of any map, and its key set is finite.
Sound(m) ==
  /\ m \in [Fields -> {m[f] : f \in Fields}]
  /\ m.capacity = Capacity
  /\ m.generation \in Nat
  /\ Keys(m) \subseteq Key
  /\ m.values \in [Keys(m) -> Entry]
  /\ m.order \subseteq Node
  /\ m.evictions \in Nat
  /\ \A k \in Keys(m) : NodeOf(m, k) \in m.order
  /\ \A n1, n2 \in m.order : n1.generation = n2.generation => n1 = n2
  /\ \A n \in m.order : n.generation \in 1..m.generation
  /\ IsFiniteSet(Keys(m))
  /\ IsFiniteSet(m.order)

\* Putting a key stamps it with a new generation.
LEMMA PutEffect ==
  ASSUME NEW m, Sound(m), NEW k \in Key, NEW v \in Value
  PROVE  LET p == Put(m, k, v)
         IN /\ Sound(p)
            /\ Keys(p) = Keys(m) \cup {k}
            /\ p.generation = m.generation + 1
            /\ p.evictions = m.evictions
            /\ p.values[k] = [value |-> v, generation |-> m.generation + 1]
            /\ \A x \in Keys(m) \ {k} : p.values[x] = m.values[x]
<1> DEFINE p == Put(m, k, v)
           n == [key |-> k, generation |-> m.generation + 1]
<1>1. /\ p \in [Fields -> {p[f] : f \in Fields}]
      /\ p.capacity = Capacity
      /\ p.generation = m.generation + 1
      /\ p.order = m.order \cup {n}
      /\ p.evictions = m.evictions
      /\ p.values = [x \in Keys(m) \cup {k} |->
                      IF x = k THEN [value |-> v, generation |-> m.generation + 1]
                      ELSE m.values[x]]
  BY DEF Sound, Put, Fields
<1>2. Keys(p) = Keys(m) \cup {k}
  BY <1>1 DEF Keys
<1>3. p.values \in [Keys(p) -> Entry]
  BY <1>1, <1>2 DEF Sound, Entry
<1>4. p.order \subseteq Node
  BY <1>1 DEF Sound, Node
<1>5. \A x \in Keys(p) : NodeOf(p, x) \in p.order
  BY <1>1, <1>2 DEF Sound, NodeOf
<1>6. /\ \A n1, n2 \in p.order : n1.generation = n2.generation => n1 = n2
      /\ \A n1 \in p.order : n1.generation \in 1..p.generation
  BY <1>1 DEF Sound, Node
<1>7. IsFiniteSet(Keys(p)) /\ IsFiniteSet(p.order)
  <2>1. IsFiniteSet(Keys(m)) /\ IsFiniteSet(m.order)
    BY DEF Sound
  <2>2. IsFiniteSet(Keys(m) \cup {k}) /\ IsFiniteSet(m.order \cup {n})
    BY <2>1, FS_AddElement
  <2> QED
    BY <2>2, <1>1, <1>2
<1> HIDE DEF p
<1>8. p.evictions \in Nat /\ p.generation \in Nat /\ Keys(p) \subseteq Key
  BY <1>1, <1>2 DEF Sound
<1>9. /\ p.values[k] = [value |-> v, generation |-> m.generation + 1]
      /\ \A x \in Keys(m) \ {k} : p.values[x] = m.values[x]
  BY <1>1
<1> HIDE DEF p
<1>10. Sound(p)
  BY <1>1, <1>2, <1>3, <1>4, <1>5, <1>6, <1>7, <1>8 DEF Sound
<1>11. p = Put(m, k, v)
  BY DEF p
<1> QED
  BY <1>1, <1>2, <1>9, <1>10, <1>11

\* A map with no more than one key too many loses the key inserted longest ago,
\* and one without loses nothing.
LEMMA EvictEffect ==
  ASSUME NEW m, Sound(m), Cardinality(Keys(m)) <= Capacity + 1
  PROVE  LET e == Evict(m)
         IN /\ Sound(e)
            /\ e.generation = m.generation
            /\ Cardinality(Keys(e)) <= Capacity
            /\ IF Cardinality(Keys(m)) <= Capacity
                 THEN e.values = m.values /\ e.evictions = m.evictions
                 ELSE /\ e.evictions = m.evictions + 1
                      /\ \E oldest \in Keys(m) :
                           /\ \A x \in Keys(m) \ {oldest} :
                                m.values[oldest].generation < m.values[x].generation
                           /\ e.values = Restrict(m.values, Keys(m) \ {oldest})
<1> DEFINE e == Evict(m)
           g == PopTo(m)
           gone == Freed(m, g)
           stamp(k) == m.values[k].generation
<1>1. /\ Cardinality(Keys(m)) \in Nat /\ Capacity \in Nat \ {0}
      /\ IsFiniteSet(Keys(m)) /\ IsFiniteSet(m.order)
  BY FS_CardinalityType, CapacityAssumption DEF Sound
<1>2. /\ \A k \in Keys(m) : stamp(k) \in 1..m.generation
      /\ \A k, x \in Keys(m) : stamp(k) = stamp(x) => k = x
      /\ m.generation \in Nat
  <2>1. \A k \in Keys(m) : NodeOf(m, k) \in m.order /\ NodeOf(m, k).key = k
                             /\ NodeOf(m, k).generation = stamp(k)
    BY DEF Sound, NodeOf
  <2>2. m.generation \in Nat
    BY DEF Sound
  <2>3. \A k \in Keys(m) : stamp(k) \in 1..m.generation
    BY <2>1 DEF Sound
  <2>4. \A k, x \in Keys(m) : stamp(k) = stamp(x) => NodeOf(m, k) = NodeOf(m, x)
    BY <2>1 DEF Sound
  <2> QED
    BY <2>1, <2>2, <2>3, <2>4
<1>3. \A h : Freed(m, h) = {k \in Keys(m) : stamp(k) <= h}
  BY DEF Freed, Sound, NodeOf
<1>4. Enough(m) = {h \in 0..m.generation : Cardinality(Keys(m) \ Freed(m, h)) <= Capacity}
  BY DEF Enough, Sound
<1>5. /\ e \in [Fields -> {e[f] : f \in Fields}]
      /\ e.capacity = Capacity
      /\ e.generation = m.generation
      /\ e.values = Restrict(m.values, Keys(m) \ gone)
      /\ e.order = {node \in m.order : node.generation > g}
      /\ e.evictions = m.evictions + Cardinality(gone)
  BY DEF Sound, Evict, Fields
<1> HIDE DEF e, g, gone, stamp
<1>6. /\ gone \subseteq Keys(m)
      /\ gone = {k \in Keys(m) : stamp(k) <= g}
      /\ g \in Nat
  <2>1. g \in Nat
    <3>1. CASE Enough(m) = {}
      BY <3>1, <1>2 DEF g, PopTo
    <3>2. CASE Enough(m) # {}
      <4>1. Enough(m) \subseteq Nat
        BY <1>2, <1>4
      <4> QED
        BY <3>2, <4>1, MinOfNaturals DEF g, PopTo
    <3> QED
      BY <3>1, <3>2
  <2> QED
    BY <2>1, <1>3 DEF gone
<1>7. Keys(e) = Keys(m) \ gone /\ \A k \in Keys(e) : e.values[k] = m.values[k]
  BY <1>5 DEF Keys, Restrict
<1>8. IsFiniteSet(gone) /\ Cardinality(gone) \in Nat
  BY <1>1, <1>6, FS_Subset, FS_CardinalityType
<1>9. Sound(e)
  <2>1. e.generation \in Nat /\ Keys(e) \subseteq Key /\ e.evictions \in Nat
    BY <1>5, <1>7, <1>8 DEF Sound
  <2>2. e.values \in [Keys(e) -> Entry]
    BY <1>5, <1>7 DEF Sound, Restrict
  <2>3. e.order \subseteq Node
    BY <1>5 DEF Sound
  <2>4. \A k \in Keys(e) : NodeOf(e, k) \in e.order
    <3> SUFFICES ASSUME NEW k \in Keys(e) PROVE NodeOf(e, k) \in e.order
      OBVIOUS
    <3>1. k \in Keys(m) /\ ~ (stamp(k) <= g) /\ NodeOf(e, k) = NodeOf(m, k)
      BY <1>6, <1>7 DEF NodeOf
    <3>2. NodeOf(m, k) \in m.order
      BY <3>1 DEF Sound
    <3>3. NodeOf(m, k).generation = stamp(k)
      BY DEF NodeOf, stamp
    <3>4. stamp(k) > g
      BY <3>1, <1>2, <1>6
    <3> QED
      BY <1>5, <3>1, <3>2, <3>3, <3>4
  <2>5. /\ \A n1, n2 \in e.order : n1.generation = n2.generation => n1 = n2
        /\ \A n \in e.order : n.generation \in 1..e.generation
    BY <1>5 DEF Sound
  <2>6. e.order \subseteq m.order
    BY <1>5
  <2>7. IsFiniteSet(Keys(e)) /\ IsFiniteSet(e.order)
    BY <1>1, <1>7, <2>6, FS_Subset
  <2> QED
    BY <1>5, <2>1, <2>2, <2>3, <2>4, <2>5, <2>7 DEF Sound
<1>10. CASE Cardinality(Keys(m)) <= Capacity
  <2>1. Freed(m, 0) = {}
    BY <1>2, <1>3
  <2>2. 0 \in Enough(m)
    <3>1. Keys(m) \ Freed(m, 0) = Keys(m)
      BY <2>1
    <3>2. Cardinality(Keys(m) \ Freed(m, 0)) <= Capacity
      BY <1>10, <3>1
    <3>3. 0 \in 0..m.generation
      BY <1>2
    <3> QED
      BY <1>4, <3>2, <3>3
  <2>3. Enough(m) \subseteq Nat
    BY <1>2, <1>4
  <2>4. g = 0
    <3>1. g \in Nat /\ g <= 0
      BY <2>2, <2>3, MinOfNaturals DEF g, PopTo
    <3> QED
      BY <3>1
  <2>5. gone = {}
    BY <2>1, <2>4 DEF gone
  <2>6. e.values = m.values
    BY <1>5, <2>5 DEF Sound, Restrict
  <2>7. e.evictions = m.evictions
    BY <1>5, <2>5, FS_EmptySet DEF Sound
  <2> QED
    BY <1>5, <1>7, <1>9, <1>10, <2>5, <2>6, <2>7 DEF e
<1>11. CASE ~ (Cardinality(Keys(m)) <= Capacity)
  <2>0. Cardinality(Keys(m)) = Capacity + 1
    BY <1>1, <1>11
  <2> DEFINE stamps == {stamp(k) : k \in Keys(m)}
  <2>1. stamps \subseteq Nat /\ stamps # {}
    BY <1>1, <1>2, <2>0, FS_EmptySet
  <2>2. PICK oldest \in Keys(m) : \A x \in Keys(m) : stamp(oldest) <= stamp(x)
    <3>1. Min(stamps) \in stamps /\ \A t \in stamps : Min(stamps) <= t
      BY <2>1, MinOfNaturals
    <3> QED
      BY <3>1
  <2> HIDE DEF stamps
  <2>12. Cardinality(Keys(m) \ {oldest}) = Capacity
    <3>1. Cardinality(Keys(m) \ {oldest}) = Cardinality(Keys(m)) - 1
      BY <1>1, FS_RemoveElement
    <3> QED
      BY <1>1, <2>0, <3>1
  <2>3. \A x \in Keys(m) \ {oldest} : stamp(oldest) < stamp(x)
    BY <1>2, <2>2
  <2>4. Freed(m, stamp(oldest)) = {oldest}
    BY <1>2, <1>3, <2>2, <2>3
  <2>5. stamp(oldest) \in Enough(m)
    <3>1. Cardinality(Keys(m) \ Freed(m, stamp(oldest))) = Capacity
      BY <2>4, <2>12
    <3> QED
      BY <1>1, <1>2, <1>4, <3>1
  <2>6. \A h \in Enough(m) : stamp(oldest) <= h
    <3> SUFFICES ASSUME NEW h \in Enough(m), ~ (stamp(oldest) <= h) PROVE FALSE
      OBVIOUS
    <3>1. h \in Nat
      BY <1>2, <1>4
    <3>2. Freed(m, h) = {}
      BY <1>2, <1>3, <2>2, <3>1
    <3>3. Keys(m) \ Freed(m, h) = Keys(m)
      BY <3>2
    <3> QED
      BY <1>4, <1>11, <3>3
  <2>7. g = stamp(oldest)
    <3>1. Enough(m) \subseteq Nat
      BY <1>2, <1>4
    <3>2. g \in Enough(m) /\ \A h \in Enough(m) : g <= h
      BY <2>5, <3>1, MinOfNaturals DEF g, PopTo
    <3> QED
      BY <1>2, <2>5, <2>6, <3>1, <3>2
  <2>8. gone = {oldest}
    BY <2>4, <2>7 DEF gone
  <2>9. Cardinality(gone) = 1 /\ Cardinality(Keys(e)) = Capacity
    BY <1>7, <2>8, <2>12, FS_Singleton
  <2>10. e.values = Restrict(m.values, Keys(m) \ {oldest})
    BY <1>5, <2>8
  <2>11. e.evictions = m.evictions + 1 /\ Cardinality(Keys(e)) <= Capacity
    BY <1>1, <1>5, <2>9
  <2> QED
    BY <1>5, <1>9, <1>11, <2>3, <2>10, <2>11 DEF e, stamp
<1> QED
  BY <1>10, <1>11

\* Compaction changes nothing but the queue: it keeps the node of every key, and
\* at most four nodes for each key the map may hold.
LEMMA CompactEffect ==
  ASSUME NEW m, Sound(m), Cardinality(Keys(m)) <= Capacity
  PROVE  LET c == Compact(m)
         IN /\ Sound(c)
            /\ c.values = m.values
            /\ c.generation = m.generation
            /\ c.evictions = m.evictions
            /\ Cardinality(c.order) <= 4 * Capacity
<1> DEFINE c == Compact(m)
           live == {node \in m.order : IsLive(m, node)}
<1>1. /\ Capacity \in Nat \ {0} /\ m.capacity = Capacity
      /\ IsFiniteSet(Keys(m)) /\ IsFiniteSet(m.order)
      /\ Cardinality(Keys(m)) \in Nat /\ Cardinality(m.order) \in Nat
  BY FS_CardinalityType, CapacityAssumption DEF Sound
<1>2. CASE ~ (Cardinality(m.order) > 4 * m.capacity)
  <2>1. c = m
    BY <1>2 DEF Compact
  <2>2. Cardinality(m.order) <= 4 * Capacity
    BY <1>1, <1>2
  <2> QED
    BY <2>1, <2>2
<1>3. CASE Cardinality(m.order) > 4 * m.capacity
  <2>1. /\ c \in [Fields -> {c[f] : f \in Fields}]
        /\ c.capacity = m.capacity
        /\ c.generation = m.generation
        /\ c.values = m.values
        /\ c.evictions = m.evictions
        /\ c.order = live
    BY <1>3 DEF Sound, Compact, Fields
  <2>2. Keys(c) = Keys(m) /\ \A k \in Keys(m) : NodeOf(c, k) = NodeOf(m, k)
    BY <2>1 DEF Keys, NodeOf
  <2>3. \A k \in Keys(m) : NodeOf(m, k) \in live
    BY DEF Sound, IsLive, NodeOf
  <2>4. live \subseteq m.order /\ IsFiniteSet(live)
    BY <1>1, FS_Subset
  <2>5. Cardinality(live) <= 4 * Capacity
    <3>1. live = {NodeOf(m, k) : k \in Keys(m)}
      BY <2>3 DEF IsLive
    <3>2. Cardinality(live) <= Cardinality(Keys(m)) /\ Cardinality(live) \in Nat
      <4> DEFINE f == [k \in Keys(m) |-> NodeOf(m, k)]
      <4>1. f \in Surjection(Keys(m), live)
        BY <3>1 DEF Surjection
      <4> QED
        BY <1>1, <2>4, <4>1, FS_Surjection, FS_CardinalityType
    <3> QED
      BY <1>1, <3>2
  <2> HIDE DEF c, live
  <2>6. Sound(c)
    BY <1>1, <2>1, <2>2, <2>3, <2>4 DEF Sound
  <2> QED
    BY <2>1, <2>5, <2>6 DEF c
<1> QED
  BY <1>2, <1>3

\* An insertion keeps the map sound and within its bounds; it drops a key only
\* when there is no room, and then the one inserted longest ago.
LEMMA InsertEffect ==
  ASSUME NEW m, Sound(m), Cardinality(Keys(m)) <= Capacity,
         NEW k \in Key, NEW v \in Value
  PROVE  LET i == Insert(m, k, v)
             p == Put(m, k, v)
         IN /\ Sound(i)
            /\ Cardinality(Keys(i)) <= Capacity
            /\ Cardinality(i.order) <= 4 * Capacity
            /\ i.generation = m.generation + 1
            /\ IF Cardinality(Keys(p)) <= Capacity
                 THEN i.values = p.values /\ i.evictions = m.evictions
                 ELSE /\ i.evictions = m.evictions + 1
                      /\ \E oldest \in Keys(m) :
                           /\ \A x \in Keys(m) \ {oldest} :
                                m.values[oldest].generation < m.values[x].generation
                           /\ i.values = Restrict(p.values, Keys(p) \ {oldest})
<1> DEFINE p == Put(m, k, v)
           e == Evict(p)
           i == Insert(m, k, v)
<1>1. /\ Sound(p)
      /\ Keys(p) = Keys(m) \cup {k}
      /\ p.generation = m.generation + 1
      /\ p.evictions = m.evictions
      /\ p.values[k] = [value |-> v, generation |-> m.generation + 1]
      /\ \A x \in Keys(m) \ {k} : p.values[x] = m.values[x]
  BY PutEffect
<1>2. /\ IsFiniteSet(Keys(m)) /\ Capacity \in Nat \ {0}
      /\ Cardinality(Keys(m)) \in Nat /\ m.generation \in Nat
  BY FS_CardinalityType, CapacityAssumption DEF Sound
<1>3. /\ Cardinality(Keys(p)) <= Capacity + 1
      /\ k \in Keys(m) => Cardinality(Keys(p)) <= Capacity
  <2>1. Cardinality(Keys(p)) = IF k \in Keys(m) THEN Cardinality(Keys(m))
                                ELSE Cardinality(Keys(m)) + 1
    <3>1. Keys(p) = Keys(m) \cup {k}
      BY <1>1
    <3> HIDE DEF p
    <3> QED
      BY <1>2, <3>1, FS_AddElement
  <2> HIDE DEF p
  <2> QED
    BY <1>2, <2>1
<1> HIDE DEF p
<1>4. /\ Sound(e)
      /\ e.generation = p.generation
      /\ Cardinality(Keys(e)) <= Capacity
      /\ IF Cardinality(Keys(p)) <= Capacity
           THEN e.values = p.values /\ e.evictions = p.evictions
           ELSE /\ e.evictions = p.evictions + 1
                /\ \E oldest \in Keys(p) :
                     /\ \A x \in Keys(p) \ {oldest} :
                          p.values[oldest].generation < p.values[x].generation
                     /\ e.values = Restrict(p.values, Keys(p) \ {oldest})
  BY <1>1, <1>3, EvictEffect
<1> HIDE DEF e
<1>5. /\ Sound(i)
      /\ i.values = e.values
      /\ i.generation = e.generation
      /\ i.evictions = e.evictions
      /\ Cardinality(i.order) <= 4 * Capacity
  <2>1. i = Compact(e)
    BY DEF e, p, Insert
  <2> QED
    BY <1>4, <2>1, CompactEffect
<1> HIDE DEF i
<1>6. Cardinality(Keys(i)) <= Capacity
  BY <1>4, <1>5 DEF Keys
<1>7. CASE Cardinality(Keys(p)) <= Capacity
  BY <1>1, <1>4, <1>5, <1>6, <1>7 DEF i, p
<1>8. CASE ~ (Cardinality(Keys(p)) <= Capacity)
  <2>1. PICK oldest \in Keys(p) :
          /\ \A x \in Keys(p) \ {oldest} :
               p.values[oldest].generation < p.values[x].generation
          /\ e.values = Restrict(p.values, Keys(p) \ {oldest})
    BY <1>4, <1>8
  <2>2. k \notin Keys(m) /\ Keys(m) # {}
    <3>1. k \notin Keys(m)
      BY <1>3, <1>8
    <3>2. CASE Keys(m) = {}
      <4>1. Cardinality(Keys(p)) = 1
        BY <1>1, <3>2, FS_Singleton
      <4> QED
        BY <1>2, <1>8, <4>1
    <3> QED
      BY <3>1, <3>2
  <2>3. \A x \in Keys(m) : m.values[x].generation \in 1..m.generation
    <3> SUFFICES ASSUME NEW x \in Keys(m) PROVE m.values[x].generation \in 1..m.generation
      OBVIOUS
    <3>1. NodeOf(m, x) \in m.order
      BY DEF Sound
    <3>2. NodeOf(m, x).generation \in 1..m.generation
      BY <3>1 DEF Sound
    <3> QED
      BY <3>2 DEF NodeOf
  <2>4. oldest # k
    <3> SUFFICES ASSUME oldest = k PROVE FALSE
      OBVIOUS
    <3>1. PICK x \in Keys(m) : x # k
      BY <2>2
    <3>2. p.values[k].generation < p.values[x].generation
      BY <1>1, <2>1, <3>1
    <3>3. m.generation + 1 < m.values[x].generation
      BY <1>1, <3>1, <3>2
    <3> QED
      BY <1>2, <2>3, <3>3
  <2>5. /\ oldest \in Keys(m)
        /\ \A x \in Keys(m) \ {oldest} :
             m.values[oldest].generation < m.values[x].generation
    BY <1>1, <2>1, <2>2, <2>4
  <2>6. i.values = Restrict(p.values, Keys(p) \ {oldest})
    BY <1>5, <2>1
  <2>7. i.evictions = m.evictions + 1
    BY <1>1, <1>4, <1>5, <1>8
  <2> QED
    BY <1>1, <1>4, <1>5, <1>6, <1>8, <2>5, <2>6, <2>7 DEF i, p
<1> QED
  BY <1>7, <1>8

\* A removal forgets one key; its node stays in the queue.
LEMMA RemoveEffect ==
  ASSUME NEW m, Sound(m), Cardinality(Keys(m)) <= Capacity, NEW k
  PROVE  LET r == Remove(m, k)
         IN /\ Sound(r)
            /\ Cardinality(Keys(r)) <= Capacity
            /\ r.order = m.order
            /\ r.generation = m.generation
            /\ r.evictions = m.evictions
            /\ r.values = Restrict(m.values, Keys(m) \ {k})
<1> DEFINE r == Remove(m, k)
<1>1. /\ r \in [Fields -> {r[f] : f \in Fields}]
      /\ r.capacity = m.capacity
      /\ r.order = m.order
      /\ r.generation = m.generation
      /\ r.evictions = m.evictions
      /\ r.values = Restrict(m.values, Keys(m) \ {k})
  BY DEF Sound, Remove, Fields
<1> HIDE DEF r
<1>2. /\ Keys(r) = Keys(m) \ {k}
      /\ \A x \in Keys(r) : r.values[x] = m.values[x]
      /\ r.values \in [Keys(r) -> Entry]
  BY <1>1 DEF Keys, Restrict, Sound
<1>3. IsFiniteSet(Keys(m)) /\ Capacity \in Nat
  BY CapacityAssumption DEF Sound
<1>4. /\ IsFiniteSet(Keys(r)) /\ Cardinality(Keys(r)) \in Nat
      /\ Cardinality(Keys(r)) <= Cardinality(Keys(m)) /\ Cardinality(Keys(m)) \in Nat
  <2>1. Keys(r) \subseteq Keys(m)
    BY <1>2
  <2> QED
    BY <1>3, <2>1, FS_Subset, FS_CardinalityType
<1>5. \A x \in Keys(r) : NodeOf(r, x) \in r.order
  BY <1>1, <1>2 DEF Sound, NodeOf
<1>6. Sound(r)
  BY <1>1, <1>2, <1>4, <1>5 DEF Sound
<1> QED
  BY <1>1, <1>3, <1>4, <1>6 DEF r

\* The inductive invariant: the map is sound and within its bounds.
MapInv ==
  /\ Sound(map)
  /\ Cardinality(Keys(map)) <= Capacity
  /\ Cardinality(map.order) <= 4 * Capacity

\* An empty map is sound and within its bounds.
LEMMA InitSound == Init => MapInv
<1> SUFFICES ASSUME Init PROVE MapInv
  OBVIOUS
<1>1. /\ map \in [Fields -> {map[f] : f \in Fields}]
      /\ map.capacity = Capacity /\ map.generation = 0 /\ map.order = {}
      /\ map.evictions = 0 /\ map.values = [k \in {} |-> 0]
  BY DEF Init, New, Fields
<1>2. Keys(map) = {}
  BY <1>1 DEF Keys
<1>3. IsFiniteSet({}) /\ Cardinality({}) = 0
  BY FS_EmptySet
<1>4. map.values \in [Keys(map) -> Entry]
  BY <1>1, <1>2
<1> QED
  BY <1>1, <1>2, <1>3, <1>4, CapacityAssumption DEF MapInv, Sound

\* Every step, of the map or of nothing, keeps the invariant.
LEMMA Inductive == MapInv /\ [Next]_map => MapInv'
<1> SUFFICES ASSUME MapInv, [Next]_map PROVE MapInv'
  OBVIOUS
<1>1. CASE UNCHANGED map
  BY <1>1 DEF MapInv, Sound, Keys, NodeOf
<1>2. ASSUME NEW k \in Key, RemoveKey(k) PROVE MapInv'
  <2>1. map' = Remove(map, k)
    BY <1>2 DEF RemoveKey
  <2>2. /\ Sound(map') /\ Cardinality(Keys(map')) <= Capacity
        /\ Cardinality(map'.order) <= 4 * Capacity
    BY <2>1, RemoveEffect DEF MapInv
  <2> QED
    BY <2>2 DEF MapInv, Sound, Keys, NodeOf
<1>3. ASSUME NEW k \in Key, NEW v \in Value, InsertKey(k, v) PROVE MapInv'
  <2>1. map' = Insert(map, k, v)
    BY <1>3 DEF InsertKey
  <2>2. /\ Sound(map') /\ Cardinality(Keys(map')) <= Capacity
        /\ Cardinality(map'.order) <= 4 * Capacity
    BY <2>1, InsertEffect DEF MapInv
  <2> QED
    BY <2>2 DEF MapInv, Sound, Keys, NodeOf
<1> QED
  BY <1>1, <1>2, <1>3 DEF Next

\* The invariant holds of every behaviour.
LEMMA Invariance == Spec => []MapInv
<1> QED
  BY InitSound, Inductive, PTL DEF Spec

\* The fields of a map have their types (MapTypeOK).
THEOREM TypeCorrect == Spec => []MapTypeOK
<1>1. MapInv => MapTypeOK
  BY DEF MapInv, Sound, MapTypeOK
<1> QED
  BY <1>1, Invariance, PTL

\* However it is used, a map never holds more keys than its capacity, nor its
\* queue more nodes than four times that (BoundsHold).
THEOREM Bounds == Spec => []BoundsHold
<1>1. MapInv => BoundsHold
  BY DEF MapInv, BoundsHold
<1> QED
  BY <1>1, Invariance, PTL

\* Stale nodes and compaction never lose the node of a live key, and no two
\* nodes share a generation (QueueCoversKeys).
THEOREM Covers == Spec => []QueueCoversKeys
<1>1. MapInv => QueueCoversKeys
  BY DEF MapInv, Sound, QueueCoversKeys
<1> QED
  BY <1>1, Invariance, PTL

\* The map implements RecencyMap: with its lazily cleaned queue it forgets
\* exactly the key inserted longest ago (ImplementsRecency).
THEOREM Refinement == Spec => ImplementsRecency
<1>1. Init => Recency!Init
  BY DEF Init, New, Recency!Init
<1>2. MapInv /\ [Next]_map => [Recency!Next]_Recency!vars
  <2> SUFFICES ASSUME MapInv, [Next]_map PROVE [Recency!Next]_Recency!vars
    OBVIOUS
  <2>1. CASE UNCHANGED map
    BY <2>1 DEF Recency!vars
  <2>2. ASSUME NEW k \in Key, RemoveKey(k) PROVE Recency!Remove(k)
    <3>1. map' = Remove(map, k)
      BY <2>2 DEF RemoveKey
    <3>2. /\ map'.generation = map.generation
          /\ map'.evictions = map.evictions
          /\ map'.values = Restrict(map.values, Keys(map) \ {k})
      BY <3>1, RemoveEffect DEF MapInv
    <3> QED
      BY <3>2 DEF Recency!Remove, Keys, Restrict, Recency!Restrict
  <2>3. ASSUME NEW k \in Key, NEW v \in Value, InsertKey(k, v) PROVE Recency!Insert(k, v)
    <3> DEFINE p == Put(map, k, v)
    <3>1. map' = Insert(map, k, v)
      BY <2>3 DEF InsertKey
    <3>2. /\ map'.generation = map.generation + 1
          /\ IF Cardinality(Keys(p)) <= Capacity
               THEN map'.values = p.values /\ map'.evictions = map.evictions
               ELSE /\ map'.evictions = map.evictions + 1
                    /\ \E oldest \in Keys(map) :
                         /\ \A x \in Keys(map) \ {oldest} :
                              map.values[oldest].generation < map.values[x].generation
                         /\ map'.values = Restrict(p.values, Keys(p) \ {oldest})
      <4>1. Sound(map) /\ Cardinality(Keys(map)) <= Capacity
        BY DEF MapInv
      <4> QED
        BY <3>1, <4>1, InsertEffect
    <3>3. p.values = Recency!With(k, v)
      BY DEF MapInv, Sound, Fields, Put, Keys, Recency!With
    <3> HIDE DEF p
    <3>4. Keys(p) = DOMAIN Recency!With(k, v)
      BY <3>3 DEF Keys
    <3>5. Recency!Cardinality(DOMAIN Recency!With(k, v)) = Cardinality(Keys(p))
      BY <3>4, Zenon DEF Cardinality, Recency!Cardinality
    <3>6. CASE Cardinality(Keys(p)) <= Capacity
      BY <3>2, <3>3, <3>5, <3>6 DEF Recency!Insert
    <3>7. CASE ~ (Cardinality(Keys(p)) <= Capacity)
      BY <3>2, <3>3, <3>4, <3>5, <3>7
      DEF Recency!Insert, Keys, Restrict, Recency!Restrict
    <3> QED
      BY <3>6, <3>7
  <2> QED
    BY <2>1, <2>2, <2>3 DEF Next, Recency!Next
<1> QED
  BY <1>1, <1>2, Invariance, PTL DEF Spec, ImplementsRecency, Recency!Spec
=============================================================================
