------------------------ MODULE CaptureSessionProofs ------------------------
(***************************************************************************)
(* The ledger by itself, and then everything CaptureSession promises of    *)
(* its footers, for any number of CPUs, packets, probes, table entries,    *)
(* ring slots, events and rotations.                                       *)
(*                                                                         *)
(* The ledger's negative claim is not inductive: it speaks of losses in    *)
(* the table and of handlers on their way to it, and a handler that gives  *)
(* up is neither. LedgerInv adds where such a loss is remembered           *)
(* (unfiled), that a CPU with an unfiled loss has said so in its           *)
(* telemetry, and that a handler about to add to an entry still finds it.  *)
(* Conservation is inductive once a handler about to insert its probe is   *)
(* known to find no count to overwrite: only its own CPU writes that slot. *)
(* It counts losses, so it needs sums over finite sets. MapThenSumSet is a *)
(* recursive function over subsets; what it computes is shown without an   *)
(* induction schema, by taking the least subset for which a claim would    *)
(* fail.                                                                   *)
(*                                                                         *)
(* A session runs the ledger (SessionRunsLedger), so what is proved of the *)
(* ledger holds while it samples.  The samplings read the tables while the *)
(* handlers write them, and every claim about a finished footer is the     *)
(* last instance of one that holds throughout the sampling:                *)
(*                                                                         *)
(*   CoverInv      what has been read, by this sampling or the one before  *)
(*                 it, is no more than what the tables hold now;           *)
(*   BreakdownInv  what the breakdowns hold is explained by the totals read *)
(*                 so far and the CPUs still unread;                       *)
(*   SettledInv    a loss settled at the start has been read, or its key or *)
(*                 CPU is still to be visited;                             *)
(*   OvertakesInv  what has been read is past the last checkpoint, or is   *)
(*                 still to be visited.                                    *)
(*                                                                         *)
(* HitsInv is the main loop's own: the records it holds, writes and drops, *)
(* with the ring and the ledger, are the hits.                             *)
(***************************************************************************)
EXTENDS CaptureSession, FiniteSetTheorems, TLAPS

-----------------------------------------------------------------------------
\* Sums over finite sets.

\* The element MapThenSumSet takes out of s.
Pick(s) == CHOOSE x \in s : TRUE

\* Among finite sets there is one that includes no other: what an induction over
\* finite sets starts from, since a counterexample of a claim about all of them
\* may then be taken least.
LEMMA LeastSet ==
  ASSUME NEW F, F # {}, \A T \in F : IsFiniteSet(T)
  PROVE  \E T \in F : \A U \in F : U \subseteq T => U = T
<1> DEFINE S == UNION F
<1>1. F \subseteq FiniteSubsetsOf(S)
  BY DEF FiniteSubsetsOf
<1>2. PICK T \in F : \A U \in F : ~(<<U, T>> \in StrictSubsetOrdering(S))
  BY <1>1, FS_StrictSubsetOrderingWellFounded, WFMin
<1> QED
  BY <1>2 DEF StrictSubsetOrdering

\* So has every set of numbers a least one.
LEMMA LeastNat ==
  ASSUME NEW N \in SUBSET Nat, N # {}
  PROVE  \E n \in N : \A m \in N : n <= m
<1> DEFINE F == {i \in SUBSET Nat : \E n \in N : i = 1..n}
<1>1. F # {}
  <2>1. PICK n \in N : TRUE
    OBVIOUS
  <2>2. 1..n \in F
    OBVIOUS
  <2> QED
    BY <2>2
<1>2. \A T \in F : IsFiniteSet(T)
  BY FS_Interval
<1> HIDE DEF F
<1>3. PICK T \in F : \A U \in F : U \subseteq T => U = T
  BY <1>1, <1>2, LeastSet
<1> USE DEF F
<1>4. PICK n \in N : T = 1..n
  OBVIOUS
<1>5. ASSUME NEW m \in N, m < n PROVE FALSE
  <2>1. 1..m \in F /\ 1..m \subseteq 1..n
    BY <1>5
  <2>2. n \in 1..n /\ n \notin 1..m
    BY <1>5
  <2> QED
    BY <1>3, <1>4, <2>1, <2>2
<1> QED
  BY <1>5

\* g adds up f over every subset of S,
Adds(g, f, S) ==
  g = [s \in SUBSET S |-> IF s = {} THEN 0 ELSE f[Pick(s)] + g[s \ {Pick(s)}]]

\* MapThenSumSet, unfolded: the value at S of the table g that adds up every
\* subset of S by taking out one element at a time.
LEMMA SumUnfold ==
  ASSUME NEW S, NEW f
  PROVE  SumOver(f, S) = (CHOOSE g : Adds(g, f, S))[S]
BY DEF SumOver, MapThenSumSet, MapThenFoldSet, Adds, Pick

\* and over those of at most n elements.
Small(S, n) == {s \in SUBSET S : Cardinality(s) <= n}
AddsTo(g, f, S, n) ==
  g = [s \in Small(S, n) |-> IF s = {} THEN 0 ELSE f[Pick(s)] + g[s \ {Pick(s)}]]

\* Such a table exists for every finite set, one cardinality after the other.
LEMMA AdderExists ==
  ASSUME NEW S, IsFiniteSet(S), NEW f
  PROVE  \E g : Adds(g, f, S)
<1>1. \A s \in SUBSET S : IsFiniteSet(s) /\ Cardinality(s) \in Nat /\ Cardinality(s) <= Cardinality(S)
  BY FS_Subset, FS_CardinalityType
<1>2. \A s \in SUBSET S : s # {} =>
        Pick(s) \in s /\ s \ {Pick(s)} \in SUBSET S /\ Cardinality(s \ {Pick(s)}) = Cardinality(s) - 1
  BY <1>1, FS_RemoveElement DEF Pick
<1> DEFINE N == {n \in Nat : ~\E g : AddsTo(g, f, S, n)}
<1>3. N = {}
  <2> SUFFICES ASSUME N # {} PROVE FALSE
    OBVIOUS
  <2>1. PICK n \in N : \A m \in N : n <= m
    BY LeastNat
  <2>2. n # 0
    <3>1. Small(S, 0) = {{}}
      BY <1>1, FS_EmptySet DEF Small
    <3> DEFINE g == [s \in {{}} |-> 0]
    <3>2. AddsTo(g, f, S, 0)
      BY <3>1 DEF AddsTo
    <3> QED
      BY <3>2
  <2>3. PICK g : AddsTo(g, f, S, n - 1)
    BY <2>1, <2>2
  <2> DEFINE h == [s \in Small(S, n) |-> IF s = {} THEN 0 ELSE f[Pick(s)] + g[s \ {Pick(s)}]]
  <2>4. \A s \in Small(S, n - 1) : h[s] = g[s]
    <3>1. Small(S, n - 1) \subseteq Small(S, n)
      BY <1>1 DEF Small
    <3> QED
     BY <2>3, <3>1 DEF AddsTo
  <2>5. ASSUME NEW s \in Small(S, n), s # {} PROVE g[s \ {Pick(s)}] = h[s \ {Pick(s)}]
    <3>1. s \ {Pick(s)} \in Small(S, n - 1)
      BY <1>1, <1>2, <2>5 DEF Small
    <3> QED
      BY <2>4, <3>1
  <2>6. h = [s \in Small(S, n) |-> IF s = {} THEN 0 ELSE f[Pick(s)] + h[s \ {Pick(s)}]]
    BY <2>5
  <2>7. AddsTo(h, f, S, n)
    BY <2>6 DEF AddsTo
  <2> QED
    BY <2>7
<1>4. Small(S, Cardinality(S)) = SUBSET S
  BY <1>1 DEF Small
<1>5. Cardinality(S) \in Nat
  BY FS_CardinalityType
<1>6. PICK g : AddsTo(g, f, S, Cardinality(S))
  BY <1>3, <1>5
<1> QED
  BY <1>4, <1>6 DEF Adds, AddsTo

\* Hence the sum is an entry of one.
LEMMA AdderIsThere ==
  ASSUME NEW S, IsFiniteSet(S), NEW f
  PROVE  \E g : Adds(g, f, S) /\ SumOver(f, S) = g[S]
<1> DEFINE g == CHOOSE h : Adds(h, f, S)
<1>1. Adds(g, f, S)
  BY AdderExists
<1> QED
  BY <1>1, SumUnfold

\* Nothing adds up to 0.
LEMMA SumEmpty == \A f : SumOver(f, {}) = 0
<1> SUFFICES ASSUME NEW f PROVE SumOver(f, {}) = 0
  OBVIOUS
<1>1. PICK g : Adds(g, f, {}) /\ SumOver(f, {}) = g[{}]
  BY AdderIsThere, FS_EmptySet
<1> QED
  BY <1>1 DEF Adds

\* The tables of two sums agree on common subsets.
LEMMA AddersAgree ==
  ASSUME NEW S, IsFiniteSet(S), NEW T \in SUBSET S, NEW f, NEW g, NEW h,
         Adds(g, f, S), Adds(h, f, T)
  PROVE  g[T] = h[T]
<1> DEFINE F == {U \in SUBSET T : g[U] # h[U]}
<1> SUFFICES ASSUME F # {} PROVE FALSE
  OBVIOUS
<1>1. \A U \in F : IsFiniteSet(U)
  BY FS_Subset
<1> HIDE DEF F
<1>2. PICK U \in F : \A V \in F : V \subseteq U => V = U
  BY <1>1, LeastSet
<1> USE DEF F
<1>3. U # {}
  BY DEF Adds
<1>4. Pick(U) \in U
  BY <1>3 DEF Pick
<1>5. U \ {Pick(U)} \notin F
  BY <1>2, <1>4
<1>6. g[U \ {Pick(U)}] = h[U \ {Pick(U)}]
  BY <1>5
<1>7. g[U] = f[Pick(U)] + g[U \ {Pick(U)}]
  BY <1>3 DEF Adds
<1>8. h[U] = f[Pick(U)] + h[U \ {Pick(U)}]
  BY <1>3 DEF Adds
<1> QED
  BY <1>6, <1>7, <1>8

\* The table of a sum holds the sums of the subsets.
LEMMA SumOfSubset ==
  ASSUME NEW S, IsFiniteSet(S), NEW T \in SUBSET S, NEW f, NEW g, Adds(g, f, S)
  PROVE  g[T] = SumOver(f, T)
<1>1. PICK h : Adds(h, f, T) /\ SumOver(f, T) = h[T]
  BY AdderIsThere, FS_Subset
<1> QED
  BY <1>1, AddersAgree

\* One step of the definition.
LEMMA SumPick ==
  ASSUME NEW S, IsFiniteSet(S), S # {}, NEW f
  PROVE  SumOver(f, S) = f[Pick(S)] + SumOver(f, S \ {Pick(S)})
<1>1. PICK g : Adds(g, f, S) /\ SumOver(f, S) = g[S]
  BY AdderIsThere
<1>2. g[S] = f[Pick(S)] + g[S \ {Pick(S)}]
  BY <1>1 DEF Adds
<1>3. S \ {Pick(S)} \in SUBSET S
  OBVIOUS
<1> QED
  BY <1>1, <1>2, <1>3, SumOfSubset

\* A sum of counts is a count.
LEMMA SumInNat ==
  ASSUME NEW S, IsFiniteSet(S), NEW f, \A x \in S : f[x] \in Nat
  PROVE  SumOver(f, S) \in Nat
<1> DEFINE F == {U \in SUBSET S : SumOver(f, U) \notin Nat}
<1> SUFFICES ASSUME F # {} PROVE FALSE
  OBVIOUS
<1>1. \A U \in F : IsFiniteSet(U)
  BY FS_Subset
<1> HIDE DEF F
<1>3. PICK U \in F : \A V \in F : V \subseteq U => V = U
  BY <1>1, LeastSet
<1> USE DEF F
<1>4. U # {}
  BY SumEmpty
<1>5. Pick(U) \in U
  BY <1>4 DEF Pick
<1>6. SumOver(f, U \ {Pick(U)}) \in Nat
  BY <1>3, <1>5
<1>7. SumOver(f, U) = f[Pick(U)] + SumOver(f, U \ {Pick(U)})
  BY <1>1, <1>4, SumPick
<1> QED
  BY <1>5, <1>6, <1>7

\* Any element may be taken out of a sum.
LEMMA SumTake ==
  ASSUME NEW S, IsFiniteSet(S), NEW f, \A x \in S : f[x] \in Nat, NEW e \in S
  PROVE  SumOver(f, S) = f[e] + SumOver(f, S \ {e})
<1> DEFINE F == {U \in SUBSET S : \E x \in U : SumOver(f, U) # f[x] + SumOver(f, U \ {x})}
<1> SUFFICES ASSUME F # {} PROVE FALSE
  OBVIOUS
<1>1. \A U \in SUBSET S : IsFiniteSet(U) /\ SumOver(f, U) \in Nat
  <2> SUFFICES ASSUME NEW U \in SUBSET S PROVE IsFiniteSet(U) /\ SumOver(f, U) \in Nat
    OBVIOUS
  <2>1. IsFiniteSet(U)
    BY FS_Subset
  <2> QED
    BY <2>1, SumInNat
<1>2. \A U \in F : IsFiniteSet(U)
  BY <1>1
<1> HIDE DEF F
<1>3. PICK U \in F : \A V \in F : V \subseteq U => V = U
  BY <1>2, LeastSet
<1> USE DEF F
<1>4. PICK x \in U : SumOver(f, U) # f[x] + SumOver(f, U \ {x})
  OBVIOUS
<1> DEFINE y == Pick(U)
<1>5. y \in U
  BY DEF Pick
<1>6. SumOver(f, U) = f[y] + SumOver(f, U \ {y})
  BY <1>1, SumPick
<1>7. x # y
  BY <1>4, <1>6
<1>8. U \ {y} \notin F /\ U \ {x} \notin F
  BY <1>3, <1>4, <1>5
<1> HIDE DEF y
<1>9. SumOver(f, U \ {y}) = f[x] + SumOver(f, (U \ {y}) \ {x})
  BY <1>4, <1>7, <1>8
<1>10. SumOver(f, U \ {x}) = f[y] + SumOver(f, (U \ {x}) \ {y})
  BY <1>5, <1>7, <1>8
<1>11. (U \ {x}) \ {y} = (U \ {y}) \ {x}
  OBVIOUS
<1>12. f[x] \in Nat /\ f[y] \in Nat /\ SumOver(f, (U \ {y}) \ {x}) \in Nat
  BY <1>1, <1>5
<1> QED
  BY <1>4, <1>6, <1>9, <1>10, <1>11, <1>12

\* Sums of functions that agree.
LEMMA SumSame ==
  ASSUME NEW S, IsFiniteSet(S), NEW f, NEW g, \A x \in S : f[x] = g[x]
  PROVE  SumOver(f, S) = SumOver(g, S)
<1> DEFINE F == {U \in SUBSET S : SumOver(f, U) # SumOver(g, U)}
<1> SUFFICES ASSUME F # {} PROVE FALSE
  OBVIOUS
<1>1. \A U \in F : IsFiniteSet(U)
  BY FS_Subset
<1> HIDE DEF F
<1>3. PICK U \in F : \A V \in F : V \subseteq U => V = U
  BY <1>1, LeastSet
<1> USE DEF F
<1>4. U # {}
  BY SumEmpty
<1>5. Pick(U) \in U
  BY <1>4 DEF Pick
<1>6. SumOver(f, U \ {Pick(U)}) = SumOver(g, U \ {Pick(U)})
  BY <1>3, <1>5
<1>7. /\ SumOver(f, U) = f[Pick(U)] + SumOver(f, U \ {Pick(U)})
      /\ SumOver(g, U) = g[Pick(U)] + SumOver(g, U \ {Pick(U)})
  BY <1>1, <1>4, SumPick
<1> QED
  BY <1>5, <1>6, <1>7

\* A sum of which one term changes.
LEMMA SumChange ==
  ASSUME NEW S, IsFiniteSet(S), NEW f, NEW g, NEW e \in S,
         \A x \in S : f[x] \in Nat /\ g[x] \in Nat,
         \A x \in S \ {e} : g[x] = f[x]
  PROVE  SumOver(f, S) \in Nat /\ SumOver(g, S) \in Nat
         /\ SumOver(g, S) + f[e] = SumOver(f, S) + g[e]
<1>1. IsFiniteSet(S \ {e})
  BY FS_RemoveElement
<1>2. SumOver(f, S \ {e}) = SumOver(g, S \ {e})
  BY <1>1, SumSame
<1>3. SumOver(f, S) = f[e] + SumOver(f, S \ {e}) /\ SumOver(g, S) = g[e] + SumOver(g, S \ {e})
  BY SumTake
<1>4. SumOver(f, S \ {e}) \in Nat
  BY <1>1, SumInNat
<1> QED
  BY <1>2, <1>3, <1>4

\* Sums of functions one of which is nowhere larger.
LEMMA SumMonotone ==
  ASSUME NEW S, IsFiniteSet(S), NEW f, NEW g,
         \A x \in S : f[x] \in Nat /\ g[x] \in Nat /\ f[x] <= g[x]
  PROVE  SumOver(f, S) <= SumOver(g, S)
<1> DEFINE F == {U \in SUBSET S : ~(SumOver(f, U) <= SumOver(g, U))}
<1> SUFFICES ASSUME F # {} PROVE FALSE
  OBVIOUS
<1>1. \A U \in F : IsFiniteSet(U)
  BY FS_Subset
<1> HIDE DEF F
<1>3. PICK U \in F : \A V \in F : V \subseteq U => V = U
  BY <1>1, LeastSet
<1> USE DEF F
<1>4. U # {}
  BY SumEmpty
<1>5. Pick(U) \in U
  BY <1>4 DEF Pick
<1>6. SumOver(f, U \ {Pick(U)}) <= SumOver(g, U \ {Pick(U)})
  BY <1>3, <1>5
<1>7. /\ SumOver(f, U) = f[Pick(U)] + SumOver(f, U \ {Pick(U)})
      /\ SumOver(g, U) = g[Pick(U)] + SumOver(g, U \ {Pick(U)})
  BY <1>1, <1>4, SumPick
<1>8. IsFiniteSet(U \ {Pick(U)})
  BY <1>1, FS_RemoveElement
<1>9. SumOver(f, U \ {Pick(U)}) \in Nat /\ SumOver(g, U \ {Pick(U)}) \in Nat
  BY <1>8, SumInNat
<1> QED
  BY <1>5, <1>6, <1>7, <1>9

\* A sum of which one term grows by one.
LEMMA SumBump ==
  ASSUME NEW S, IsFiniteSet(S), NEW f, NEW g, NEW e \in S,
         \A x \in S : f[x] \in Nat,
         \A x \in S \ {e} : g[x] = f[x],
         g[e] = f[e] + 1
  PROVE  SumOver(f, S) \in Nat /\ SumOver(g, S) = SumOver(f, S) + 1
<1>1. \A x \in S : f[x] \in Nat /\ g[x] \in Nat
  OBVIOUS
<1>2. SumOver(f, S) \in Nat /\ SumOver(g, S) \in Nat
      /\ SumOver(g, S) + f[e] = SumOver(f, S) + g[e]
  BY <1>1, SumChange
<1> QED
  BY <1>1, <1>2

\* A sum of zeros.
LEMMA SumZero ==
  ASSUME NEW S, IsFiniteSet(S), NEW f, \A x \in S : f[x] = 0
  PROVE  SumOver(f, S) = 0
<1> DEFINE F == {U \in SUBSET S : SumOver(f, U) # 0}
<1> SUFFICES ASSUME F # {} PROVE FALSE
  OBVIOUS
<1>1. \A U \in F : IsFiniteSet(U)
  BY FS_Subset
<1> HIDE DEF F
<1>2. PICK U \in F : \A V \in F : V \subseteq U => V = U
  BY <1>1, LeastSet
<1> USE DEF F
<1>3. U # {}
  BY SumEmpty
<1>4. Pick(U) \in U
  BY <1>3 DEF Pick
<1>5. SumOver(f, U \ {Pick(U)}) = 0
  BY <1>2, <1>4
<1>6. SumOver(f, U) = f[Pick(U)] + SumOver(f, U \ {Pick(U)})
  BY <1>1, <1>3, SumPick
<1> QED
  BY <1>4, <1>5, <1>6

-----------------------------------------------------------------------------
\* The ledger.

\* Counters, and tables of counters, stay so when one of them is set or bumped.
LEMMA CounterSet ==
  ASSUME NEW S, NEW f \in [S -> Nat], NEW x \in S, NEW n \in Nat
  PROVE  [f EXCEPT ![x] = n] \in [S -> Nat]
OBVIOUS

\* Adding to a per-CPU counter keeps its type.
LEMMA CounterBump ==
  ASSUME NEW S, NEW f \in [S -> Nat], NEW x \in S
  PROVE  /\ [f EXCEPT ![x] = @ + 1] \in [S -> Nat]
         /\ \A y \in S : f[y] > 0 => [f EXCEPT ![x] = @ + 1][y] > 0
         /\ [f EXCEPT ![x] = @ + 1][x] > 0
OBVIOUS

\* So does setting an entry of a per-key or per-CPU table of counts,
LEMMA TableSet ==
  ASSUME NEW S, NEW T, NEW f \in [S -> [T -> Nat]], NEW x \in S, NEW y \in T, NEW n \in Nat
  PROVE  [f EXCEPT ![x][y] = n] \in [S -> [T -> Nat]]
OBVIOUS

\* and adding to one.
LEMMA TableBump ==
  ASSUME NEW S, NEW T, NEW f \in [S -> [T -> Nat]], NEW x \in S, NEW y \in T
  PROVE  /\ [f EXCEPT ![x][y] = @ + 1] \in [S -> [T -> Nat]]
         /\ \A v \in S, w \in T : f[v][w] > 0 => [f EXCEPT ![x][y] = @ + 1][v][w] > 0
         /\ [f EXCEPT ![x][y] = @ + 1][x][y] > 0
OBVIOUS

\* Setting one CPU's slot of an entry leaves the slots of the others alone.
LEMMA TableOther ==
  ASSUME NEW S, NEW T, NEW f \in [S -> [T -> Nat]], NEW x, NEW y \in T, NEW n,
         NEW z \in T, z # y
  PROVE  \A v \in S : [f EXCEPT ![x][y] = n][v][z] = f[v][z]
OBVIOUS

\* Every observation of a running handler is a key of the tables.
LEMMA HitIsKey ==
  ASSUME TypeOK, NEW c \in Cpu, handler[c] # "idle"
  PROVE  hit[c] \in Key
BY NoKeyAssumption DEF TypeOK

\* Before the first hit the ledger is empty.
LEMMA TypeOKInit == KernelInit => TypeOK
BY DEF KernelInit, TypeOK, Steps

\* Every map call of a handler keeps the types.
LEMMA TypeOKStep == TypeOK /\ [Next]_kernelVars => TypeOK'
<1> SUFFICES ASSUME TypeOK, [Next]_kernelVars PROVE TypeOK'
  OBVIOUS
<1> USE DEF TypeOK, Steps, At, Goto, Return, telemetry, history
<1>1. CASE UNCHANGED kernelVars
  BY <1>1 DEF kernelVars
<1>2. ASSUME NEW c \in Cpu, NEW k \in Key, Hit(c, k) PROVE TypeOK'
  <2>1. /\ handler' = [handler EXCEPT ![c] = "reserve"]
        /\ hit' = [hit EXCEPT ![c] = k]
        /\ hits' = hits + 1
        /\ UNCHANGED <<ring, telemetry, skb_loss, probe_site_loss, recursion_misses, history>>
    BY <1>2 DEF Hit
  <2>2. handler' \in [Cpu -> Steps] /\ hit' \in [Cpu -> Key \cup {NoKey}] /\ hits' \in Nat
    BY <2>1
  <2>3. \A d \in Cpu : hit'[d] = NoKey <=> handler'[d] = "idle"
    BY <2>1, NoKeyAssumption
  <2> QED
    BY <2>1, <2>2, <2>3
<1>3. ASSUME NEW c \in Cpu, Miss(c) PROVE TypeOK'
  <2>1. /\ hits' = hits + 1 /\ recursion_misses' = recursion_misses + 1
        /\ UNCHANGED <<handler, hit, ring, telemetry, skb_loss, probe_site_loss, history>>
    BY <1>3 DEF Miss
  <2>2. hits' \in Nat /\ recursion_misses' \in Nat
    BY <2>1
  <2> QED
    BY <2>1, <2>2
<1>4. ASSUME NEW c \in Cpu, HandlerStep(c) PROVE TypeOK'
  <2>1. handler[c] # "idle"
    BY <1>4 DEF HandlerStep, Emit, Refuse, CountFailure, FindSkbLoss, AddSkbLoss,
                InsertSkbLoss, RefindSkbLoss, FindProbeSite, AddProbeSite, InsertProbeSite
  <2>2. hit[c] \in Key
    BY <2>1, HitIsKey
  <2>3. hit[c].site \in Site
    BY <2>2 DEF Key
  <2>4. CASE Emit(c)
    BY <2>2, <2>4 DEF Emit
  <2>5. CASE Refuse(c)
    BY <2>2, <2>5 DEF Refuse
  <2>6. CASE CountFailure(c)
    BY <2>6 DEF CountFailure
  <2>7. CASE FindSkbLoss(c)
    BY <2>7 DEF FindSkbLoss
  <2>8. CASE AddSkbLoss(c)
    <3>1. skb_loss' \in [Key -> Nat]
      BY <2>2, <2>8, CounterBump DEF AddSkbLoss
    <3> QED
      BY <2>2, <2>8, <3>1 DEF AddSkbLoss
  <2>9. CASE InsertSkbLoss(c)
    <3>1. skb_loss' \in [Key -> Nat]
      <4>1. skb_loss' = [skb_loss EXCEPT ![hit[c]] = 1] \/ skb_loss' = skb_loss
        BY <2>9 DEF InsertSkbLoss
      <4>2. skb_loss \in [Key -> Nat]
        BY DEF TypeOK
      <4>3. [skb_loss EXCEPT ![hit[c]] = 1] \in [Key -> Nat]
        BY <2>2, <4>2, CounterSet
      <4> QED
        BY <4>1, <4>2, <4>3
    <3>2. handler' \in [Cpu -> Steps] /\ handler'[c] # "idle"
          /\ \A d \in Cpu \ {c} : handler'[d] = handler[d]
      BY <2>9 DEF InsertSkbLoss
    <3> QED
      BY <2>1, <2>9, <3>1, <3>2 DEF InsertSkbLoss
  <2>10. CASE RefindSkbLoss(c)
    <3>1. /\ unattributed_skb_losses' \in [Cpu -> Nat]
          /\ unfiled' \in [Cpu -> [Key -> Nat]]
      <4>1. \/ UNCHANGED <<unattributed_skb_losses, unfiled>>
            \/ /\ unattributed_skb_losses' = [unattributed_skb_losses EXCEPT ![c] = @ + 1]
               /\ unfiled' = [unfiled EXCEPT ![c][hit[c]] = @ + 1]
        BY <2>10 DEF RefindSkbLoss
      <4>2. /\ unattributed_skb_losses \in [Cpu -> Nat]
            /\ unfiled \in [Cpu -> [Key -> Nat]]
        BY DEF TypeOK
      <4>3. [unattributed_skb_losses EXCEPT ![c] = @ + 1] \in [Cpu -> Nat]
        BY <4>2, CounterBump
      <4>4. [unfiled EXCEPT ![c][hit[c]] = @ + 1] \in [Cpu -> [Key -> Nat]]
        BY <2>2, <4>2, TableBump
      <4> QED
        BY <4>1, <4>2, <4>3, <4>4
    <3>2. handler' \in [Cpu -> Steps] /\ handler'[c] # "idle"
          /\ \A d \in Cpu \ {c} : handler'[d] = handler[d]
      BY <2>10 DEF RefindSkbLoss
    <3> QED
      BY <2>1, <2>10, <3>1, <3>2 DEF RefindSkbLoss
  <2>11. CASE FindProbeSite(c)
    BY <2>11 DEF FindProbeSite
  <2>12. CASE AddProbeSite(c)
    BY <2>3, <2>12 DEF AddProbeSite
  <2>13. CASE InsertProbeSite(c)
    <3>1. /\ probe_site_loss' \in [Site -> [Cpu -> Nat]]
          /\ unattributed_reserve_failures' \in [Cpu -> Nat]
      <4>1. \/ /\ probe_site_loss' = [probe_site_loss EXCEPT ![hit[c].site][c] = 1]
               /\ UNCHANGED unattributed_reserve_failures
            \/ /\ unattributed_reserve_failures' =
                      [unattributed_reserve_failures EXCEPT ![c] = @ + 1]
               /\ UNCHANGED probe_site_loss
        BY <2>13 DEF InsertProbeSite
      <4>2. /\ probe_site_loss \in [Site -> [Cpu -> Nat]]
            /\ unattributed_reserve_failures \in [Cpu -> Nat]
        BY DEF TypeOK
      <4>3. [probe_site_loss EXCEPT ![hit[c].site][c] = 1] \in [Site -> [Cpu -> Nat]]
        BY <2>3, <4>2, TableSet
      <4>4. [unattributed_reserve_failures EXCEPT ![c] = @ + 1] \in [Cpu -> Nat]
        BY <4>2, CounterBump
      <4> QED
        BY <4>1, <4>2, <4>3, <4>4
    <3>2. /\ handler' = [handler EXCEPT ![c] = "idle"]
          /\ hit' = [hit EXCEPT ![c] = NoKey]
      BY <2>13 DEF InsertProbeSite
    <3> QED
      BY <2>13, <3>1, <3>2 DEF InsertProbeSite
  <2> QED
    BY <1>4, <2>4, <2>5, <2>6, <2>7, <2>8, <2>9, <2>10, <2>11, <2>12, <2>13 DEF HandlerStep
<1>5. CASE Consume
  BY <1>5 DEF Consume
<1> QED
  BY <1>1, <1>2, <1>3, <1>4, <1>5 DEF Next, KernelNext

\* The variables keep their types: in particular an idle CPU never reports an
\* observation, and no counter of the ledger is ever undefined.
THEOREM TypeCorrect == Spec => []TypeOK
BY TypeOKInit, TypeOKStep, PTL DEF Spec

-----------------------------------------------------------------------------
\* A CPU that could not file a loss has counted one.
UnfiledIsAdmitted ==
  \A c \in Cpu, k \in Key : unfiled[c][k] > 0 => unattributed_skb_losses[c] > 0

\* A lost record is in the table, on its way there, or was given up.
EveryLossIsSomewhere ==
  \A k \in Key :
    lost[k] > 0 => \/ k \in Filed
                   \/ Filing(k) # {}
                   \/ \E c \in Cpu : unfiled[c][k] > 0

\* The inductive invariant behind Exhaustive.
LedgerInv == TypeOK /\ UnfiledIsAdmitted /\ EveryLossIsSomewhere

\* An empty ledger satisfies it.
LEMMA LedgerInvInit == KernelInit => LedgerInv
BY TypeOKInit DEF KernelInit, LedgerInv, UnfiledIsAdmitted, EveryLossIsSomewhere

\* Entries are never removed, counts never fall, and what a handler has given
\* up stays remembered.
LEMMA LedgerGrows ==
  ASSUME TypeOK, [Next]_kernelVars
  PROVE  /\ \A k \in Key : k \in Filed => k \in Filed'
         /\ \A c \in Cpu, k \in Key : unfiled[c][k] > 0 => unfiled'[c][k] > 0
<1> USE DEF TypeOK, At, Goto, Return, telemetry, history, Filed
<1>1. CASE UNCHANGED <<skb_loss, unfiled>>
  BY <1>1
<1>2. ASSUME NEW c \in Cpu, AddSkbLoss(c) \/ InsertSkbLoss(c)
      PROVE  \A k \in Key : skb_loss[k] # 0 => skb_loss'[k] # 0
  <2>1. hit[c] \in Key
    BY <1>2, HitIsKey DEF AddSkbLoss, InsertSkbLoss
  <2> QED
    BY <1>2, <2>1 DEF AddSkbLoss, InsertSkbLoss
<1>3. ASSUME NEW c \in Cpu, RefindSkbLoss(c)
      PROVE  \A d \in Cpu, k \in Key : unfiled[d][k] > 0 => unfiled'[d][k] > 0
  <2>1. hit[c] \in Key
    BY <1>3, HitIsKey DEF RefindSkbLoss
  <2>2. \/ UNCHANGED unfiled
        \/ unfiled' = [unfiled EXCEPT ![c][hit[c]] = @ + 1]
    BY <1>3 DEF RefindSkbLoss
  <2>3. unfiled \in [Cpu -> [Key -> Nat]]
    OBVIOUS
  <2>4. \A d \in Cpu, k \in Key :
          unfiled[d][k] > 0 => [unfiled EXCEPT ![c][hit[c]] = @ + 1][d][k] > 0
    BY <2>1, <2>3, TableBump
  <2> QED
    BY <2>2, <2>4
<1>4. ASSUME NEW c \in Cpu, AddSkbLoss(c) \/ InsertSkbLoss(c) PROVE UNCHANGED unfiled
  BY <1>4 DEF AddSkbLoss, InsertSkbLoss
<1>5. ASSUME NEW c \in Cpu, RefindSkbLoss(c) PROVE UNCHANGED skb_loss
  BY <1>5 DEF RefindSkbLoss
<1>6. \/ UNCHANGED <<skb_loss, unfiled>>
      \/ \E c \in Cpu : AddSkbLoss(c) \/ InsertSkbLoss(c) \/ RefindSkbLoss(c)
  BY DEF kernelVars, Next, KernelNext, Consume, HandlerStep, Hit, Miss, Emit, Refuse,
         CountFailure, FindSkbLoss, FindProbeSite, AddProbeSite, InsertProbeSite
<1> QED
  BY <1>1, <1>2, <1>3, <1>4, <1>5, <1>6

\* A handler stops filing k only by filing it or by giving it up.
LEMMA FilingEndsFiled ==
  ASSUME LedgerInv, [Next]_kernelVars, NEW k \in Key, NEW c \in Filing(k)
  PROVE  c \in Filing(k)' \/ k \in Filed' \/ unfiled'[c][k] > 0
<1> USE DEF LedgerInv, TypeOK, At, Goto, Return, telemetry, history, Filed, Filing
<1>1. CASE UNCHANGED kernelVars
  BY <1>1 DEF kernelVars
<1>2. CASE UNCHANGED <<handler, hit>>
  BY <1>2
<1>3. ASSUME NEW d \in Cpu, NEW j \in Key, Hit(d, j) PROVE c \in Filing(k)'
  BY <1>3 DEF Hit
<1>4. ASSUME NEW d \in Cpu, HandlerStep(d), d # c PROVE c \in Filing(k)'
  <2>1. handler'[c] = handler[c] /\ hit'[c] = hit[c]
    BY <1>4 DEF HandlerStep, Emit, Refuse, CountFailure, FindSkbLoss, AddSkbLoss,
                InsertSkbLoss, RefindSkbLoss, FindProbeSite, AddProbeSite, InsertProbeSite
  <2> QED
    BY <2>1
<1>5. ASSUME HandlerStep(c) PROVE c \in Filing(k)' \/ k \in Filed' \/ unfiled'[c][k] > 0
  <2>1. CASE CountFailure(c) \/ FindSkbLoss(c)
    BY <2>1 DEF CountFailure, FindSkbLoss
  <2>2. CASE AddSkbLoss(c)
    BY <2>2 DEF AddSkbLoss
  <2>3. CASE InsertSkbLoss(c)
    BY <2>3 DEF InsertSkbLoss
  <2>4. CASE RefindSkbLoss(c)
    BY <2>4 DEF RefindSkbLoss
  <2>5. ~Emit(c) /\ ~Refuse(c) /\ ~FindProbeSite(c) /\ ~AddProbeSite(c) /\ ~InsertProbeSite(c)
    BY DEF Emit, Refuse, FindProbeSite, AddProbeSite, InsertProbeSite
  <2> QED
    BY <1>5, <2>1, <2>2, <2>3, <2>4, <2>5 DEF HandlerStep
<1>6. ASSUME NEW d \in Cpu, Miss(d) PROVE UNCHANGED <<handler, hit>>
  BY <1>6 DEF Miss
<1>7. Consume => UNCHANGED <<handler, hit>>
  BY DEF Consume
<1> QED
  BY <1>1, <1>2, <1>3, <1>4, <1>5, <1>6, <1>7 DEF Next, KernelNext

\* Every map call of a handler, and every consumed record, maintains it.
LEMMA LedgerInvStep == LedgerInv /\ [Next]_kernelVars => LedgerInv'
<1> SUFFICES ASSUME LedgerInv, [Next]_kernelVars PROVE LedgerInv'
  OBVIOUS
<1>1. TypeOK /\ TypeOK'
  BY TypeOKStep DEF LedgerInv
<1>2. UnfiledIsAdmitted'
  <2>1. CASE UNCHANGED <<unfiled, unattributed_skb_losses>>
    BY <2>1 DEF LedgerInv, UnfiledIsAdmitted
  <2>2. ASSUME NEW c \in Cpu, RefindSkbLoss(c) PROVE UnfiledIsAdmitted'
    <3>1. hit[c] \in Key
      BY <1>1, <2>2, HitIsKey DEF RefindSkbLoss, At
    <3>2. CASE UNCHANGED <<unfiled, unattributed_skb_losses>>
      BY <3>2 DEF LedgerInv, UnfiledIsAdmitted
    <3>3. CASE /\ unattributed_skb_losses' = [unattributed_skb_losses EXCEPT ![c] = @ + 1]
               /\ unfiled' = [unfiled EXCEPT ![c][hit[c]] = @ + 1]
      <4> SUFFICES ASSUME NEW d \in Cpu, NEW k \in Key, unfiled'[d][k] > 0
                   PROVE  unattributed_skb_losses'[d] > 0
        BY DEF UnfiledIsAdmitted
      <4>1. CASE d = c
        BY <1>1, <3>3, <4>1, CounterBump DEF TypeOK
      <4>2. CASE d # c
        BY <1>1, <3>3, <4>2 DEF TypeOK, LedgerInv, UnfiledIsAdmitted
      <4> QED
        BY <4>1, <4>2
    <3> QED
      BY <2>2, <3>2, <3>3 DEF RefindSkbLoss
  <2>3. \/ UNCHANGED <<unfiled, unattributed_skb_losses>>
        \/ \E c \in Cpu : RefindSkbLoss(c)
    BY DEF kernelVars, telemetry, history, Next, KernelNext, Consume, HandlerStep, Hit,
           Miss, Emit, Refuse, CountFailure, FindSkbLoss, AddSkbLoss, InsertSkbLoss,
           FindProbeSite, AddProbeSite, InsertProbeSite
  <2> QED
    BY <2>1, <2>2, <2>3
<1>3. EveryLossIsSomewhere'
  <2> SUFFICES ASSUME NEW k \in Key, lost'[k] > 0
               PROVE  k \in Filed' \/ Filing(k)' # {} \/ \E c \in Cpu : unfiled'[c][k] > 0
    BY DEF EveryLossIsSomewhere
  <2>1. CASE lost[k] > 0
    <3>1. \/ k \in Filed
          \/ \E c \in Cpu : c \in Filing(k)
          \/ \E c \in Cpu : unfiled[c][k] > 0
      BY <2>1 DEF LedgerInv, EveryLossIsSomewhere, Filing
    <3> QED
      BY <1>1, <3>1, LedgerGrows, FilingEndsFiled
  <2>2. CASE ~(lost[k] > 0)
    <3>1. PICK c \in Cpu : Refuse(c)
      BY <2>2 DEF kernelVars, telemetry, history, Next, KernelNext, Consume, HandlerStep,
           Hit, Miss, Emit, CountFailure, FindSkbLoss, AddSkbLoss, InsertSkbLoss,
           RefindSkbLoss, FindProbeSite, AddProbeSite, InsertProbeSite
    <3>2. hit[c] = k
      BY <1>1, <2>2, <3>1 DEF Refuse, TypeOK
    <3>3. c \in Filing(k)'
      BY <1>1, <3>1, <3>2 DEF Refuse, Goto, Filing, TypeOK
    <3> QED
      BY <3>3
  <2> QED
    BY <2>1, <2>2
<1> QED
  BY <1>1, <1>2, <1>3 DEF LedgerInv

\* A loss neither filed nor admitted must still be in a handler's hands.
LEMMA LedgerInvImplies == LedgerInv => ExhaustiveWhileUnattributedIsZero
<1> SUFFICES ASSUME LedgerInv,
                    \A c \in Cpu : unattributed_skb_losses[c] = 0,
                    NEW k \in Key, lost[k] > 0
             PROVE  k \in Filed \/ Filing(k) # {}
  BY DEF ExhaustiveWhileUnattributedIsZero
<1>1. \A c \in Cpu : ~(unfiled[c][k] > 0)
  BY DEF LedgerInv, UnfiledIsAdmitted
<1> QED
  BY <1>1 DEF LedgerInv, EveryLossIsSomewhere

\* record_skb_loss and its table keep the promise of kernel_skb_loss_unattributed:
\* while it is zero, every packet that lost an observation is in skb_loss or a
\* handler is about to put it there, however many CPUs race for its entry.
THEOREM Exhaustive == Spec => []ExhaustiveWhileUnattributedIsZero
<1>1. KernelInit => LedgerInv
  BY LedgerInvInit
<1>2. LedgerInv /\ [Next]_kernelVars => LedgerInv'
  BY LedgerInvStep
<1>3. LedgerInv => ExhaustiveWhileUnattributedIsZero
  BY LedgerInvImplies
<1> QED
  BY <1>1, <1>2, <1>3, PTL DEF Spec

-----------------------------------------------------------------------------
\* Adding an insert that sets a slot to 1 is adding 1 only if the slot was
\* never counted in: the lookup found no entry for the probe, and only this CPU
\* writes its slot.
InsertFindsNoCount ==
  \A c \in Cpu : At(c, "probeInsert") => probe_site_loss[hit[c].site][c] = 0

\* The inductive invariant behind Conserved.
ConservationInv == TypeOK /\ InsertFindsNoCount /\ LossIsConserved

\* Sets of CPUs can be counted, one CPU more or less at a time.
LEMMA CpuSets ==
  ASSUME NEW T \in SUBSET Cpu
  PROVE  /\ Cardinality(T) \in Nat
         /\ \A c \in Cpu \ T : Cardinality(T \cup {c}) = Cardinality(T) + 1
         /\ \A c \in T : Cardinality(T \ {c}) + 1 = Cardinality(T)
<1>1. IsFiniteSet(T)
  BY CpuAssumption, FS_Subset
<1>2. Cardinality(T) \in Nat
  BY <1>1, FS_CardinalityType
<1> QED
  BY <1>1, <1>2, FS_AddElement, FS_RemoveElement

\* What a handler does to the ledger: only its own CPU moves, and only the key it
\* reports is touched.
LEMMA OthersStay ==
  ASSUME TypeOK, NEW c \in Cpu, HandlerStep(c)
  PROVE  \A d \in Cpu \ {c} : handler'[d] = handler[d] /\ hit'[d] = hit[d]
BY DEF TypeOK, Goto, Return, HandlerStep, Emit, Refuse, CountFailure, FindSkbLoss, AddSkbLoss,
       InsertSkbLoss, RefindSkbLoss, FindProbeSite, AddProbeSite, InsertProbeSite

\* A CPU that starts, goes on or stops filing k changes who files k by itself.
LEMMA FilingChange ==
  ASSUME TypeOK, NEW c \in Cpu, NEW k \in Key,
         \A d \in Cpu \ {c} : handler'[d] = handler[d] /\ hit'[d] = hit[d]
  PROVE  /\ Cardinality(Filing(k)) \in Nat
         /\ (c \in Filing(k) <=> c \in Filing(k)') => Filing(k)' = Filing(k)
         /\ c \notin Filing(k) /\ c \in Filing(k)' =>
              Cardinality(Filing(k)') = Cardinality(Filing(k)) + 1
         /\ c \in Filing(k) /\ c \notin Filing(k)' =>
              Cardinality(Filing(k)') + 1 = Cardinality(Filing(k))
<1>1. Filing(k) \in SUBSET Cpu
  BY DEF Filing
<1>2. Filing(k)' \ {c} = Filing(k) \ {c}
  BY DEF Filing
<1>3. c \notin Filing(k) /\ c \in Filing(k)' => Filing(k)' = Filing(k) \cup {c}
  BY <1>2
<1>4. c \in Filing(k) /\ c \notin Filing(k)' => Filing(k)' = Filing(k) \ {c}
  BY <1>2
<1>5. (c \in Filing(k) <=> c \in Filing(k)') => Filing(k)' = Filing(k)
  BY <1>2
<1> QED
  BY <1>1, <1>3, <1>4, <1>5, CpuSets

\* What a CPU gives up is added to what is unfiled of its key, and of no other.
LEMMA UnfiledGrows ==
  ASSUME TypeOK, NEW c \in Cpu, NEW j \in Key, NEW k \in Key,
         unfiled' = [unfiled EXCEPT ![c][j] = @ + 1]
  PROVE  /\ UnfiledBy(k) \in Nat
         /\ UnfiledBy(k)' = UnfiledBy(k) + (IF k = j THEN 1 ELSE 0)
<1> DEFINE f == [d \in Cpu |-> unfiled[d][k]]
           g == [d \in Cpu |-> unfiled'[d][k]]
<1>1. \A d \in Cpu : f[d] \in Nat
  BY DEF TypeOK
<1>2. UnfiledBy(k) = SumOver(f, Cpu) /\ UnfiledBy(k)' = SumOver(g, Cpu)
  BY DEF UnfiledBy
<1>3. CASE k = j
  <2>1. g[c] = f[c] + 1 /\ \A d \in Cpu \ {c} : g[d] = f[d]
    BY <1>3 DEF TypeOK
  <2> HIDE DEF f, g
  <2>2. SumOver(f, Cpu) \in Nat /\ SumOver(g, Cpu) = SumOver(f, Cpu) + 1
    BY <1>1, <2>1, SumBump, CpuAssumption
  <2> QED
    BY <1>2, <1>3, <2>2
<1>4. CASE k # j
  <2>1. \A d \in Cpu : f[d] = g[d]
    BY <1>4 DEF TypeOK
  <2> HIDE DEF f, g
  <2>2. SumOver(f, Cpu) \in Nat /\ SumOver(f, Cpu) = SumOver(g, Cpu)
    BY <1>1, <2>1, SumSame, SumInNat, CpuAssumption
  <2> QED
    BY <1>2, <1>4, <2>2
<1> QED
  BY <1>3, <1>4

\* An empty ledger is balanced.
LEMMA ConservationInvInit == KernelInit => ConservationInv
<1> SUFFICES ASSUME KernelInit PROVE ConservationInv
  OBVIOUS
<1>1. InsertFindsNoCount
  BY DEF KernelInit, InsertFindsNoCount, At
<1>2. ASSUME NEW k \in Key
      PROVE  lost[k] = skb_loss[k] + UnfiledBy(k) + Cardinality(Filing(k))
  <2>1. Filing(k) = {}
    BY DEF KernelInit, Filing
  <2>2. \A c \in Cpu : [d \in Cpu |-> unfiled[d][k]][c] = 0
    BY <1>2 DEF KernelInit
  <2>3. UnfiledBy(k) = 0
    BY <2>2, SumZero, CpuAssumption DEF UnfiledBy
  <2> QED
    BY <1>2, <2>1, <2>3, FS_EmptySet DEF KernelInit
<1>3. ASSUME NEW c \in Cpu
      PROVE  reserve_failures[c]
               = AttributedOn(c) + unattributed_reserve_failures[c] + Attributing(c)
  <2>1. \A s \in Site : [t \in Site |-> probe_site_loss[t][c]][s] = 0
    BY <1>3 DEF KernelInit
  <2>2. AttributedOn(c) = 0
    BY <2>1, SumZero, SiteAssumption DEF AttributedOn
  <2> QED
    BY <2>2, <1>3 DEF KernelInit, Attributing
<1> QED
  BY <1>1, <1>2, <1>3, TypeOKInit
     DEF ConservationInv, LossIsConserved, LedgerConservation, ProbeConservation

\* Whatever a step does to the packet table, it does to the losses it explains.
LEMMA LedgerConservationStep ==
  ASSUME ConservationInv, [Next]_kernelVars
  PROVE  LedgerConservation'
<1>1. TypeOK /\ LedgerConservation
  BY DEF ConservationInv, LossIsConserved
<1> SUFFICES ASSUME NEW k \in Key
             PROVE  lost'[k] = skb_loss'[k] + UnfiledBy(k)' + Cardinality(Filing(k)')
  BY DEF LedgerConservation
<1>2. lost[k] = skb_loss[k] + UnfiledBy(k) + Cardinality(Filing(k))
  BY <1>1 DEF LedgerConservation
<1>3. /\ lost[k] \in Nat /\ skb_loss[k] \in Nat /\ UnfiledBy(k) \in Nat
      /\ UNCHANGED unfiled => UnfiledBy(k)' = UnfiledBy(k)
  <2>1. \A d \in Cpu : [c \in Cpu |-> unfiled[c][k]][d] \in Nat
    BY <1>1 DEF TypeOK
  <2> QED
    BY <1>1, <2>1, SumInNat, CpuAssumption DEF TypeOK, UnfiledBy
<1>4. CASE UNCHANGED <<lost, skb_loss, unfiled>> /\ Filing(k)' = Filing(k)
  BY <1>2, <1>3, <1>4
<1>5. CASE UNCHANGED kernelVars \/ Consume \/ \E c \in Cpu : Miss(c)
  <2>1. UNCHANGED <<handler, hit, lost, skb_loss, unfiled>>
    <3>1. UNCHANGED kernelVars => UNCHANGED <<handler, hit, lost, skb_loss, unfiled>>
      BY DEF kernelVars, history
    <3>2. Consume => UNCHANGED <<handler, hit, lost, skb_loss, unfiled>>
      BY DEF history, Consume
    <3>3. \A c \in Cpu : Miss(c) => UNCHANGED <<handler, hit, lost, skb_loss, unfiled>>
      BY DEF history, Miss
    <3> QED
      BY <1>5, <3>1, <3>2, <3>3
  <2> QED
    BY <1>4, <2>1 DEF Filing
<1>6. ASSUME NEW c \in Cpu, NEW j \in Key, Hit(c, j)
      PROVE  UNCHANGED <<lost, skb_loss, unfiled>> /\ Filing(k)' = Filing(k)
  <2>1. \A d \in Cpu \ {c} : handler'[d] = handler[d] /\ hit'[d] = hit[d]
    BY <1>1, <1>6 DEF Hit, Goto, TypeOK
  <2>2. c \notin Filing(k) /\ c \notin Filing(k)'
    BY <1>1, <1>6 DEF Hit, At, Goto, TypeOK, Filing
  <2> QED
    BY <1>1, <1>6, <2>1, <2>2, FilingChange DEF Hit, history
<1>7. ASSUME NEW c \in Cpu, HandlerStep(c)
      PROVE  lost'[k] = skb_loss'[k] + UnfiledBy(k)' + Cardinality(Filing(k)')
  <2>1. \A d \in Cpu \ {c} : handler'[d] = handler[d] /\ hit'[d] = hit[d]
    BY <1>1, <1>7, OthersStay
  <2>2. hit[c] \in Key
    <3>1. handler[c] # "idle"
      BY <1>7 DEF At, HandlerStep, Emit, Refuse, CountFailure, FindSkbLoss, AddSkbLoss,
           InsertSkbLoss, RefindSkbLoss, FindProbeSite, AddProbeSite, InsertProbeSite
    <3> QED
      BY <1>1, <3>1, HitIsKey
  <2>3. /\ Cardinality(Filing(k)) \in Nat /\ Cardinality(Filing(k)') \in Nat
        /\ (c \in Filing(k) <=> c \in Filing(k)') => Filing(k)' = Filing(k)
        /\ c \notin Filing(k) /\ c \in Filing(k)' =>
             Cardinality(Filing(k)') = Cardinality(Filing(k)) + 1
        /\ c \in Filing(k) /\ c \notin Filing(k)' =>
             Cardinality(Filing(k)') + 1 = Cardinality(Filing(k))
    <3>1. Filing(k)' \in SUBSET Cpu
      BY DEF Filing
    <3> QED
      BY <1>1, <2>1, <3>1, FilingChange, CpuSets
  <2>4. CASE \/ Emit(c) \/ CountFailure(c) \/ FindSkbLoss(c)
             \/ FindProbeSite(c) \/ AddProbeSite(c) \/ InsertProbeSite(c)
    <3>1. UNCHANGED <<lost, skb_loss, unfiled>>
      BY <2>4 DEF history, Emit, CountFailure, FindSkbLoss, FindProbeSite, AddProbeSite,
                  InsertProbeSite
    <3>2. c \in Filing(k) <=> c \in Filing(k)'
      BY <1>1, <2>4 DEF TypeOK, At, Goto, Return, Filing, Emit, CountFailure, FindSkbLoss,
                        FindProbeSite, AddProbeSite, InsertProbeSite
    <3> QED
      BY <1>4, <2>3, <3>1, <3>2
  <2>5. CASE Refuse(c)
    <3>1. UNCHANGED <<skb_loss, unfiled>> /\ lost' = [lost EXCEPT ![hit[c]] = @ + 1]
      BY <2>5 DEF Refuse
    <3>2. c \notin Filing(k) /\ (c \in Filing(k)' <=> k = hit[c])
      BY <1>1, <2>5 DEF Refuse, TypeOK, At, Goto, Filing
    <3>3. lost'[k] = lost[k] + (IF k = hit[c] THEN 1 ELSE 0)
      BY <1>1, <2>2, <3>1 DEF TypeOK
    <3> QED
      BY <1>2, <1>3, <2>3, <3>1, <3>2, <3>3
  <2>6. ASSUME UNCHANGED <<lost, unfiled>>,
               skb_loss'[k] = skb_loss[k] + (IF k = hit[c] THEN 1 ELSE 0),
               c \in Filing(k) <=> k = hit[c],
               c \notin Filing(k)'
        PROVE  lost'[k] = skb_loss'[k] + UnfiledBy(k)' + Cardinality(Filing(k)')
    <3>1. UnfiledBy(k)' = UnfiledBy(k) /\ lost'[k] = lost[k]
      BY <1>3, <2>6
    <3>2. Cardinality(Filing(k)') + (IF k = hit[c] THEN 1 ELSE 0) = Cardinality(Filing(k))
          /\ Cardinality(Filing(k)') \in Nat
      BY <2>6, <2>3
    <3> QED
      BY <1>2, <1>3, <2>6, <3>1, <3>2
  <2>7. CASE AddSkbLoss(c)
    <3>1. skb_loss'[k] = skb_loss[k] + (IF k = hit[c] THEN 1 ELSE 0)
      BY <1>1, <2>2, <2>7 DEF AddSkbLoss, TypeOK
    <3>2. (c \in Filing(k) <=> k = hit[c]) /\ c \notin Filing(k)'
      BY <1>1, <2>7 DEF AddSkbLoss, TypeOK, At, Goto, Filing
    <3> QED
      BY <2>6, <2>7, <3>1, <3>2 DEF AddSkbLoss, history
  <2>8. CASE InsertSkbLoss(c)
    <3>1. CASE hit[c] \notin Filed /\ Cardinality(Filed) < SkbLossEntries
      <4>1. skb_loss' = [skb_loss EXCEPT ![hit[c]] = 1] /\ skb_loss[hit[c]] = 0
        <5>1. skb_loss' = [skb_loss EXCEPT ![hit[c]] = 1]
          BY <2>8, <3>1 DEF InsertSkbLoss
        <5>2. skb_loss[hit[c]] = 0
          BY <2>2, <3>1 DEF Filed
        <5> QED
          BY <5>1, <5>2
      <4>2. skb_loss'[k] = skb_loss[k] + (IF k = hit[c] THEN 1 ELSE 0)
        BY <1>1, <2>2, <4>1 DEF TypeOK
      <4>3. (c \in Filing(k) <=> k = hit[c]) /\ c \notin Filing(k)'
        BY <1>1, <2>8, <3>1 DEF InsertSkbLoss, TypeOK, At, Goto, Filing
      <4> QED
        BY <2>6, <2>8, <4>2, <4>3 DEF InsertSkbLoss, history
    <3>2. CASE ~(hit[c] \notin Filed /\ Cardinality(Filed) < SkbLossEntries)
      <4>1. UNCHANGED <<lost, skb_loss, unfiled>>
        BY <2>8, <3>2 DEF InsertSkbLoss, history
      <4>2. c \in Filing(k) <=> c \in Filing(k)'
        BY <1>1, <2>8, <3>2 DEF InsertSkbLoss, TypeOK, At, Goto, Filing
      <4> QED
        BY <1>4, <2>3, <4>1, <4>2
    <3> QED
      BY <3>1, <3>2
  <2>9. CASE RefindSkbLoss(c)
    <3>1. CASE hit[c] \in Filed
      <4>1. UNCHANGED <<lost, skb_loss, unfiled>>
        BY <2>9, <3>1 DEF RefindSkbLoss
      <4>2. c \in Filing(k) <=> c \in Filing(k)'
        BY <1>1, <2>9, <3>1 DEF RefindSkbLoss, TypeOK, At, Goto, Filing
      <4> QED
        BY <1>4, <2>3, <4>1, <4>2
    <3>2. CASE hit[c] \notin Filed
      <4>1. /\ UNCHANGED <<lost, skb_loss>>
            /\ unfiled' = [unfiled EXCEPT ![c][hit[c]] = @ + 1]
        BY <2>9, <3>2 DEF RefindSkbLoss
      <4>2. (c \in Filing(k) <=> k = hit[c]) /\ c \notin Filing(k)'
        BY <1>1, <2>9, <3>2 DEF RefindSkbLoss, TypeOK, At, Goto, Filing
      <4>3. UnfiledBy(k)' = UnfiledBy(k) + (IF k = hit[c] THEN 1 ELSE 0)
        BY <1>1, <2>2, <4>1, UnfiledGrows
      <4> QED
        <5>1. Cardinality(Filing(k)') + (IF k = hit[c] THEN 1 ELSE 0) = Cardinality(Filing(k))
          BY <2>3, <4>2
        <5> QED
          BY <1>2, <1>3, <2>3, <4>1, <4>3, <5>1
    <3> QED
      BY <3>1, <3>2
  <2> QED
    BY <1>7, <2>4, <2>5, <2>7, <2>8, <2>9 DEF HandlerStep
<1> QED
  BY <1>4, <1>5, <1>6, <1>7 DEF Next, KernelNext

\* A CPU's slot of a probe is set or bumped by that CPU's handler alone, which
\* returns in the same step: a handler still about to set a slot finds it empty.
LEMMA InsertFindsNoCountStep ==
  ASSUME ConservationInv, [Next]_kernelVars
  PROVE  InsertFindsNoCount'
<1>1. TypeOK /\ InsertFindsNoCount
  BY DEF ConservationInv
<1> SUFFICES ASSUME NEW c \in Cpu, At(c, "probeInsert")'
             PROVE  probe_site_loss'[hit'[c].site][c] = 0
  BY DEF InsertFindsNoCount
<1>2. CASE UNCHANGED <<handler, hit, probe_site_loss>>
  BY <1>1, <1>2 DEF At, InsertFindsNoCount
<1>3. CASE UNCHANGED kernelVars \/ Consume \/ \E d \in Cpu : Miss(d)
  <2>1. UNCHANGED kernelVars => UNCHANGED <<handler, hit, probe_site_loss>>
    BY DEF kernelVars
  <2>2. Consume => UNCHANGED <<handler, hit, probe_site_loss>>
    BY DEF Consume
  <2>3. \A d \in Cpu : Miss(d) => UNCHANGED <<handler, hit, probe_site_loss>>
    BY DEF Miss
  <2> QED
    BY <1>2, <1>3, <2>1, <2>2, <2>3
<1>4. ASSUME NEW d \in Cpu, NEW k \in Key, Hit(d, k)
      PROVE  probe_site_loss'[hit'[c].site][c] = 0
  <2>1. d # c
    BY <1>1, <1>4 DEF Hit, At, Goto, TypeOK
  <2>2. At(c, "probeInsert") /\ hit'[c] = hit[c] /\ UNCHANGED probe_site_loss
    BY <1>1, <1>4, <2>1 DEF Hit, At, Goto, TypeOK
  <2> QED
    BY <1>1, <2>2 DEF InsertFindsNoCount
<1>5. ASSUME NEW d \in Cpu, HandlerStep(d), d # c
      PROVE  probe_site_loss'[hit'[c].site][c] = 0
  <2>1. At(c, "probeInsert") /\ hit'[c] = hit[c]
    BY <1>1, <1>5, OthersStay DEF At
  <2>2. hit[c] \in Key /\ hit[c].site \in Site
    BY <1>1, <2>1, HitIsKey DEF At, Key
  <2>3. \A s \in Site : probe_site_loss'[s][c] = probe_site_loss[s][c]
    <3>1. CASE AddProbeSite(d)
      BY <1>1, <1>5, <3>1 DEF AddProbeSite, TypeOK
    <3>2. CASE InsertProbeSite(d)
      <4>1. \/ UNCHANGED probe_site_loss
            \/ probe_site_loss' = [probe_site_loss EXCEPT ![hit[d].site][d] = 1]
        BY <3>2 DEF InsertProbeSite
      <4>2. probe_site_loss \in [Site -> [Cpu -> Nat]]
        BY <1>1 DEF TypeOK
      <4>3. \A s \in Site :
              [probe_site_loss EXCEPT ![hit[d].site][d] = 1][s][c] = probe_site_loss[s][c]
        BY <1>5, <4>2, TableOther
      <4> QED
        BY <4>1, <4>3
    <3>3. CASE UNCHANGED probe_site_loss
      BY <3>3
    <3> QED
      BY <1>5, <3>1, <3>2, <3>3 DEF HandlerStep, Emit, Refuse, CountFailure, FindSkbLoss,
                AddSkbLoss, InsertSkbLoss, RefindSkbLoss, FindProbeSite
  <2> QED
    BY <1>1, <2>1, <2>2, <2>3 DEF InsertFindsNoCount
<1>6. ASSUME HandlerStep(c) PROVE probe_site_loss'[hit'[c].site][c] = 0
  <2>1. FindProbeSite(c)
    BY <1>1, <1>6 DEF TypeOK, At, Goto, Return, HandlerStep, Emit, Refuse, CountFailure,
         FindSkbLoss, AddSkbLoss, InsertSkbLoss, RefindSkbLoss, AddProbeSite, InsertProbeSite
  <2>2. hit[c] \in Key /\ hit[c].site \in Site
    BY <1>1, <2>1, HitIsKey DEF FindProbeSite, At, Key
  <2>3. hit[c].site \notin KnownSites
    BY <1>1, <2>1 DEF FindProbeSite, At, Goto, TypeOK
  <2>4. probe_site_loss[hit[c].site][c] = 0
    BY <2>2, <2>3 DEF KnownSites
  <2> QED
    BY <2>1, <2>4 DEF FindProbeSite
<1> QED
  BY <1>3, <1>4, <1>5, <1>6 DEF Next, KernelNext

\* A handler's turn at a probe's slot adds one, and only to its own CPU's share.
LEMMA AttributedGrows ==
  ASSUME TypeOK, NEW c \in Cpu, NEW d \in Cpu, NEW s \in Site,
         probe_site_loss' = [probe_site_loss EXCEPT ![s][c] = probe_site_loss[s][c] + 1]
  PROVE  /\ AttributedOn(d) \in Nat
         /\ AttributedOn(d)' = AttributedOn(d) + (IF d = c THEN 1 ELSE 0)
<1> DEFINE f == [t \in Site |-> probe_site_loss[t][d]]
           g == [t \in Site |-> probe_site_loss'[t][d]]
<1>1. \A t \in Site : f[t] \in Nat
  BY DEF TypeOK
<1>2. AttributedOn(d) = SumOver(f, Site) /\ AttributedOn(d)' = SumOver(g, Site)
  BY DEF AttributedOn
<1>3. CASE d = c
  <2>1. g[s] = f[s] + 1 /\ \A t \in Site \ {s} : g[t] = f[t]
    BY <1>3 DEF TypeOK
  <2> HIDE DEF f, g
  <2>2. SumOver(f, Site) \in Nat /\ SumOver(g, Site) = SumOver(f, Site) + 1
    BY <1>1, <2>1, SumBump, SiteAssumption
  <2> QED
    BY <1>2, <1>3, <2>2
<1>4. CASE d # c
  <2>1. \A t \in Site : f[t] = g[t]
    BY <1>4 DEF TypeOK
  <2> HIDE DEF f, g
  <2>2. SumOver(f, Site) \in Nat /\ SumOver(f, Site) = SumOver(g, Site)
    BY <1>1, <2>1, SumSame, SumInNat, SiteAssumption
  <2> QED
    BY <1>2, <1>4, <2>2
<1> QED
  BY <1>3, <1>4

\* Whatever a step adds to a CPU's total, it adds to what explains it.
LEMMA ProbeConservationStep ==
  ASSUME ConservationInv, [Next]_kernelVars
  PROVE  ProbeConservation'
<1>1. TypeOK /\ InsertFindsNoCount /\ ProbeConservation
  BY DEF ConservationInv, LossIsConserved
<1> SUFFICES ASSUME NEW d \in Cpu
             PROVE  reserve_failures'[d]
                      = AttributedOn(d)' + unattributed_reserve_failures'[d] + Attributing(d)'
  BY DEF ProbeConservation
<1>2. reserve_failures[d] = AttributedOn(d) + unattributed_reserve_failures[d] + Attributing(d)
  BY <1>1 DEF ProbeConservation
<1>3. /\ reserve_failures[d] \in Nat /\ unattributed_reserve_failures[d] \in Nat
      /\ AttributedOn(d) \in Nat /\ Attributing(d) \in Nat
  <2>1. \A t \in Site : [s \in Site |-> probe_site_loss[s][d]][t] \in Nat
    BY <1>1 DEF TypeOK
  <2> QED
    BY <1>1, <2>1, SumInNat, SiteAssumption DEF TypeOK, AttributedOn, Attributing
<1>4. ASSUME UNCHANGED <<reserve_failures, unattributed_reserve_failures, probe_site_loss>>,
             Attributing(d)' = Attributing(d)
      PROVE  reserve_failures'[d]
               = AttributedOn(d)' + unattributed_reserve_failures'[d] + Attributing(d)'
  BY <1>2, <1>4 DEF AttributedOn
<1>5. CASE UNCHANGED kernelVars \/ Consume \/ \E c \in Cpu : Miss(c)
  <2> DEFINE Same == UNCHANGED <<handler, reserve_failures, unattributed_reserve_failures,
                                 probe_site_loss>>
  <2>1. UNCHANGED kernelVars => Same
    BY DEF kernelVars, telemetry
  <2>2. Consume => Same
    BY DEF Consume, telemetry
  <2>3. \A c \in Cpu : Miss(c) => Same
    BY DEF Miss, telemetry
  <2> QED
    BY <1>4, <1>5, <2>1, <2>2, <2>3 DEF Attributing
<1>6. ASSUME NEW c \in Cpu, NEW k \in Key, Hit(c, k)
      PROVE  reserve_failures'[d]
               = AttributedOn(d)' + unattributed_reserve_failures'[d] + Attributing(d)'
  <2>1. UNCHANGED <<reserve_failures, unattributed_reserve_failures, probe_site_loss>>
    BY <1>6 DEF Hit, telemetry
  <2>2. Attributing(d)' = Attributing(d)
    BY <1>1, <1>6 DEF Hit, At, Goto, TypeOK, Attributing
  <2> QED
    BY <1>4, <2>1, <2>2
<1>7. ASSUME NEW c \in Cpu, HandlerStep(c)
      PROVE  reserve_failures'[d]
               = AttributedOn(d)' + unattributed_reserve_failures'[d] + Attributing(d)'
  <2>1. d # c => Attributing(d)' = Attributing(d)
    BY <1>1, <1>7, OthersStay DEF Attributing
  <2>2. hit[c] \in Key /\ hit[c].site \in Site
    <3>1. handler[c] # "idle"
      BY <1>7 DEF At, HandlerStep, Emit, Refuse, CountFailure, FindSkbLoss, AddSkbLoss,
           InsertSkbLoss, RefindSkbLoss, FindProbeSite, AddProbeSite, InsertProbeSite
    <3> QED
      BY <1>1, <3>1, HitIsKey DEF Key
  <2>3. CASE \/ Emit(c) \/ Refuse(c) \/ FindSkbLoss(c) \/ AddSkbLoss(c)
             \/ InsertSkbLoss(c) \/ RefindSkbLoss(c) \/ FindProbeSite(c)
    <3>1. UNCHANGED <<reserve_failures, unattributed_reserve_failures, probe_site_loss>>
      BY <2>3 DEF telemetry, Emit, Refuse, FindSkbLoss, AddSkbLoss, InsertSkbLoss,
                  RefindSkbLoss, FindProbeSite
    <3>2. Attributing(c)' = Attributing(c)
      BY <1>1, <2>3 DEF TypeOK, At, Goto, Return, Attributing, Emit, Refuse, FindSkbLoss,
                  AddSkbLoss, InsertSkbLoss, RefindSkbLoss, FindProbeSite
    <3> QED
      BY <1>4, <2>1, <3>1, <3>2
  <2>4. CASE CountFailure(c)
    <3>1. /\ UNCHANGED <<unattributed_reserve_failures, probe_site_loss>>
          /\ reserve_failures' = [reserve_failures EXCEPT ![c] = @ + 1]
      BY <2>4 DEF CountFailure
    <3>2. Attributing(c) = 0 /\ Attributing(c)' = 1
      BY <1>1, <2>4 DEF CountFailure, TypeOK, At, Goto, Attributing
    <3>3. reserve_failures'[d] = reserve_failures[d] + (IF d = c THEN 1 ELSE 0)
      BY <1>1, <3>1 DEF TypeOK
    <3>4. AttributedOn(d)' = AttributedOn(d)
      BY <3>1 DEF AttributedOn
    <3>5. Attributing(d)' = Attributing(d) + (IF d = c THEN 1 ELSE 0)
      BY <1>3, <2>1, <3>2
    <3> QED
      BY <1>2, <1>3, <3>1, <3>3, <3>4, <3>5
  <2>5. ASSUME UNCHANGED reserve_failures,
               AttributedOn(d)' + unattributed_reserve_failures'[d]
                 = AttributedOn(d) + unattributed_reserve_failures[d]
                   + (IF d = c THEN 1 ELSE 0),
               Attributing(c) = 1,
               Attributing(c)' = 0
        PROVE  reserve_failures'[d]
                 = AttributedOn(d)' + unattributed_reserve_failures'[d] + Attributing(d)'
    <3>1. Attributing(d)' + (IF d = c THEN 1 ELSE 0) = Attributing(d) /\ Attributing(d)' \in Nat
      BY <1>3, <2>1, <2>5
    <3>2. CASE d = c
      BY <1>2, <1>3, <2>5, <3>1, <3>2
    <3>3. CASE d # c
      BY <1>2, <1>3, <2>5, <3>1, <3>3
    <3> QED
      BY <3>2, <3>3
  <2>6. CASE AddProbeSite(c)
    <3>1. /\ UNCHANGED <<reserve_failures, unattributed_reserve_failures>>
          /\ probe_site_loss' = [probe_site_loss EXCEPT ![hit[c].site][c]
                                   = probe_site_loss[hit[c].site][c] + 1]
      BY <1>1, <2>2, <2>6 DEF AddProbeSite, telemetry, TypeOK
    <3>2. Attributing(c) = 1 /\ Attributing(c)' = 0
      BY <1>1, <2>6 DEF AddProbeSite, TypeOK, At, Return, Goto, Attributing
    <3>3. AttributedOn(d)' = AttributedOn(d) + (IF d = c THEN 1 ELSE 0)
      BY <1>1, <2>2, <3>1, AttributedGrows
    <3> QED
      BY <1>3, <2>5, <3>1, <3>2, <3>3
  <2>7. CASE InsertProbeSite(c)
    <3>1. Attributing(c) = 1 /\ Attributing(c)' = 0 /\ UNCHANGED reserve_failures
      BY <1>1, <2>7 DEF InsertProbeSite, TypeOK, At, Return, Goto, Attributing
    <3>2. CASE hit[c].site \in KnownSites \/ Cardinality(KnownSites) < MaxProbeSites
      <4>1. /\ probe_site_loss' = [probe_site_loss EXCEPT ![hit[c].site][c] = 1]
            /\ UNCHANGED unattributed_reserve_failures
        BY <2>7, <3>2 DEF InsertProbeSite
      <4>2. probe_site_loss[hit[c].site][c] + 1 = 1
        BY <1>1, <2>7 DEF InsertProbeSite, InsertFindsNoCount
      <4>3. probe_site_loss' = [probe_site_loss EXCEPT ![hit[c].site][c]
                                  = probe_site_loss[hit[c].site][c] + 1]
        BY <4>1, <4>2
      <4>4. AttributedOn(d)' = AttributedOn(d) + (IF d = c THEN 1 ELSE 0)
        BY <1>1, <2>2, <4>3, AttributedGrows
      <4> QED
        BY <1>3, <2>5, <3>1, <4>1, <4>4
    <3>3. CASE ~(hit[c].site \in KnownSites \/ Cardinality(KnownSites) < MaxProbeSites)
      <4>1. /\ unattributed_reserve_failures' = [unattributed_reserve_failures EXCEPT ![c] = @ + 1]
            /\ UNCHANGED probe_site_loss
        BY <2>7, <3>3 DEF InsertProbeSite
      <4>2. unattributed_reserve_failures'[d]
              = unattributed_reserve_failures[d] + (IF d = c THEN 1 ELSE 0)
        BY <1>1, <4>1 DEF TypeOK
      <4>3. AttributedOn(d)' = AttributedOn(d)
        BY <4>1 DEF AttributedOn
      <4> QED
        BY <1>3, <2>5, <3>1, <4>2, <4>3
    <3> QED
      BY <3>2, <3>3
  <2> QED
    BY <1>7, <2>3, <2>4, <2>6, <2>7 DEF HandlerStep
<1> QED
  BY <1>5, <1>6, <1>7 DEF Next, KernelNext

\* Every step of a handler, and every consumed record, keeps both ledgers
\* balanced.
LEMMA ConservationInvStep == ConservationInv /\ [Next]_kernelVars => ConservationInv'
BY TypeOKStep, InsertFindsNoCountStep, LedgerConservationStep, ProbeConservationStep
   DEF ConservationInv, LossIsConserved

\* No observation the ring refused is lost, counted twice or misfiled: in the
\* packet table, in the probe table and in the telemetry of the CPUs, whatever
\* lookups and inserts of other CPUs come between two calls of
\* record_reserve_failure, for any number of CPUs and any table sizes.
THEOREM Conserved == Spec => []LossIsConserved
<1>1. KernelInit => ConservationInv
  BY ConservationInvInit
<1>2. ConservationInv /\ [Next]_kernelVars => ConservationInv'
  BY ConservationInvStep
<1>3. ConservationInv => LossIsConserved
  BY DEF ConservationInv
<1> QED
  BY <1>1, <1>2, <1>3, PTL DEF Spec

-----------------------------------------------------------------------------
\* More on sums over finite sets.

\* Keys are finitely many.
LEMMA KeysFinite == IsFiniteSet(Key)
<1> DEFINE f == [p \in Skb \X Site |-> [skb |-> p[1], site |-> p[2]]]
<1>1. IsFiniteSet(Skb \X Site)
  BY FS_Product, SkbAssumption, SiteAssumption
<1>2. Key = {f[p] : p \in Skb \X Site}
  <2>1. \A k \in Key : <<k.skb, k.site>> \in Skb \X Site /\ k = f[<<k.skb, k.site>>]
    BY DEF Key
  <2>2. \A p \in Skb \X Site : f[p] \in Key
    BY DEF Key
  <2>3. \A k \in Key : \E p \in Skb \X Site : k = f[p]
    BY <2>1
  <2> HIDE DEF f
  <2> QED
    BY <2>2, <2>3
<1>3. f \in [Skb \X Site -> {f[p] : p \in Skb \X Site}]
  OBVIOUS
<1>4. f \in Surjection(Skb \X Site, Key)
  BY <1>2, <1>3 DEF Surjection
<1> QED
  BY <1>1, <1>4, FS_Surjection

\* The sum of two functions is the sum of their sums.
LEMMA SumAdd ==
  ASSUME NEW S, IsFiniteSet(S), NEW f, NEW g, NEW h,
         \A x \in S : f[x] \in Nat /\ g[x] \in Nat /\ h[x] = f[x] + g[x]
  PROVE  SumOver(h, S) = SumOver(f, S) + SumOver(g, S)
<1> DEFINE F == {U \in SUBSET S : SumOver(h, U) # SumOver(f, U) + SumOver(g, U)}
<1> SUFFICES ASSUME F # {} PROVE FALSE
  OBVIOUS
<1>1. \A U \in F : IsFiniteSet(U)
  BY FS_Subset
<1> HIDE DEF F
<1>2. PICK U \in F : \A V \in F : V \subseteq U => V = U
  BY <1>1, LeastSet
<1> USE DEF F
<1>3. U # {}
  BY SumEmpty
<1> DEFINE x == Pick(U)
           V == U \ {x}
<1>4. x \in U
  BY <1>3 DEF Pick
<1>5. SumOver(h, V) = SumOver(f, V) + SumOver(g, V)
  BY <1>2, <1>4
<1>6. /\ SumOver(f, U) = f[x] + SumOver(f, V)
      /\ SumOver(g, U) = g[x] + SumOver(g, V)
      /\ SumOver(h, U) = h[x] + SumOver(h, V)
  BY <1>1, <1>3, SumPick
<1>7. IsFiniteSet(V)
  BY <1>1, FS_RemoveElement
<1>8. SumOver(f, V) \in Nat /\ SumOver(g, V) \in Nat
  BY <1>7, SumInNat
<1> HIDE DEF x, V
<1> QED
  BY <1>4, <1>5, <1>6, <1>8

\* A table adds up to the same by rows and by columns.
LEMMA SumSwap ==
  ASSUME NEW S, NEW T, IsFiniteSet(S), IsFiniteSet(T), NEW m \in [S -> [T -> Nat]]
  PROVE  SumOver([s \in S |-> SumOver(m[s], T)], S)
           = SumOver([t \in T |-> SumOver([s \in S |-> m[s][t]], S)], T)
<1> DEFINE rows == [s \in S |-> SumOver(m[s], T)]
           col(t) == [s \in S |-> m[s][t]]
           cols(U) == [t \in T |-> SumOver(col(t), U)]
           F == {U \in SUBSET S : SumOver(rows, U) # SumOver(cols(U), T)}
<1> SUFFICES ASSUME F # {} PROVE FALSE
  OBVIOUS
<1>1. \A U \in F : IsFiniteSet(U)
  BY FS_Subset
<1> HIDE DEF F
<1>2. PICK U \in F : \A V \in F : V \subseteq U => V = U
  BY <1>1, LeastSet
<1>3. U # {}
  <2>1. SumOver(rows, {}) = 0
    BY SumEmpty
  <2>2. \A t \in T : cols({})[t] = 0
    BY SumEmpty
  <2>3. SumOver(cols({}), T) = 0
    <3> HIDE DEF cols
    <3> QED
      BY <2>2, SumZero
  <2> QED
    BY <2>1, <2>3 DEF F
<1> DEFINE x == Pick(U)
           V == U \ {x}
<1>4. x \in U
  BY <1>3 DEF Pick
<1>5. U \in SUBSET S /\ SumOver(rows, U) # SumOver(cols(U), T)
  BY DEF F
<1>6. SumOver(rows, V) = SumOver(cols(V), T)
  <2>1. V \in SUBSET S /\ V \subseteq U /\ V # U
    BY <1>4, <1>5
  <2>2. V \notin F
    BY <1>2, <2>1
  <2> HIDE DEF rows, cols, V
  <2> QED
    BY <2>1, <2>2 DEF F
<1>7. SumOver(rows, U) = rows[x] + SumOver(rows, V)
  <2>1. IsFiniteSet(U)
    BY <1>1
  <2> HIDE DEF rows
  <2> QED
    BY <1>3, <2>1, SumPick DEF x, V
<1>8. IsFiniteSet(V)
  BY <1>1, FS_RemoveElement
<1>9. \A t \in T : /\ cols(U)[t] = m[x][t] + cols(V)[t]
                   /\ m[x][t] \in Nat
                   /\ cols(V)[t] \in Nat
  <2> SUFFICES ASSUME NEW t \in T
               PROVE  /\ cols(U)[t] = m[x][t] + cols(V)[t]
                      /\ m[x][t] \in Nat
                      /\ cols(V)[t] \in Nat
    OBVIOUS
  <2>1. x \in S /\ col(t)[x] = m[x][t] /\ \A s \in S : col(t)[s] \in Nat
    BY <1>4, <1>5
  <2> HIDE DEF col
  <2>2. SumOver(col(t), U) = col(t)[x] + SumOver(col(t), V)
    BY <1>1, <1>3, SumPick
  <2>3. SumOver(col(t), V) \in Nat
    BY <1>5, <1>8, <2>1, SumInNat
  <2> QED
    BY <2>1, <2>2, <2>3
<1>10. rows[x] = SumOver(m[x], T)
  BY <1>4, <1>5
<1> HIDE DEF cols, rows, V, x
<1>11. SumOver(cols(U), T) = SumOver(m[x], T) + SumOver(cols(V), T)
  BY <1>9, SumAdd
<1> QED
  BY <1>5, <1>6, <1>7, <1>10, <1>11

-----------------------------------------------------------------------------
\* The ledger while it is being read.

\* What a CPU has filed with the packet table: its failures less those it found
\* the table full for, and less the one it may be filing now.
FilingOn(c) == IF handler[c] \in {"find", "add", "insert", "refind"} THEN 1 ELSE 0
FiledOn ==
  [c \in Cpu |-> reserve_failures[c] - (unattributed_skb_losses[c] + FilingOn(c))]

\* The packet table holds what the CPUs have filed.
FiledIsCounted ==
  /\ \A c \in Cpu : unattributed_skb_losses[c] + FilingOn(c) <= reserve_failures[c]
  /\ SumOver(skb_loss, Key) = SumOver(FiledOn, Cpu)

\* All that a reader relies on of the ledger.
KernelInv == ConservationInv /\ LedgerInv /\ FiledIsCounted

\* An empty ledger satisfies it.
LEMMA KernelInvInit == KernelInit => KernelInv
<1> SUFFICES ASSUME KernelInit PROVE KernelInv
  OBVIOUS
<1>1. \A c \in Cpu : FiledOn[c] = 0 /\ unattributed_skb_losses[c] + FilingOn(c) <= reserve_failures[c]
  BY DEF KernelInit, FiledOn, FilingOn
<1>2. SumOver(FiledOn, Cpu) = 0
  BY <1>1, SumZero, CpuAssumption
<1>3. SumOver(skb_loss, Key) = 0
  BY SumZero, KeysFinite DEF KernelInit
<1> QED
  BY <1>1, <1>2, <1>3, ConservationInvInit, LedgerInvInit DEF KernelInv, FiledIsCounted

\* g is nowhere below f.
Grows(f, g, S) == \A x \in S : f[x] <= g[x]

\* A table of counts that stays, is bumped at x, or gets a 1 where it held
\* nothing, grows.
LEMMA CountsGrow ==
  ASSUME NEW S, NEW f \in [S -> Nat], NEW x, NEW g,
         \/ g = f
         \/ g = [f EXCEPT ![x] = @ + 1]
         \/ g = [f EXCEPT ![x] = 1] /\ (x \in S => f[x] = 0)
  PROVE  Grows(f, g, S)
<1>1. CASE g = f
  BY <1>1 DEF Grows
<1>2. CASE g = [f EXCEPT ![x] = @ + 1]
  BY <1>2 DEF Grows
<1>3. CASE g = [f EXCEPT ![x] = 1] /\ (x \in S => f[x] = 0)
  <2>1. \A y \in S : f[y] <= g[y]
    <3> SUFFICES ASSUME NEW y \in S PROVE f[y] <= g[y]
      OBVIOUS
    <3>1. CASE y = x
      BY <1>3, <3>1
    <3>2. CASE y # x
      BY <1>3, <3>2
    <3> QED
      BY <3>1, <3>2
  <2> QED
    BY <2>1 DEF Grows
<1> QED
  BY <1>1, <1>2, <1>3

\* No counter, no entry and no slot ever falls.
NothingFalls ==
  /\ Grows(reserve_failures, reserve_failures', Cpu)
  /\ Grows(unattributed_reserve_failures, unattributed_reserve_failures', Cpu)
  /\ Grows(unattributed_skb_losses, unattributed_skb_losses', Cpu)
  /\ Grows(skb_loss, skb_loss', Key)
  /\ \A s \in Site : Grows(probe_site_loss[s], probe_site_loss'[s], Cpu)
  /\ recursion_misses <= recursion_misses'

\* The maps the kernel program writes are append-only: an insert that sets a
\* count to 1 only ever meets a zero.
LEMMA TablesGrow == ConservationInv /\ [Next]_kernelVars => NothingFalls
<1> SUFFICES ASSUME ConservationInv, [Next]_kernelVars PROVE NothingFalls
  OBVIOUS
<1>1. /\ reserve_failures \in [Cpu -> Nat]
      /\ unattributed_reserve_failures \in [Cpu -> Nat]
      /\ unattributed_skb_losses \in [Cpu -> Nat]
      /\ skb_loss \in [Key -> Nat]
      /\ probe_site_loss \in [Site -> [Cpu -> Nat]]
      /\ recursion_misses \in Nat
  BY DEF ConservationInv, TypeOK
<1> DEFINE FailuresStep(c) ==
             UNCHANGED reserve_failures
             \/ reserve_failures' = [reserve_failures EXCEPT ![c] = @ + 1]
           UnattributedStep(c) ==
             UNCHANGED unattributed_reserve_failures
             \/ unattributed_reserve_failures' = [unattributed_reserve_failures EXCEPT ![c] = @ + 1]
           UnfiledStep(c) ==
             UNCHANGED unattributed_skb_losses
             \/ unattributed_skb_losses' = [unattributed_skb_losses EXCEPT ![c] = @ + 1]
           SkbStep(c) ==
             \/ UNCHANGED skb_loss
             \/ skb_loss' = [skb_loss EXCEPT ![hit[c]] = @ + 1]
             \/ hit[c] \notin Filed /\ skb_loss' = [skb_loss EXCEPT ![hit[c]] = 1]
           SlotStep(c) ==
             \/ UNCHANGED probe_site_loss
             \/ probe_site_loss' = [probe_site_loss EXCEPT ![hit[c].site][c] = @ + 1]
             \/ /\ At(c, "probeInsert")
                /\ probe_site_loss' = [probe_site_loss EXCEPT ![hit[c].site][c] = 1]
           MissStep ==
             recursion_misses' = recursion_misses \/ recursion_misses' = recursion_misses + 1
           Shape(c) ==
             FailuresStep(c) /\ UnattributedStep(c) /\ UnfiledStep(c) /\ SkbStep(c) /\ SlotStep(c) /\ MissStep
<1>2. ASSUME NEW c \in Cpu, Shape(c) PROVE NothingFalls
  <2>1. Grows(reserve_failures, reserve_failures', Cpu)
    BY <1>1, <1>2, CountsGrow
  <2>2. Grows(unattributed_reserve_failures, unattributed_reserve_failures', Cpu)
    BY <1>1, <1>2, CountsGrow
  <2>3. Grows(unattributed_skb_losses, unattributed_skb_losses', Cpu)
    BY <1>1, <1>2, CountsGrow
  <2>4. Grows(skb_loss, skb_loss', Key)
    <3>1. hit[c] \notin Filed => (hit[c] \in Key => skb_loss[hit[c]] = 0)
      BY DEF Filed
    <3> QED
      BY <1>1, <1>2, <3>1, CountsGrow
  <2>5. ASSUME NEW s \in Site PROVE Grows(probe_site_loss[s], probe_site_loss'[s], Cpu)
    <3> DEFINE f == probe_site_loss[s]
               g == probe_site_loss'[s]
    <3>1. f \in [Cpu -> Nat]
      BY <1>1, <2>5
    <3>2. CASE UNCHANGED probe_site_loss
      BY <3>1, <3>2, CountsGrow
    <3>3. CASE probe_site_loss' = [probe_site_loss EXCEPT ![hit[c].site][c] = @ + 1]
      <4>1. g = f \/ g = [f EXCEPT ![c] = @ + 1]
        BY <1>1, <2>5, <3>3
      <4> QED
        BY <3>1, <4>1, CountsGrow
    <3>4. CASE /\ At(c, "probeInsert")
               /\ probe_site_loss' = [probe_site_loss EXCEPT ![hit[c].site][c] = 1]
      <4>1. probe_site_loss[hit[c].site][c] = 0
        BY <3>4 DEF ConservationInv, InsertFindsNoCount
      <4>2. CASE s = hit[c].site
        <5>1. g = [f EXCEPT ![c] = 1] /\ f[c] = 0
          BY <1>1, <2>5, <3>4, <4>1, <4>2
        <5> QED
          BY <3>1, <5>1, CountsGrow
      <4>3. CASE s # hit[c].site
        <5>1. g = f
          BY <1>1, <2>5, <3>4, <4>3
        <5> QED
          BY <3>1, <5>1, CountsGrow
      <4> QED
        BY <4>2, <4>3
    <3> QED
      BY <1>2, <3>2, <3>3, <3>4
  <2>6. recursion_misses <= recursion_misses'
    BY <1>1, <1>2
  <2> QED
    BY <2>1, <2>2, <2>3, <2>4, <2>5, <2>6 DEF NothingFalls
<1>3. ASSUME UNCHANGED kernelVars \/ Consume, NEW c \in Cpu PROVE Shape(c)
  BY <1>3 DEF kernelVars, telemetry, Consume
<1>4. ASSUME NEW c \in Cpu, Miss(c) \/ \E k \in Key : Hit(c, k) PROVE Shape(c)
  BY <1>4 DEF Miss, Hit, telemetry
<1>5. ASSUME NEW c \in Cpu, HandlerStep(c) PROVE Shape(c)
  <2>1. CASE Emit(c) \/ Refuse(c) \/ FindSkbLoss(c) \/ FindProbeSite(c) \/ CountFailure(c)
    BY <2>1 DEF Emit, Refuse, FindSkbLoss, FindProbeSite, CountFailure, telemetry
  <2>2. CASE AddSkbLoss(c) \/ InsertSkbLoss(c)
    BY <2>2 DEF AddSkbLoss, InsertSkbLoss, telemetry
  <2>3. CASE RefindSkbLoss(c)
    BY <2>3 DEF RefindSkbLoss
  <2>4. CASE AddProbeSite(c)
    BY <2>4 DEF AddProbeSite, telemetry
  <2>5. CASE InsertProbeSite(c)
    BY <2>5 DEF InsertProbeSite
  <2> QED
    BY <1>5, <2>1, <2>2, <2>3, <2>4, <2>5 DEF HandlerStep
<1>6. \E c \in Cpu : TRUE
  BY CpuAssumption
<1> HIDE DEF Shape
<1> QED
  BY <1>2, <1>3, <1>4, <1>5, <1>6 DEF Next, KernelNext

\* A handler files for its own CPU only.
LEMMA OthersFile ==
  ASSUME TypeOK, NEW c \in Cpu, HandlerStep(c)
  PROVE  \A d \in Cpu \ {c} : FilingOn(d)' = FilingOn(d)
BY OthersStay DEF FilingOn

\* Filing a loss adds one to the table and one to what its CPU has filed, and
\* nothing else changes either.
LEMMA FiledIsCountedStep ==
  ASSUME ConservationInv, FiledIsCounted, [Next]_kernelVars
  PROVE  FiledIsCounted' /\ Grows(FiledOn, FiledOn', Cpu)
<1>1. /\ reserve_failures \in [Cpu -> Nat] /\ unattributed_skb_losses \in [Cpu -> Nat]
      /\ skb_loss \in [Key -> Nat] /\ TypeOK
  BY DEF ConservationInv, TypeOK
<1>2. \A d \in Cpu : /\ FilingOn(d) \in Nat
                     /\ unattributed_skb_losses[d] + FilingOn(d) <= reserve_failures[d]
                     /\ FiledOn[d] = reserve_failures[d] - (unattributed_skb_losses[d] + FilingOn(d))
                     /\ FiledOn[d] \in Nat
                     /\ FiledOn'[d] = reserve_failures'[d]
                                        - (unattributed_skb_losses'[d] + FilingOn(d)')
  BY <1>1 DEF FiledIsCounted, FiledOn, FilingOn
<1> DEFINE Fits(d) == unattributed_skb_losses'[d] + FilingOn(d)' <= reserve_failures'[d]
           Stays(d) == Fits(d) /\ FiledOn'[d] = FiledOn[d]
<1>3. ASSUME \A d \in Cpu : Stays(d), UNCHANGED skb_loss
      PROVE  FiledIsCounted' /\ Grows(FiledOn, FiledOn', Cpu)
  <2>1. SumOver(FiledOn, Cpu) = SumOver(FiledOn', Cpu)
    BY <1>3, SumSame, CpuAssumption
  <2> QED
    BY <1>2, <1>3, <2>1 DEF FiledIsCounted, Grows
<1>4. ASSUME UNCHANGED <<reserve_failures, unattributed_skb_losses, skb_loss>>,
             \A d \in Cpu : FilingOn(d)' = FilingOn(d)
      PROVE  FiledIsCounted' /\ Grows(FiledOn, FiledOn', Cpu)
  BY <1>2, <1>3, <1>4
<1>5. CASE UNCHANGED kernelVars \/ Consume \/ \E c \in Cpu : Miss(c)
  <2> DEFINE Same == UNCHANGED <<handler, reserve_failures, unattributed_skb_losses, skb_loss>>
  <2>1. UNCHANGED kernelVars => Same
    BY DEF kernelVars, telemetry
  <2>2. Consume => Same
    BY DEF Consume, telemetry
  <2>3. \A c \in Cpu : Miss(c) => Same
    BY DEF Miss, telemetry
  <2> QED
    BY <1>4, <1>5, <2>1, <2>2, <2>3 DEF FilingOn
<1>6. ASSUME NEW c \in Cpu, NEW k \in Key, Hit(c, k)
      PROVE  FiledIsCounted' /\ Grows(FiledOn, FiledOn', Cpu)
  <2>1. \A d \in Cpu : FilingOn(d)' = FilingOn(d)
    BY <1>1, <1>6 DEF Hit, At, Goto, TypeOK, FilingOn
  <2> QED
    BY <1>4, <1>6, <2>1 DEF Hit, telemetry
<1>7. ASSUME NEW c \in Cpu, HandlerStep(c)
      PROVE  FiledIsCounted' /\ Grows(FiledOn, FiledOn', Cpu)
  <2>1. \A d \in Cpu \ {c} : FilingOn(d)' = FilingOn(d)
    BY <1>1, <1>7, OthersFile
  <2>2. hit[c] \in Key
    <3>1. handler[c] # "idle"
      BY <1>7 DEF At, HandlerStep, Emit, Refuse, CountFailure, FindSkbLoss, AddSkbLoss,
           InsertSkbLoss, RefindSkbLoss, FindProbeSite, AddProbeSite, InsertProbeSite
    <3> QED
      BY <1>1, <3>1, HitIsKey
  <2>3. ASSUME UNCHANGED <<reserve_failures, unattributed_skb_losses, skb_loss>>,
               FilingOn(c)' = FilingOn(c)
        PROVE  FiledIsCounted' /\ Grows(FiledOn, FiledOn', Cpu)
    BY <1>4, <2>1, <2>3
  <2>4. CASE \/ Emit(c) \/ Refuse(c) \/ FindSkbLoss(c)
             \/ FindProbeSite(c) \/ AddProbeSite(c) \/ InsertProbeSite(c)
    <3>1. UNCHANGED <<reserve_failures, unattributed_skb_losses, skb_loss>>
      BY <2>4 DEF telemetry, Emit, Refuse, FindSkbLoss, FindProbeSite, AddProbeSite,
                  InsertProbeSite
    <3>2. FilingOn(c)' = FilingOn(c)
      BY <1>1, <2>4 DEF TypeOK, At, Goto, Return, FilingOn, Emit, Refuse, FindSkbLoss,
                  FindProbeSite, AddProbeSite, InsertProbeSite
    <3> QED
      BY <2>3, <3>1, <3>2
  <2>5. CASE CountFailure(c)
    <3>1. /\ reserve_failures' = [reserve_failures EXCEPT ![c] = @ + 1]
          /\ UNCHANGED <<unattributed_skb_losses, skb_loss>>
      BY <2>5 DEF CountFailure
    <3>2. FilingOn(c) = 0 /\ FilingOn(c)' = 1
      BY <1>1, <2>5 DEF CountFailure, TypeOK, At, Goto, FilingOn
    <3>3. Stays(c)
      BY <1>1, <1>2, <3>1, <3>2
    <3>4. \A d \in Cpu \ {c} : Stays(d)
      BY <1>1, <1>2, <2>1, <3>1
    <3>5. \A d \in Cpu : Stays(d)
      BY <3>3, <3>4
    <3> QED
      BY <1>3, <3>1, <3>5
  <2>6. ASSUME UNCHANGED <<reserve_failures, unattributed_skb_losses>>,
               skb_loss' = [skb_loss EXCEPT ![hit[c]] = skb_loss[hit[c]] + 1],
               FilingOn(c) = 1, FilingOn(c)' = 0
        PROVE  FiledIsCounted' /\ Grows(FiledOn, FiledOn', Cpu)
    <3>1. Fits(c) /\ FiledOn'[c] = FiledOn[c] + 1
      <4>1. reserve_failures[c] \in Nat /\ unattributed_skb_losses[c] \in Nat
        BY <1>1
      <4>2. /\ unattributed_skb_losses[c] + 1 <= reserve_failures[c]
            /\ FiledOn[c] = reserve_failures[c] - (unattributed_skb_losses[c] + 1)
            /\ FiledOn'[c] = reserve_failures[c] - (unattributed_skb_losses[c] + 0)
        BY <1>2, <2>6
      <4> HIDE DEF FiledOn
      <4> QED
        BY <2>6, <4>1, <4>2
    <3>2. \A d \in Cpu \ {c} : Stays(d)
      BY <1>2, <2>1, <2>6
    <3>3. SumOver(FiledOn', Cpu) = SumOver(FiledOn, Cpu) + 1
      BY <1>2, <3>1, <3>2, SumBump, CpuAssumption
    <3>4. \A k \in Key : skb_loss[k] \in Nat
      BY <1>1
    <3>5. skb_loss'[hit[c]] = skb_loss[hit[c]] + 1 /\ \A k \in Key \ {hit[c]} : skb_loss'[k] = skb_loss[k]
      BY <1>1, <2>2, <2>6
    <3>6. SumOver(skb_loss', Key) = SumOver(skb_loss, Key) + 1
      BY <2>2, <3>4, <3>5, SumBump, KeysFinite
    <3>7. \A d \in Cpu : Fits(d) /\ FiledOn[d] <= FiledOn'[d]
      BY <1>2, <3>1, <3>2
    <3> QED
      BY <3>3, <3>6, <3>7 DEF FiledIsCounted, Grows
  <2>7. CASE AddSkbLoss(c)
    <3>1. /\ UNCHANGED <<reserve_failures, unattributed_skb_losses>>
          /\ skb_loss' = [skb_loss EXCEPT ![hit[c]] = skb_loss[hit[c]] + 1]
      BY <1>1, <2>2, <2>7 DEF AddSkbLoss, telemetry
    <3>2. FilingOn(c) = 1 /\ FilingOn(c)' = 0
      BY <1>1, <2>7 DEF AddSkbLoss, TypeOK, At, Goto, FilingOn
    <3> QED
      BY <2>6, <3>1, <3>2
  <2>8. CASE InsertSkbLoss(c)
    <3>1. UNCHANGED <<reserve_failures, unattributed_skb_losses>>
      BY <2>8 DEF InsertSkbLoss, telemetry
    <3>2. CASE hit[c] \notin Filed /\ Cardinality(Filed) < SkbLossEntries
      <4>1. skb_loss' = [skb_loss EXCEPT ![hit[c]] = 1]
        BY <2>8, <3>2 DEF InsertSkbLoss
      <4>2. skb_loss[hit[c]] = 0
        BY <2>2, <3>2 DEF Filed
      <4>3. skb_loss' = [skb_loss EXCEPT ![hit[c]] = skb_loss[hit[c]] + 1]
        BY <4>1, <4>2
      <4>4. FilingOn(c) = 1 /\ FilingOn(c)' = 0
        BY <1>1, <2>8, <3>2 DEF InsertSkbLoss, TypeOK, At, Goto, FilingOn
      <4> QED
        BY <2>6, <3>1, <4>3, <4>4
    <3>3. CASE ~(hit[c] \notin Filed /\ Cardinality(Filed) < SkbLossEntries)
      <4>1. UNCHANGED skb_loss
        BY <2>8, <3>3 DEF InsertSkbLoss
      <4>2. FilingOn(c)' = FilingOn(c)
        BY <1>1, <2>8, <3>3 DEF InsertSkbLoss, TypeOK, At, Goto, FilingOn
      <4> QED
        BY <2>3, <3>1, <4>1, <4>2
    <3> QED
      BY <3>2, <3>3
  <2>9. CASE RefindSkbLoss(c)
    <3>1. UNCHANGED <<reserve_failures, skb_loss>>
      BY <2>9 DEF RefindSkbLoss
    <3>2. CASE hit[c] \in Filed
      <4>1. UNCHANGED unattributed_skb_losses
        BY <2>9, <3>2 DEF RefindSkbLoss
      <4>2. FilingOn(c)' = FilingOn(c)
        BY <1>1, <2>9, <3>2 DEF RefindSkbLoss, TypeOK, At, Goto, FilingOn
      <4> QED
        BY <2>3, <3>1, <4>1, <4>2
    <3>3. CASE hit[c] \notin Filed
      <4>1. unattributed_skb_losses' = [unattributed_skb_losses EXCEPT ![c] = @ + 1]
        BY <2>9, <3>3 DEF RefindSkbLoss
      <4>2. FilingOn(c) = 1 /\ FilingOn(c)' = 0
        BY <1>1, <2>9, <3>3 DEF RefindSkbLoss, TypeOK, At, Goto, FilingOn
      <4>3. Stays(c)
        BY <1>1, <1>2, <3>1, <4>1, <4>2
      <4>4. \A d \in Cpu \ {c} : Stays(d)
        BY <1>1, <1>2, <2>1, <3>1, <4>1
      <4>5. \A d \in Cpu : Stays(d)
        BY <4>3, <4>4
      <4> QED
        BY <1>3, <3>1, <4>5
    <3> QED
      BY <3>2, <3>3
  <2> QED
    BY <1>7, <2>4, <2>5, <2>7, <2>8, <2>9 DEF HandlerStep
<1> QED
  BY <1>5, <1>6, <1>7 DEF Next, KernelNext

\* Every step of the kernel keeps the ledger readable.
LEMMA KernelInvStep == KernelInv /\ [Next]_kernelVars => KernelInv'
BY ConservationInvStep, LedgerInvStep, FiledIsCountedStep DEF KernelInv

\* What the CPUs have attributed to the probes.
AttributedOnAll == [c \in Cpu |-> AttributedOn(c)]

\* Sums of tables that grow.
LEMMA SumGrows ==
  ASSUME NEW S, IsFiniteSet(S), NEW f, NEW g,
         \A x \in S : f[x] \in Nat /\ g[x] \in Nat,
         Grows(f, g, S)
  PROVE  SumOver(f, S) <= SumOver(g, S)
BY SumMonotone DEF Grows

-----------------------------------------------------------------------------
\* The main loop.

\* Whatever the main loop does, the kernel side takes a step of its own or none.
LEMMA SessionStepsKernel == [SessionNext]_vars => [Next]_kernelVars
<1> SUFFICES ASSUME [SessionNext]_vars PROVE [Next]_kernelVars
  OBVIOUS
<1>1. CASE UNCHANGED vars
  BY <1>1 DEF vars
<1>2. CASE ProbesFire
  BY <1>2 DEF ProbesFire, Next
<1>3. CASE LoopStep
  BY <1>3 DEF LoopStep, Stop, StartPoll, PollRecord, PollReturn, Interrupted, DrainDone,
              DrainLimit, WriteEvent, StartRotation, Next
<1>4. CASE SampleStep
  BY <1>4 DEF SampleStep, SampleProbe, ProbesRead, SampleSkb, SkbsRead, SampleCpu,
              SampleRecursion
<1>5. CASE FinishRotation \/ Finish
  BY <1>5 DEF FinishRotation, Finish
<1> QED
  BY <1>1, <1>2, <1>3, <1>4, <1>5 DEF SessionNext

\* A capture runs the kernel side as LossLedger specifies it: sampling, rotation
\* and the end of the capture neither stop nor disturb the probe handlers.  What
\* is proved of the ledger holds in every capture.
THEOREM SessionRunsLedger == SessionSpec => Spec
<1>1. SessionInit => KernelInit
  BY DEF SessionInit
<1>2. [SessionNext]_vars => [Next]_kernelVars
  BY SessionStepsKernel
<1> QED
  BY <1>1, <1>2, PTL DEF SessionSpec, Spec

\* The phases of a sampling.
Sampling == {"probes", "skbs", "stats", "recursion", "footer"}

\* The event that made a segment full is still to be written.
RotationHasEvent == phase \in Sampling /\ boundary = "rotation" => batch # <<>>

\* Records are dropped at the event limit, after which nothing is polled.
DiscardIsLast ==
  discarded # <<>> =>
    batch = <<>> /\ Len(written) >= MaxEvents /\ phase \notin {"poll", "drain"}

\* A walk visits entries of its table, or CPUs.
TodoFits ==
  /\ phase = "probes" => todo \subseteq Site
  /\ phase = "skbs" => todo \subseteq Key
  /\ phase = "stats" => todo \subseteq Cpu

\* The control state of the main loop.
LoopInv == SessionTypeOK /\ RotationHasEvent /\ DiscardIsLast /\ TodoFits

\* The main loop starts with nothing polled, written or sampled.
LEMMA LoopInvInit == SessionInit => LoopInv
<1> SUFFICES ASSUME SessionInit PROVE LoopInv
  OBVIOUS
<1>1. DefaultReliability \in Reliability
  BY DEF DefaultReliability, Reliability
<1>2. TypeOK
  BY TypeOKInit DEF SessionInit
<1> QED
  BY <1>1, <1>2 DEF SessionInit, LoopInv, SessionTypeOK, RotationHasEvent, DiscardIsLast,
                    TodoFits, Phases, Sampling

\* The difference of two samples is one.
LEMMA DeltaIsReliability ==
  ASSUME NEW r \in Reliability, NEW q \in Reliability
  PROVE  reliability_delta(r, q) \in Reliability
<1>1. \A a, b \in Nat : Minus(a, b) \in Nat
  BY DEF Minus
<1> QED
  BY <1>1 DEF reliability_delta, Reliability

\* What a CPU's slots of a probe add up to.
LEMMA SlotsInNat ==
  ASSUME TypeOK
  PROVE  \A s \in Site : SumOver(probe_site_loss[s], Cpu) \in Nat
BY SumInNat, CpuAssumption DEF TypeOK

\* Reading an entry, a CPU or the recursion misses into a sample leaves a sample.
LEMMA ReadIsReliability ==
  ASSUME NEW r \in Reliability, NEW n \in Nat, NEW m \in Nat, NEW l \in Nat
  PROVE  /\ \A s \in Site : [r EXCEPT !.kernel_loss_by_probe[s] = n] \in Reliability
         /\ \A k \in Key : [r EXCEPT !.kernel_loss_by_skb[k] = n] \in Reliability
         /\ [r EXCEPT !.kernel_reserve_failures = @ + n,
                      !.kernel_unattributed_reserve_failures = @ + m,
                      !.kernel_skb_loss_unattributed = @ + l] \in Reliability
         /\ [r EXCEPT !.kernel_recursion_misses = n] \in Reliability
<1>1. \A s \in Site : [r EXCEPT !.kernel_loss_by_probe[s] = n] \in Reliability
  <2> SUFFICES ASSUME NEW s \in Site
               PROVE  [r EXCEPT !.kernel_loss_by_probe[s] = n] \in Reliability
    OBVIOUS
  <2>1. [r.kernel_loss_by_probe EXCEPT ![s] = n] \in [Site -> Nat]
    BY DEF Reliability
  <2> QED
    BY <2>1 DEF Reliability
<1>2. \A k \in Key : [r EXCEPT !.kernel_loss_by_skb[k] = n] \in Reliability
  <2> SUFFICES ASSUME NEW k \in Key
               PROVE  [r EXCEPT !.kernel_loss_by_skb[k] = n] \in Reliability
    OBVIOUS
  <2>1. [r.kernel_loss_by_skb EXCEPT ![k] = n] \in [Key -> Nat]
    BY DEF Reliability
  <2> QED
    BY <2>1 DEF Reliability
<1>3. [r EXCEPT !.kernel_reserve_failures = @ + n,
                !.kernel_unattributed_reserve_failures = @ + m,
                !.kernel_skb_loss_unattributed = @ + l] \in Reliability
  <2>1. /\ r.kernel_reserve_failures + n \in Nat
        /\ r.kernel_unattributed_reserve_failures + m \in Nat
        /\ r.kernel_skb_loss_unattributed + l \in Nat
    BY DEF Reliability
  <2> QED
    BY <2>1 DEF Reliability
<1>4. [r EXCEPT !.kernel_recursion_misses = n] \in Reliability
  BY DEF Reliability
<1> QED
  BY <1>1, <1>2, <1>3, <1>4

\* Every action of the main loop, and whatever the kernel does meanwhile,
\* maintains it.
LEMMA LoopInvStep == LoopInv /\ [SessionNext]_vars => LoopInv'
<1> SUFFICES ASSUME LoopInv, [SessionNext]_vars PROVE LoopInv'
  OBVIOUS
<1> USE DEF LoopInv, Phases, Sampling
<1>1. TypeOK'
  BY SessionStepsKernel, TypeOKStep DEF SessionTypeOK
<1>2. DefaultReliability \in Reliability
  BY DEF DefaultReliability, Reliability
<1>3. Cpu \in SUBSET Cpu /\ KnownSites \in SUBSET Site /\ Filed \in SUBSET Key
      /\ \A k \in Key : k.skb \in Skb
  BY DEF KnownSites, Filed, Key
<1>4. CASE UNCHANGED sessionVars
  BY <1>1, <1>4 DEF sessionVars, SessionTypeOK, RotationHasEvent, DiscardIsLast, TodoFits
<1>5. ASSUME NEW for \in {"rotation", "end"}, StartSampling(for),
             for = "rotation" => batch # <<>>,
             batch' = batch, written' = written, discarded' = discarded,
             stop_reason' \in {"duration", "event_limit", "signal"},
             UNCHANGED <<reliability_checkpoint, segments>>
      PROVE  LoopInv'
  BY <1>1, <1>2, <1>3, <1>5
     DEF StartSampling, SessionTypeOK, RotationHasEvent, DiscardIsLast, TodoFits
<1>6. CASE Stop
  BY <1>5, <1>6 DEF Stop, SessionTypeOK
<1>7. CASE StartPoll
  <2>1. discarded = <<>>
    BY <1>7, SessionAssumption DEF StartPoll, DiscardIsLast, SessionTypeOK
  <2> QED
    BY <1>1, <1>7, <2>1
       DEF StartPoll, SessionTypeOK, RotationHasEvent, DiscardIsLast, TodoFits
<1>8. CASE PollRecord
  <2>1. Head(ring) \in Key
    BY <1>8 DEF PollRecord, Consume, SessionTypeOK, TypeOK
  <2> QED
    BY <1>1, <1>8, <2>1
       DEF PollRecord, SessionTypeOK, RotationHasEvent, DiscardIsLast, TodoFits
<1>9. CASE PollReturn
  BY <1>1, <1>9 DEF PollReturn, SessionTypeOK, RotationHasEvent, DiscardIsLast, TodoFits
<1>10. CASE Interrupted
  BY <1>1, <1>10 DEF Interrupted, SessionTypeOK, RotationHasEvent, DiscardIsLast, TodoFits
<1>11. CASE DrainDone
  BY <1>1, <1>11 DEF DrainDone, SessionTypeOK, RotationHasEvent, DiscardIsLast, TodoFits
<1>12. CASE DrainLimit
  BY <1>1, <1>12 DEF DrainLimit, SessionTypeOK, RotationHasEvent, DiscardIsLast, TodoFits
<1>13. CASE WriteEvent
  <2>1. Head(batch) \in Key /\ Tail(batch) \in Seq(Key)
    BY <1>13 DEF WriteEvent, CanWrite, SessionTypeOK
  <2> QED
    BY <1>1, <1>13, <2>1
       DEF WriteEvent, CanWrite, SessionTypeOK, RotationHasEvent, DiscardIsLast, TodoFits
<1>14. CASE StartRotation
  BY <1>5, <1>14 DEF StartRotation, CanWrite, SessionTypeOK
<1>15. ASSUME NEW s \in Site, SampleProbe(s) PROVE LoopInv'
  <2>1. sample' \in Reliability
    BY <1>15, SlotsInNat, ReadIsReliability DEF SampleProbe, SessionTypeOK
  <2> QED
    BY <1>1, <1>15, <2>1
       DEF SampleProbe, SessionTypeOK, RotationHasEvent, DiscardIsLast, TodoFits
<1>16. CASE ProbesRead
  BY <1>1, <1>3, <1>16
     DEF ProbesRead, SessionTypeOK, RotationHasEvent, DiscardIsLast, TodoFits
<1>17. ASSUME NEW k \in Key, SampleSkb(k) PROVE LoopInv'
  <2>1. sample' \in Reliability
    BY <1>17, ReadIsReliability DEF SampleSkb, SessionTypeOK, TypeOK
  <2> QED
    BY <1>1, <1>17, <2>1
       DEF SampleSkb, SessionTypeOK, RotationHasEvent, DiscardIsLast, TodoFits
<1>18. CASE SkbsRead
  BY <1>1, <1>3, <1>18
     DEF SkbsRead, SessionTypeOK, RotationHasEvent, DiscardIsLast, TodoFits
<1>19. ASSUME NEW c \in Cpu, SampleCpu(c) PROVE LoopInv'
  <2>1. sample' \in Reliability
    BY <1>19, ReadIsReliability DEF SampleCpu, SessionTypeOK, TypeOK
  <2>2. phase' = "stats" \/ phase' = "recursion"
    BY <1>19 DEF SampleCpu
  <2> QED
    BY <1>1, <1>19, <2>1, <2>2
       DEF SampleCpu, SessionTypeOK, RotationHasEvent, DiscardIsLast, TodoFits
<1>20. CASE SampleRecursion
  <2>1. sample' \in Reliability
    BY <1>20, ReadIsReliability DEF SampleRecursion, SessionTypeOK, TypeOK
  <2> QED
    BY <1>1, <1>20, <2>1
       DEF SampleRecursion, SessionTypeOK, RotationHasEvent, DiscardIsLast, TodoFits
<1>21. CASE FinishRotation
  <2>1. batch # <<>>
    BY <1>21 DEF FinishRotation, RotationHasEvent
  <2>2. Head(batch) \in Key /\ Tail(batch) \in Seq(Key)
    BY <2>1 DEF SessionTypeOK
  <2>3. reliability_delta(sample, reliability_checkpoint) \in Reliability
    BY DeltaIsReliability DEF SessionTypeOK
  <2>4. discarded = <<>>
    BY <2>1 DEF DiscardIsLast
  <2> QED
    BY <1>1, <1>2, <1>21, <2>2, <2>3, <2>4
       DEF FinishRotation, SessionTypeOK, RotationHasEvent, DiscardIsLast, TodoFits
<1>22. CASE Finish
  <2>1. reliability_delta(sample, reliability_checkpoint) \in Reliability
    BY DeltaIsReliability DEF SessionTypeOK
  <2> QED
    BY <1>1, <1>22, <2>1
       DEF Finish, SessionTypeOK, RotationHasEvent, DiscardIsLast, TodoFits
<1>23. CASE UNCHANGED vars \/ ProbesFire
  BY <1>4, <1>23 DEF vars, ProbesFire
<1> QED
  BY <1>6, <1>7, <1>8, <1>9, <1>10, <1>11, <1>12, <1>13, <1>14, <1>15, <1>16, <1>17, <1>18,
     <1>19, <1>20, <1>21, <1>22, <1>23 DEF SessionNext, LoopStep, SampleStep

\* The main loop and its samples keep their types; in particular a rotation never
\* takes the head of an empty batch, and no footer holds an undefined count.
THEOREM SessionTypeCorrect == SessionSpec => []SessionTypeOK
<1>1. LoopInv => SessionTypeOK
  BY DEF LoopInv
<1> QED
  BY <1>1, LoopInvInit, LoopInvStep, PTL DEF SessionSpec

-----------------------------------------------------------------------------
\* Hits.

\* CPUs with an observation to emit.
Emitting == {c \in Cpu : handler[c] = "reserve"}

\* The inductive invariant behind HitsAccounted.
HitsInv == LoopInv /\ EveryHitIsAccountedFor

\* No hit, nothing to account for.
LEMMA HitsInvInit == SessionInit => HitsInv
<1> SUFFICES ASSUME SessionInit PROVE HitsInv
  OBVIOUS
<1>1. SumOver(lost, Key) = 0
  BY SumZero, KeysFinite DEF SessionInit, KernelInit
<1>2. Emitting = {}
  BY DEF SessionInit, KernelInit, Emitting
<1>3. Cardinality(Emitting) = 0
  BY <1>2, FS_EmptySet
<1>4. /\ hits = 0 /\ recursion_misses = 0
      /\ Len(written) = 0 /\ Len(batch) = 0 /\ Len(ring) = 0 /\ Len(discarded) = 0
  BY DEF SessionInit, KernelInit
<1>5. EveryHitIsAccountedFor
  BY <1>1, <1>3, <1>4 DEF EveryHitIsAccountedFor, Emitting
<1> QED
  BY <1>5, LoopInvInit DEF HitsInv

\* One more or one less CPU emitting.
LEMMA EmittingChange ==
  ASSUME NEW c \in Cpu, \A d \in Cpu \ {c} : handler'[d] = handler[d]
  PROVE  /\ Cardinality(Emitting) \in Nat
         /\ (c \in Emitting <=> c \in Emitting') => Emitting' = Emitting
         /\ c \notin Emitting /\ c \in Emitting' =>
              Cardinality(Emitting') = Cardinality(Emitting) + 1
         /\ c \in Emitting /\ c \notin Emitting' =>
              Cardinality(Emitting') + 1 = Cardinality(Emitting)
         /\ Cardinality(Emitting') \in Nat
<1>1. Emitting \in SUBSET Cpu /\ Emitting' \in SUBSET Cpu
  BY DEF Emitting
<1>2. c \notin Emitting /\ c \in Emitting' => Emitting' = Emitting \cup {c}
  BY DEF Emitting
<1>3. c \in Emitting /\ c \notin Emitting' => Emitting' = Emitting \ {c}
  BY DEF Emitting
<1>4. (c \in Emitting <=> c \in Emitting') => Emitting' = Emitting
  BY DEF Emitting
<1> QED
  BY <1>1, <1>2, <1>3, <1>4, CpuSets

\* The kernel adds to the hits what it adds to the ring, to the losses, to the
\* misses and to the CPUs about to emit.
LEMMA KernelHits ==
  ASSUME TypeOK, KernelNext
  PROVE  hits' + Len(ring) + SumOver(lost, Key) + recursion_misses + Cardinality(Emitting)
           = hits + Len(ring') + SumOver(lost', Key) + recursion_misses' + Cardinality(Emitting')
<1>1. /\ hits \in Nat /\ Len(ring) \in Nat /\ recursion_misses \in Nat
      /\ Cardinality(Emitting) \in Nat
      /\ SumOver(lost, Key) \in Nat
  <2>1. Emitting \in SUBSET Cpu
    BY DEF Emitting
  <2> QED
    BY <2>1, CpuSets, SumInNat, KeysFinite DEF TypeOK
<1>2. ASSUME NEW c \in Cpu, NEW k \in Key, Hit(c, k)
      PROVE  hits' + Len(ring) + SumOver(lost, Key) + recursion_misses + Cardinality(Emitting)
               = hits + Len(ring') + SumOver(lost', Key) + recursion_misses' + Cardinality(Emitting')
  <2>1. \A d \in Cpu \ {c} : handler'[d] = handler[d]
    BY <1>2 DEF Hit, Goto, TypeOK
  <2>2. c \notin Emitting /\ c \in Emitting'
    BY <1>2 DEF Hit, At, Goto, TypeOK, Emitting
  <2>3. Cardinality(Emitting') = Cardinality(Emitting) + 1
    BY <2>1, <2>2, EmittingChange
  <2> QED
    BY <1>1, <1>2, <2>3 DEF Hit, history
<1>3. ASSUME NEW c \in Cpu, Miss(c)
      PROVE  hits' + Len(ring) + SumOver(lost, Key) + recursion_misses + Cardinality(Emitting)
               = hits + Len(ring') + SumOver(lost', Key) + recursion_misses' + Cardinality(Emitting')
  <2>1. Emitting' = Emitting
    BY <1>3 DEF Miss, Emitting
  <2> QED
    BY <1>1, <1>3, <2>1 DEF Miss, history
<1>4. ASSUME NEW c \in Cpu, HandlerStep(c)
      PROVE  hits' + Len(ring) + SumOver(lost, Key) + recursion_misses + Cardinality(Emitting)
               = hits + Len(ring') + SumOver(lost', Key) + recursion_misses' + Cardinality(Emitting')
  <2>1. \A d \in Cpu \ {c} : handler'[d] = handler[d]
    BY <1>4, OthersStay
  <2>2. hit[c] \in Key
    <3>1. handler[c] # "idle"
      BY <1>4 DEF At, HandlerStep, Emit, Refuse, CountFailure, FindSkbLoss, AddSkbLoss,
           InsertSkbLoss, RefindSkbLoss, FindProbeSite, AddProbeSite, InsertProbeSite
    <3> QED
      BY <3>1, HitIsKey
  <2>3. CASE Emit(c)
    <3>1. c \in Emitting /\ c \notin Emitting'
      BY <2>3 DEF Emit, At, Return, Goto, TypeOK, Emitting
    <3>2. Cardinality(Emitting') + 1 = Cardinality(Emitting) /\ Cardinality(Emitting') \in Nat
      BY <2>1, <3>1, EmittingChange
    <3>3. Len(ring') = Len(ring) + 1
      BY <2>2, <2>3 DEF Emit, TypeOK
    <3>4. UNCHANGED <<hits, lost, recursion_misses>>
      BY <2>3 DEF Emit, history
    <3> QED
      BY <1>1, <3>2, <3>3, <3>4
  <2>4. CASE Refuse(c)
    <3>1. c \in Emitting /\ c \notin Emitting'
      BY <2>4 DEF Refuse, At, Goto, TypeOK, Emitting
    <3>2. Cardinality(Emitting') + 1 = Cardinality(Emitting) /\ Cardinality(Emitting') \in Nat
      BY <2>1, <3>1, EmittingChange
    <3>3. /\ \A k \in Key : lost[k] \in Nat
          /\ \A k \in Key \ {hit[c]} : lost'[k] = lost[k]
          /\ lost'[hit[c]] = lost[hit[c]] + 1
      BY <2>2, <2>4 DEF Refuse, TypeOK
    <3>4. SumOver(lost', Key) = SumOver(lost, Key) + 1
      BY <2>2, <3>3, SumBump, KeysFinite
    <3>5. UNCHANGED <<hits, ring, recursion_misses>>
      BY <2>4 DEF Refuse
    <3> QED
      BY <1>1, <3>2, <3>4, <3>5
  <2>5. ASSUME UNCHANGED <<hits, ring, lost, recursion_misses>>,
               handler[c] # "reserve", handler'[c] # "reserve"
        PROVE  hits' + Len(ring) + SumOver(lost, Key) + recursion_misses + Cardinality(Emitting)
                 = hits + Len(ring') + SumOver(lost', Key) + recursion_misses'
                   + Cardinality(Emitting')
    <3>1. Emitting' = Emitting
      BY <2>1, <2>5 DEF Emitting
    <3> QED
      BY <1>1, <2>5, <3>1
  <2>6. CASE \/ CountFailure(c) \/ FindSkbLoss(c) \/ AddSkbLoss(c) \/ InsertSkbLoss(c)
             \/ RefindSkbLoss(c) \/ FindProbeSite(c) \/ AddProbeSite(c) \/ InsertProbeSite(c)
    <3>1. UNCHANGED <<hits, ring, lost, recursion_misses>>
      BY <2>6 DEF history, CountFailure, FindSkbLoss, AddSkbLoss, InsertSkbLoss,
                  RefindSkbLoss, FindProbeSite, AddProbeSite, InsertProbeSite
    <3>2. handler[c] # "reserve" /\ handler'[c] # "reserve"
      BY <2>6 DEF TypeOK, At, Goto, Return, CountFailure, FindSkbLoss, AddSkbLoss,
                  InsertSkbLoss, RefindSkbLoss, FindProbeSite, AddProbeSite, InsertProbeSite
    <3> QED
      BY <2>5, <3>1, <3>2
  <2> QED
    BY <1>4, <2>3, <2>4, <2>6 DEF HandlerStep
<1> QED
  BY <1>2, <1>3, <1>4 DEF KernelNext

\* The main loop moves records on, one place at a time.
LEMMA HitsInvStep == HitsInv /\ [SessionNext]_vars => HitsInv'
<1> SUFFICES ASSUME HitsInv, [SessionNext]_vars PROVE HitsInv'
  OBVIOUS
<1>1. LoopInv /\ LoopInv'
  BY LoopInvStep DEF HitsInv
<1>2. hits = Len(written) + Len(batch) + Len(ring) + Len(discarded)
             + SumOver(lost, Key) + recursion_misses + Cardinality(Emitting)
  BY DEF HitsInv, EveryHitIsAccountedFor, Emitting
<1>3. /\ hits \in Nat /\ recursion_misses \in Nat /\ hits' \in Nat /\ recursion_misses' \in Nat
      /\ written \in Seq(Key) /\ batch \in Seq(Key) /\ ring \in Seq(Key)
      /\ discarded \in Seq(Key) /\ ring' \in Seq(Key)
  BY <1>1 DEF LoopInv, SessionTypeOK, TypeOK
<1>4. /\ SumOver(lost, Key) \in Nat /\ SumOver(lost', Key) \in Nat
      /\ Cardinality(Emitting) \in Nat /\ Cardinality(Emitting') \in Nat
  <2>1. Emitting \in SUBSET Cpu /\ Emitting' \in SUBSET Cpu
    BY DEF Emitting
  <2>2. (\A k \in Key : lost[k] \in Nat) /\ \A k \in Key : lost'[k] \in Nat
    BY <1>1 DEF LoopInv, SessionTypeOK, TypeOK
  <2>3. SumOver(lost, Key) \in Nat /\ SumOver(lost', Key) \in Nat
    BY <2>2, SumInNat, KeysFinite
  <2> QED
    BY <2>1, <2>3, CpuSets
<1> DEFINE Balanced == hits' = Len(written') + Len(batch') + Len(ring') + Len(discarded')
                       + SumOver(lost', Key) + recursion_misses' + Cardinality(Emitting')
<1> SUFFICES Balanced
  BY <1>1 DEF HitsInv, EveryHitIsAccountedFor, Emitting
<1>5. UNCHANGED kernelVars => UNCHANGED <<hits, ring, lost, recursion_misses>> /\ Emitting' = Emitting
  BY DEF kernelVars, history, Emitting
<1>6. CASE ProbesFire
  <2>1. UNCHANGED <<written, batch, discarded>>
    BY <1>6 DEF ProbesFire, sessionVars
  <2>2. hits' + Len(ring) + SumOver(lost, Key) + recursion_misses + Cardinality(Emitting)
          = hits + Len(ring') + SumOver(lost', Key) + recursion_misses' + Cardinality(Emitting')
    BY <1>1, <1>6, KernelHits DEF ProbesFire, LoopInv, SessionTypeOK
  <2> DEFINE h == hits                  h1 == hits'
             w == Len(written)          b == Len(batch)
             d == Len(discarded)
             r == Len(ring)             r1 == Len(ring')
             l == SumOver(lost, Key)    l1 == SumOver(lost', Key)
             m == recursion_misses      m1 == recursion_misses'
             e == Cardinality(Emitting) e1 == Cardinality(Emitting')
  <2>3. h \in Nat /\ h1 \in Nat /\ m \in Nat /\ m1 \in Nat
    BY <1>3
  <2>4. w \in Nat /\ b \in Nat /\ d \in Nat /\ r \in Nat /\ r1 \in Nat
    BY <1>3
  <2>5. l \in Nat /\ l1 \in Nat /\ e \in Nat /\ e1 \in Nat
    BY <1>4
  <2>6. h = w + b + r + d + l + m + e
    BY <1>2
  <2>7. h1 + r + l + m + e = h + r1 + l1 + m1 + e1
    BY <2>2
  <2>8. Len(written') = w /\ Len(batch') = b /\ Len(discarded') = d
    BY <2>1
  <2>9. Balanced <=> h1 = w + b + r1 + d + l1 + m1 + e1
    BY <2>8
  <2> HIDE DEF h, h1, w, b, d, r, r1, l, l1, m, m1, e, e1, Balanced
  <2> QED
    BY <2>3, <2>4, <2>5, <2>6, <2>7, <2>9
<1>7. CASE PollRecord
  <2>1. UNCHANGED <<hits, lost, recursion_misses, written, discarded>> /\ Emitting' = Emitting
    BY <1>7 DEF PollRecord, Consume, history, Emitting
  <2>2. Len(ring') + 1 = Len(ring) /\ Len(batch') = Len(batch) + 1
    BY <1>3, <1>7 DEF PollRecord, Consume
  <2>3. /\ Len(ring') \in Nat /\ Len(batch) \in Nat /\ Len(written) \in Nat
        /\ Len(discarded) \in Nat /\ hits \in Nat /\ recursion_misses \in Nat
    BY <1>3
  <2>4. /\ hits' = hits /\ SumOver(lost', Key) = SumOver(lost, Key)
        /\ recursion_misses' = recursion_misses /\ Cardinality(Emitting') = Cardinality(Emitting)
        /\ Len(written') = Len(written) /\ Len(discarded') = Len(discarded)
    BY <2>1
  <2>5. Len(batch') + Len(ring') = Len(batch) + Len(ring)
    BY <2>2, <2>3
  <2>6. Len(batch') \in Nat /\ Len(ring) \in Nat
    BY <2>2, <2>3
  <2> DEFINE w == Len(written)          d == Len(discarded)
             b == Len(batch)            b1 == Len(batch')
             r == Len(ring)             r1 == Len(ring')
             l == SumOver(lost, Key)    e == Cardinality(Emitting)
  <2>7. w \in Nat /\ d \in Nat /\ b \in Nat /\ b1 \in Nat /\ r \in Nat /\ r1 \in Nat
    BY <2>3, <2>6
  <2>8. l \in Nat /\ e \in Nat /\ recursion_misses \in Nat
    BY <1>4, <2>3
  <2>9. hits = w + b + r + d + l + recursion_misses + e
    BY <1>2
  <2>10. b1 + r1 = b + r
    BY <2>5
  <2>11. Balanced <=> hits = w + b1 + r1 + d + l + recursion_misses + e
    BY <2>4
  <2> HIDE DEF w, d, b, b1, r, r1, l, e, Balanced
  <2> QED
    BY <2>7, <2>8, <2>9, <2>10, <2>11
<1>8. ASSUME UNCHANGED kernelVars, UNCHANGED <<written, batch, discarded>> PROVE Balanced
  BY <1>2, <1>5, <1>8
<1>9. ASSUME UNCHANGED kernelVars, UNCHANGED discarded, batch # <<>>,
             written' = Append(written, Head(batch)), batch' = Tail(batch)
      PROVE  Balanced
  <2>1. Len(written') = Len(written) + 1 /\ Len(batch') + 1 = Len(batch)
    BY <1>3, <1>9
  <2>2. /\ Len(batch') \in Nat /\ Len(written) \in Nat /\ Len(ring) \in Nat
        /\ Len(discarded) \in Nat /\ hits \in Nat /\ recursion_misses \in Nat
    BY <1>3, <1>9
  <2>3. /\ hits' = hits /\ SumOver(lost', Key) = SumOver(lost, Key)
        /\ recursion_misses' = recursion_misses /\ Cardinality(Emitting') = Cardinality(Emitting)
        /\ Len(ring') = Len(ring) /\ Len(discarded') = Len(discarded)
    BY <1>5, <1>9
  <2>4. /\ Len(written') + Len(batch') = Len(written) + Len(batch)
        /\ Len(written') \in Nat /\ Len(batch) \in Nat
    BY <2>1, <2>2
  <2> QED
    BY <1>2, <1>4, <2>2, <2>3, <2>4
<1>10. CASE DrainLimit
  <2>1. discarded = <<>>
    BY <1>1, <1>10 DEF DrainLimit, LoopInv, DiscardIsLast
  <2>2. Len(discarded') = Len(batch) /\ Len(discarded) = 0 /\ Len(batch') = 0
    BY <1>10, <2>1 DEF DrainLimit
  <2> QED
    BY <1>2, <1>3, <1>4, <1>5, <1>10, <2>2 DEF DrainLimit
<1>11. CASE WriteEvent
  BY <1>9, <1>11 DEF WriteEvent, CanWrite
<1>12. CASE FinishRotation
  <2>1. batch # <<>>
    BY <1>1, <1>12 DEF FinishRotation, LoopInv, RotationHasEvent, Sampling
  <2> QED
    BY <1>9, <1>12, <2>1 DEF FinishRotation
<1>13. CASE UNCHANGED vars
  BY <1>8, <1>13 DEF vars, sessionVars
<1>14. CASE \/ Stop \/ StartPoll \/ PollReturn \/ Interrupted \/ DrainDone \/ StartRotation
            \/ SampleStep \/ Finish
  BY <1>8, <1>14 DEF Stop, StartPoll, PollReturn, Interrupted, DrainDone, StartRotation,
       SampleStep, SampleProbe, ProbesRead, SampleSkb, SkbsRead, SampleCpu, SampleRecursion,
       Finish
<1> QED
  BY <1>6, <1>7, <1>10, <1>11, <1>12, <1>13, <1>14 DEF SessionNext, LoopStep

\* Every probe hit ends in exactly one place.  The record a rotation interrupts is
\* not written twice, the records dropped at the limit are dropped once, and no
\* record is lost between the ring, the polled batch and the output, for any
\* number of CPUs, ring slots, events and rotations.
THEOREM HitsAccounted == SessionSpec => []EveryHitIsAccountedFor
<1>1. HitsInv => EveryHitIsAccountedFor
  BY DEF HitsInv
<1> QED
  BY <1>1, HitsInvInit, HitsInvStep, PTL DEF SessionSpec

-----------------------------------------------------------------------------
\* Samples and checkpoints never run ahead of the tables.

\* CPUs whose telemetry the sampling under way has still to read.
Unread ==
  IF phase \in {"probes", "skbs"} THEN Cpu ELSE IF phase = "stats" THEN todo ELSE {}

\* The tables hold at least what r read of them,
TablesCover(r, slots, entries, misses) ==
  /\ \A s \in Site : r.kernel_loss_by_probe[s] <= SumOver(slots[s], Cpu)
  /\ \A k \in Key : r.kernel_loss_by_skb[k] <= entries[k]
  /\ r.kernel_recursion_misses <= misses

\* and the telemetry of the given CPUs at least the totals r read.
CountersCover(r, failures, unattributed, unfiledLosses, cpus) ==
  /\ r.kernel_reserve_failures <= SumOver(failures, cpus)
  /\ r.kernel_unattributed_reserve_failures <= SumOver(unattributed, cpus)
  /\ r.kernel_skb_loss_unattributed <= SumOver(unfiledLosses, cpus)

\* The sample under way, whose totals come from the CPUs read so far,
SampleIsCovered ==
  /\ TablesCover(sample, probe_site_loss, skb_loss, recursion_misses)
  /\ CountersCover(sample, reserve_failures, unattributed_reserve_failures,
                   unattributed_skb_losses, Cpu \ Unread)

\* and the last footer's.
CheckpointIsCovered ==
  /\ TablesCover(reliability_checkpoint, probe_site_loss, skb_loss, recursion_misses)
  /\ CountersCover(reliability_checkpoint, reserve_failures, unattributed_reserve_failures,
                   unattributed_skb_losses, Cpu)

\* What every claim about a footer starts from.
CoverInv == LoopInv /\ KernelInv /\ SampleIsCovered /\ CheckpointIsCovered

\* Counts only grow: what covered a reading still does.
LEMMA TablesCoverGrow ==
  ASSUME NEW r \in Reliability, NEW f \in [Site -> [Cpu -> Nat]], NEW g \in [Site -> [Cpu -> Nat]],
         \A s \in Site : Grows(f[s], g[s], Cpu),
         NEW t \in [Key -> Nat], NEW u \in [Key -> Nat], Grows(t, u, Key),
         NEW m \in Nat, NEW n \in Nat, m <= n,
         TablesCover(r, f, t, m)
  PROVE  TablesCover(r, g, u, n)
<1>1. ASSUME NEW s \in Site PROVE r.kernel_loss_by_probe[s] <= SumOver(g[s], Cpu)
  <2>1. (\A c \in Cpu : f[s][c] \in Nat /\ g[s][c] \in Nat) /\ Grows(f[s], g[s], Cpu)
    BY <1>1
  <2>2. SumOver(f[s], Cpu) <= SumOver(g[s], Cpu)
    BY <2>1, SumGrows, CpuAssumption
  <2>3. SumOver(f[s], Cpu) \in Nat /\ SumOver(g[s], Cpu) \in Nat
    BY <2>1, SumInNat, CpuAssumption
  <2>4. r.kernel_loss_by_probe[s] <= SumOver(f[s], Cpu) /\ r.kernel_loss_by_probe[s] \in Nat
    BY <1>1 DEF TablesCover, Reliability
  <2> QED
    BY <2>2, <2>3, <2>4
<1>2. ASSUME NEW k \in Key PROVE r.kernel_loss_by_skb[k] <= u[k]
  BY <1>2 DEF TablesCover, Reliability, Grows
<1>3. r.kernel_recursion_misses <= n
  BY DEF TablesCover, Reliability
<1> QED
  BY <1>1, <1>2, <1>3 DEF TablesCover

\* The sum of a growing counter over some CPUs.
LEMMA CpuSumGrows ==
  ASSUME NEW f \in [Cpu -> Nat], NEW g \in [Cpu -> Nat], Grows(f, g, Cpu),
         NEW T \in SUBSET Cpu
  PROVE  /\ SumOver(f, T) \in Nat /\ SumOver(g, T) \in Nat
         /\ SumOver(f, T) <= SumOver(g, T)
<1>1. IsFiniteSet(T)
  BY CpuAssumption, FS_Subset
<1>2. \A c \in T : f[c] \in Nat /\ g[c] \in Nat
  OBVIOUS
<1>3. Grows(f, g, T)
  BY DEF Grows
<1> QED
  BY <1>1, <1>2, <1>3, SumGrows, SumInNat

\* So for the totals.
LEMMA CountersCoverGrow ==
  ASSUME NEW r \in Reliability, NEW T \in SUBSET Cpu,
         NEW a \in [Cpu -> Nat], NEW a1 \in [Cpu -> Nat], Grows(a, a1, Cpu),
         NEW b \in [Cpu -> Nat], NEW b1 \in [Cpu -> Nat], Grows(b, b1, Cpu),
         NEW d \in [Cpu -> Nat], NEW d1 \in [Cpu -> Nat], Grows(d, d1, Cpu),
         CountersCover(r, a, b, d, T)
  PROVE  CountersCover(r, a1, b1, d1, T)
<1>1. /\ SumOver(a, T) \in Nat /\ SumOver(a1, T) \in Nat /\ SumOver(a, T) <= SumOver(a1, T)
      /\ SumOver(b, T) \in Nat /\ SumOver(b1, T) \in Nat /\ SumOver(b, T) <= SumOver(b1, T)
      /\ SumOver(d, T) \in Nat /\ SumOver(d1, T) \in Nat /\ SumOver(d, T) <= SumOver(d1, T)
  BY CpuSumGrows
<1>2. /\ r.kernel_reserve_failures \in Nat
      /\ r.kernel_unattributed_reserve_failures \in Nat
      /\ r.kernel_skb_loss_unattributed \in Nat
  BY DEF Reliability
<1> QED
  BY <1>1, <1>2 DEF CountersCover

\* Nothing read, nothing to cover.
LEMMA DefaultIsCovered ==
  ASSUME TypeOK, NEW T \in SUBSET Cpu
  PROVE  /\ TablesCover(DefaultReliability, probe_site_loss, skb_loss, recursion_misses)
         /\ CountersCover(DefaultReliability, reserve_failures, unattributed_reserve_failures,
                          unattributed_skb_losses, T)
<1>1. IsFiniteSet(T)
  BY CpuAssumption, FS_Subset
<1>2. /\ SumOver(reserve_failures, T) \in Nat
      /\ SumOver(unattributed_reserve_failures, T) \in Nat
      /\ SumOver(unattributed_skb_losses, T) \in Nat
  BY <1>1, SumInNat DEF TypeOK
<1>3. \A s \in Site : SumOver(probe_site_loss[s], Cpu) \in Nat
  BY SlotsInNat
<1> QED
  BY <1>2, <1>3 DEF TypeOK, TablesCover, CountersCover, DefaultReliability

\* Nothing has been sampled before the start.
LEMMA CoverInvInit == SessionInit => CoverInv
<1> SUFFICES ASSUME SessionInit PROVE CoverInv
  OBVIOUS
<1>1. LoopInv /\ KernelInv /\ TypeOK
  BY LoopInvInit, KernelInvInit, TypeOKInit DEF SessionInit
<1>2. sample = DefaultReliability /\ reliability_checkpoint = DefaultReliability
  BY DEF SessionInit
<1>3. Cpu \ Unread \in SUBSET Cpu /\ Cpu \in SUBSET Cpu
  OBVIOUS
<1> QED
  BY <1>1, <1>2, <1>3, DefaultIsCovered DEF CoverInv, SampleIsCovered, CheckpointIsCovered

-----------------------------------------------------------------------------
\* What the steps of a session do to its samples.

\* The tables a sampling reads.
tables == <<handler, hit, telemetry, skb_loss, probe_site_loss, recursion_misses, history>>

\* The main loop outside a sampling.
Elsewhere ==
  /\ phase \notin Sampling \cup {"done"}
  /\ phase' \notin Sampling \cup {"done"}
  /\ UNCHANGED <<tables, sample, reliability_checkpoint, segments, settled>>

\* The start of a sampling.
SamplingStarts ==
  /\ phase \notin Sampling \cup {"done"}
  /\ \E for \in {"rotation", "end"} : StartSampling(for)
  /\ UNCHANGED <<kernelVars, reliability_checkpoint, segments>>

\* Every step is the kernel's own, or one of these, or a step of a sampling.
LEMMA SessionStepKinds ==
  ASSUME [SessionNext]_vars
  PROVE  \/ UNCHANGED sessionVars
         \/ Elsewhere
         \/ SamplingStarts
         \/ SampleStep
         \/ FinishRotation
         \/ Finish
<1>1. CASE UNCHANGED vars \/ ProbesFire
  BY <1>1 DEF vars, ProbesFire
<1>2. CASE StartPoll \/ PollReturn \/ Interrupted \/ DrainDone \/ DrainLimit \/ WriteEvent
  BY <1>2 DEF Elsewhere, Sampling, tables, kernelVars, StartPoll, PollReturn, Interrupted,
              DrainDone, DrainLimit, WriteEvent, CanWrite
<1>3. CASE PollRecord
  BY <1>3 DEF Elsewhere, Sampling, tables, PollRecord, Consume
<1>4. CASE Stop \/ StartRotation
  BY <1>4 DEF SamplingStarts, Sampling, Stop, StartRotation, CanWrite
<1> QED
  BY <1>1, <1>2, <1>3, <1>4 DEF SessionNext, LoopStep

\* The types of what a sampling reads.
LEMMA TableTypes ==
  ASSUME TypeOK
  PROVE  /\ reserve_failures \in [Cpu -> Nat]
         /\ unattributed_reserve_failures \in [Cpu -> Nat]
         /\ unattributed_skb_losses \in [Cpu -> Nat]
         /\ skb_loss \in [Key -> Nat]
         /\ probe_site_loss \in [Site -> [Cpu -> Nat]]
         /\ recursion_misses \in Nat
BY DEF TypeOK

\* Unread CPUs are CPUs.
LEMMA UnreadCpus == LoopInv => Unread \in SUBSET Cpu
BY DEF LoopInv, TodoFits, Unread

\* Reading a CPU moves it from the unread ones to those covered.
LEMMA CpuIsRead ==
  ASSUME LoopInv, NEW c \in Cpu, SampleCpu(c)
  PROVE  /\ c \in Unread
         /\ Unread' = Unread \ {c}
         /\ Unread \in SUBSET Cpu
<1>1. phase = "stats" /\ c \in todo /\ todo' = todo \ {c}
      /\ phase' = IF todo' = {} THEN "recursion" ELSE phase
  BY DEF SampleCpu
<1>2. Unread = todo
  BY <1>1 DEF Unread
<1>3. Unread' = todo'
  BY <1>1 DEF Unread
<1> QED
  BY <1>1, <1>2, <1>3, UnreadCpus

\* The kernel's own steps, and those of the main loop outside a sampling, leave
\* samples covered.
LEMMA CoverKeeps ==
  ASSUME CoverInv, [SessionNext]_vars, UNCHANGED <<sample, reliability_checkpoint>>,
         Unread' = Unread
  PROVE  SampleIsCovered' /\ CheckpointIsCovered'
<1>1. TypeOK /\ TypeOK' /\ NothingFalls
  BY SessionStepsKernel, TypeOKStep, TablesGrow DEF CoverInv, KernelInv, ConservationInv
<1>2. sample \in Reliability /\ reliability_checkpoint \in Reliability
  BY DEF CoverInv, LoopInv, SessionTypeOK
<1>3. /\ reserve_failures \in [Cpu -> Nat] /\ reserve_failures' \in [Cpu -> Nat]
      /\ unattributed_reserve_failures \in [Cpu -> Nat]
      /\ unattributed_reserve_failures' \in [Cpu -> Nat]
      /\ unattributed_skb_losses \in [Cpu -> Nat] /\ unattributed_skb_losses' \in [Cpu -> Nat]
      /\ skb_loss \in [Key -> Nat] /\ skb_loss' \in [Key -> Nat]
      /\ probe_site_loss \in [Site -> [Cpu -> Nat]] /\ probe_site_loss' \in [Site -> [Cpu -> Nat]]
      /\ recursion_misses \in Nat /\ recursion_misses' \in Nat
  BY <1>1 DEF TypeOK
<1>4. /\ TablesCover(sample, probe_site_loss, skb_loss, recursion_misses)
      /\ TablesCover(reliability_checkpoint, probe_site_loss, skb_loss, recursion_misses)
      /\ CountersCover(sample, reserve_failures, unattributed_reserve_failures,
                       unattributed_skb_losses, Cpu \ Unread)
      /\ CountersCover(reliability_checkpoint, reserve_failures, unattributed_reserve_failures,
                       unattributed_skb_losses, Cpu)
  BY DEF CoverInv, SampleIsCovered, CheckpointIsCovered
<1>5. /\ Grows(reserve_failures, reserve_failures', Cpu)
      /\ Grows(unattributed_reserve_failures, unattributed_reserve_failures', Cpu)
      /\ Grows(unattributed_skb_losses, unattributed_skb_losses', Cpu)
      /\ Grows(skb_loss, skb_loss', Key)
      /\ \A s \in Site : Grows(probe_site_loss[s], probe_site_loss'[s], Cpu)
      /\ recursion_misses <= recursion_misses'
  BY <1>1 DEF NothingFalls
<1>6. /\ TablesCover(sample, probe_site_loss', skb_loss', recursion_misses')
      /\ TablesCover(reliability_checkpoint, probe_site_loss', skb_loss', recursion_misses')
  BY <1>2, <1>3, <1>4, <1>5, TablesCoverGrow
<1>7. Cpu \ Unread \in SUBSET Cpu /\ Cpu \in SUBSET Cpu
  OBVIOUS
<1>8. CountersCover(sample, reserve_failures', unattributed_reserve_failures',
                    unattributed_skb_losses', Cpu \ Unread)
  BY <1>2, <1>3, <1>4, <1>5, <1>7, CountersCoverGrow
<1>9. CountersCover(reliability_checkpoint, reserve_failures', unattributed_reserve_failures',
                    unattributed_skb_losses', Cpu)
  BY <1>2, <1>3, <1>4, <1>5, <1>7, CountersCoverGrow
<1> QED
  BY <1>6, <1>8, <1>9 DEF SampleIsCovered, CheckpointIsCovered

\* Every read takes what the table holds, and a rotation's checkpoint is its
\* finished sample.
LEMMA CoverInvStep == CoverInv /\ [SessionNext]_vars => CoverInv'
<1> SUFFICES ASSUME CoverInv, [SessionNext]_vars PROVE CoverInv'
  OBVIOUS
<1>1. LoopInv /\ LoopInv' /\ KernelInv /\ KernelInv' /\ TypeOK /\ TypeOK'
  BY LoopInvStep, SessionStepsKernel, KernelInvStep DEF CoverInv, LoopInv, SessionTypeOK
<1>2. sample \in Reliability /\ reliability_checkpoint \in Reliability
  BY <1>1 DEF LoopInv, SessionTypeOK
<1>3. /\ TablesCover(sample, probe_site_loss, skb_loss, recursion_misses)
      /\ TablesCover(reliability_checkpoint, probe_site_loss, skb_loss, recursion_misses)
      /\ CountersCover(sample, reserve_failures, unattributed_reserve_failures,
                       unattributed_skb_losses, Cpu \ Unread)
      /\ CountersCover(reliability_checkpoint, reserve_failures, unattributed_reserve_failures,
                       unattributed_skb_losses, Cpu)
  BY DEF CoverInv, SampleIsCovered, CheckpointIsCovered
<1> SUFFICES SampleIsCovered' /\ CheckpointIsCovered'
  BY <1>1 DEF CoverInv
<1>4. ASSUME UNCHANGED <<sample, reliability_checkpoint>>, Unread' = Unread
      PROVE  SampleIsCovered' /\ CheckpointIsCovered'
  BY <1>4, CoverKeeps
<1>5. CASE UNCHANGED sessionVars
  BY <1>4, <1>5 DEF sessionVars, Unread
<1>6. CASE Elsewhere
  BY <1>4, <1>6 DEF Elsewhere, Unread, Sampling
<1>7. ASSUME UNCHANGED kernelVars
      PROVE  UNCHANGED <<reserve_failures, unattributed_reserve_failures,
                         unattributed_skb_losses, probe_site_loss, skb_loss, recursion_misses>>
  BY <1>7 DEF kernelVars, telemetry
<1>8. ASSUME UNCHANGED kernelVars, UNCHANGED reliability_checkpoint
      PROVE  CheckpointIsCovered'
  BY <1>3, <1>7, <1>8 DEF CheckpointIsCovered
<1>9. ASSUME UNCHANGED kernelVars, sample' = DefaultReliability
      PROVE  SampleIsCovered'
  <2>1. Cpu \ Unread' \in SUBSET Cpu
    OBVIOUS
  <2> QED
    BY <1>1, <1>7, <1>9, <2>1, DefaultIsCovered DEF SampleIsCovered
<1>10. CASE SamplingStarts
  BY <1>8, <1>9, <1>10 DEF SamplingStarts, StartSampling
<1>11. ASSUME UNCHANGED kernelVars, Unread' = Unread,
              TablesCover(sample', probe_site_loss, skb_loss, recursion_misses),
              sample'.kernel_reserve_failures = sample.kernel_reserve_failures,
              sample'.kernel_unattributed_reserve_failures
                = sample.kernel_unattributed_reserve_failures,
              sample'.kernel_skb_loss_unattributed = sample.kernel_skb_loss_unattributed
       PROVE  SampleIsCovered'
  BY <1>3, <1>7, <1>11 DEF SampleIsCovered, CountersCover
<1>12. ASSUME NEW s \in Site, SampleProbe(s) PROVE SampleIsCovered' /\ CheckpointIsCovered'
  <2>1. SumOver(probe_site_loss[s], Cpu) \in Nat
    BY <1>1, SlotsInNat
  <2>2. sample' = [sample EXCEPT !.kernel_loss_by_probe[s] = SumOver(probe_site_loss[s], Cpu)]
    BY <1>12 DEF SampleProbe
  <2>3. TablesCover(sample', probe_site_loss, skb_loss, recursion_misses)
    BY <1>2, <1>3, <2>1, <2>2 DEF TablesCover, Reliability
  <2>4. /\ sample'.kernel_reserve_failures = sample.kernel_reserve_failures
        /\ sample'.kernel_unattributed_reserve_failures
             = sample.kernel_unattributed_reserve_failures
        /\ sample'.kernel_skb_loss_unattributed = sample.kernel_skb_loss_unattributed
    BY <1>2, <2>2 DEF Reliability
  <2>5. Unread' = Unread /\ UNCHANGED <<kernelVars, reliability_checkpoint>>
    BY <1>12 DEF SampleProbe, Unread
  <2> QED
    BY <1>8, <1>11, <2>3, <2>4, <2>5
<1>13. ASSUME NEW k \in Key, SampleSkb(k) PROVE SampleIsCovered' /\ CheckpointIsCovered'
  <2>1. skb_loss[k] \in Nat
    BY <1>1 DEF TypeOK
  <2>2. sample' = [sample EXCEPT !.kernel_loss_by_skb[k] = skb_loss[k]]
    BY <1>13 DEF SampleSkb
  <2>3. TablesCover(sample', probe_site_loss, skb_loss, recursion_misses)
    BY <1>2, <1>3, <2>1, <2>2 DEF TablesCover, Reliability
  <2>4. /\ sample'.kernel_reserve_failures = sample.kernel_reserve_failures
        /\ sample'.kernel_unattributed_reserve_failures
             = sample.kernel_unattributed_reserve_failures
        /\ sample'.kernel_skb_loss_unattributed = sample.kernel_skb_loss_unattributed
    BY <1>2, <2>2 DEF Reliability
  <2>5. Unread' = Unread /\ UNCHANGED <<kernelVars, reliability_checkpoint>>
    BY <1>13 DEF SampleSkb, Unread
  <2> QED
    BY <1>8, <1>11, <2>3, <2>4, <2>5
<1>14. CASE ProbesRead \/ SkbsRead
  <2>1. UNCHANGED <<sample, reliability_checkpoint>>
    BY <1>14 DEF ProbesRead, SkbsRead
  <2>2. Unread' = Unread
    BY <1>14 DEF ProbesRead, SkbsRead, Unread
  <2> QED
    BY <1>4, <2>1, <2>2
<1>15. ASSUME NEW c \in Cpu, SampleCpu(c) PROVE SampleIsCovered' /\ CheckpointIsCovered'
  <2> DEFINE T == Cpu \ Unread
  <2>1. c \notin T /\ Cpu \ Unread' = T \cup {c} /\ T \in SUBSET Cpu
    BY <1>1, <1>15, CpuIsRead
  <2>2. sample' = [sample EXCEPT
          !.kernel_reserve_failures = @ + reserve_failures[c],
          !.kernel_unattributed_reserve_failures = @ + unattributed_reserve_failures[c],
          !.kernel_skb_loss_unattributed = @ + unattributed_skb_losses[c]]
        /\ UNCHANGED <<kernelVars, reliability_checkpoint>>
    BY <1>15 DEF SampleCpu
  <2>3. IsFiniteSet(T \cup {c}) /\ (T \cup {c}) \ {c} = T
    BY <2>1, CpuAssumption, FS_Subset
  <2>4. ASSUME NEW f \in [Cpu -> Nat]
        PROVE  SumOver(f, T \cup {c}) = f[c] + SumOver(f, T) /\ SumOver(f, T) \in Nat
    <3>1. (\A x \in T \cup {c} : f[x] \in Nat) /\ c \in T \cup {c}
      BY <2>1
    <3>2. SumOver(f, T \cup {c}) = f[c] + SumOver(f, (T \cup {c}) \ {c})
      BY <2>3, <3>1, SumTake
    <3>3. SumOver(f, T) \in Nat
      BY <2>1, CpuSumGrows DEF Grows
    <3> QED
      BY <2>3, <3>2, <3>3
  <2>5. CountersCover(sample', reserve_failures, unattributed_reserve_failures,
                      unattributed_skb_losses, T \cup {c})
    <3>1. /\ reserve_failures \in [Cpu -> Nat] /\ unattributed_reserve_failures \in [Cpu -> Nat]
          /\ unattributed_skb_losses \in [Cpu -> Nat]
      BY <1>1, TableTypes
    <3>2. /\ sample'.kernel_reserve_failures = sample.kernel_reserve_failures + reserve_failures[c]
          /\ sample'.kernel_unattributed_reserve_failures
               = sample.kernel_unattributed_reserve_failures + unattributed_reserve_failures[c]
          /\ sample'.kernel_skb_loss_unattributed
               = sample.kernel_skb_loss_unattributed + unattributed_skb_losses[c]
          /\ sample.kernel_reserve_failures \in Nat
          /\ sample.kernel_unattributed_reserve_failures \in Nat
          /\ sample.kernel_skb_loss_unattributed \in Nat
      BY <1>2, <2>2 DEF Reliability
    <3>3. CountersCover(sample, reserve_failures, unattributed_reserve_failures,
                        unattributed_skb_losses, T)
      BY <1>3
    <3> HIDE DEF T
    <3>4. reserve_failures[c] \in Nat /\ unattributed_reserve_failures[c] \in Nat
          /\ unattributed_skb_losses[c] \in Nat
      BY <3>1
    <3>5. SumOver(reserve_failures, T \cup {c}) = reserve_failures[c] + SumOver(reserve_failures, T)
          /\ SumOver(reserve_failures, T) \in Nat
      BY <2>4, <3>1
    <3>6. /\ SumOver(unattributed_reserve_failures, T \cup {c})
               = unattributed_reserve_failures[c] + SumOver(unattributed_reserve_failures, T)
          /\ SumOver(unattributed_reserve_failures, T) \in Nat
      BY <2>4, <3>1
    <3>7. /\ SumOver(unattributed_skb_losses, T \cup {c})
               = unattributed_skb_losses[c] + SumOver(unattributed_skb_losses, T)
          /\ SumOver(unattributed_skb_losses, T) \in Nat
      BY <2>4, <3>1
    <3> QED
      BY <3>2, <3>3, <3>4, <3>5, <3>6, <3>7 DEF CountersCover
  <2>6. TablesCover(sample', probe_site_loss, skb_loss, recursion_misses)
    <3>1. /\ sample'.kernel_loss_by_probe = sample.kernel_loss_by_probe
          /\ sample'.kernel_loss_by_skb = sample.kernel_loss_by_skb
          /\ sample'.kernel_recursion_misses = sample.kernel_recursion_misses
      BY <1>2, <2>2 DEF Reliability
    <3> QED
      BY <1>3, <3>1 DEF TablesCover
  <2> QED
    BY <1>7, <1>8, <2>1, <2>2, <2>5, <2>6 DEF SampleIsCovered
<1>16. CASE SampleRecursion
  <2>1. sample' = [sample EXCEPT !.kernel_recursion_misses = recursion_misses]
    BY <1>16 DEF SampleRecursion
  <2>2. TablesCover(sample', probe_site_loss, skb_loss, recursion_misses)
    BY <1>1, <1>2, <1>3, <2>1 DEF TablesCover, Reliability, TypeOK
  <2>3. /\ sample'.kernel_reserve_failures = sample.kernel_reserve_failures
        /\ sample'.kernel_unattributed_reserve_failures
             = sample.kernel_unattributed_reserve_failures
        /\ sample'.kernel_skb_loss_unattributed = sample.kernel_skb_loss_unattributed
    BY <1>2, <2>1 DEF Reliability
  <2>4. Unread' = Unread /\ UNCHANGED <<kernelVars, reliability_checkpoint>>
    BY <1>16 DEF SampleRecursion, Unread
  <2> QED
    BY <1>8, <1>11, <2>2, <2>3, <2>4
<1>17. CASE FinishRotation
  <2>1. /\ UNCHANGED kernelVars /\ sample' = DefaultReliability /\ reliability_checkpoint' = sample
        /\ phase = "footer"
    BY <1>17 DEF FinishRotation
  <2>2. Cpu \ Unread = Cpu
    BY <2>1 DEF Unread
  <2>3. CheckpointIsCovered'
    BY <1>3, <1>7, <2>1, <2>2 DEF CheckpointIsCovered
  <2> QED
    BY <1>9, <2>1, <2>3
<1>18. CASE Finish
  BY <1>4, <1>18 DEF Finish, Unread
<1> QED
  BY <1>5, <1>6, <1>10, <1>12, <1>13, <1>14, <1>15, <1>16, <1>17, <1>18, SessionStepKinds
     DEF SampleStep

-----------------------------------------------------------------------------
\* The breakdowns of a footer.

\* Once the tables are read, what the sample holds of them is explained by the
\* totals read so far and by what the CPUs still to be read have counted before
\* they touched a table.
BreakdownSoFar ==
  phase \in {"stats", "recursion", "footer", "done"} =>
    /\ SumProbes(sample) + sample.kernel_unattributed_reserve_failures
         <= sample.kernel_reserve_failures + SumOver(AttributedOnAll, Unread)
    /\ SumSkbs(sample) + sample.kernel_skb_loss_unattributed
         <= sample.kernel_reserve_failures + SumOver(FiledOn, Unread)

\* The inductive invariant behind BreakdownHolds.
BreakdownInv == CoverInv /\ BreakdownSoFar

\* A CPU counts a failure before it attributes or files it.
LEMMA CountedFirst ==
  KernelInv =>
    /\ AttributedOnAll \in [Cpu -> Nat]
    /\ FiledOn \in [Cpu -> Nat]
    /\ \A c \in Cpu :
         /\ AttributedOnAll[c] + unattributed_reserve_failures[c] <= reserve_failures[c]
         /\ FiledOn[c] + unattributed_skb_losses[c] <= reserve_failures[c]
<1> SUFFICES ASSUME KernelInv
             PROVE  /\ AttributedOnAll \in [Cpu -> Nat]
                    /\ FiledOn \in [Cpu -> Nat]
                    /\ \A c \in Cpu :
                         /\ AttributedOnAll[c] + unattributed_reserve_failures[c]
                              <= reserve_failures[c]
                         /\ FiledOn[c] + unattributed_skb_losses[c] <= reserve_failures[c]
  OBVIOUS
<1>1. TypeOK /\ ProbeConservation /\ FiledIsCounted
  BY DEF KernelInv, ConservationInv, LossIsConserved
<1>2. reserve_failures \in [Cpu -> Nat] /\ unattributed_reserve_failures \in [Cpu -> Nat]
      /\ unattributed_skb_losses \in [Cpu -> Nat]
  BY <1>1, TableTypes
<1>3. ASSUME NEW c \in Cpu
      PROVE  /\ AttributedOn(c) \in Nat
             /\ AttributedOn(c) + unattributed_reserve_failures[c] <= reserve_failures[c]
  <2>1. \A t \in Site : [s \in Site |-> probe_site_loss[s][c]][t] \in Nat
    BY <1>1, <1>3 DEF TypeOK
  <2>2. AttributedOn(c) \in Nat
    BY <2>1, SumInNat, SiteAssumption DEF AttributedOn
  <2>3. Attributing(c) \in Nat
    BY DEF Attributing
  <2>4. reserve_failures[c]
          = AttributedOn(c) + unattributed_reserve_failures[c] + Attributing(c)
    BY <1>1, <1>3 DEF ProbeConservation
  <2> QED
    BY <1>2, <1>3, <2>2, <2>3, <2>4
<1>4. ASSUME NEW c \in Cpu
      PROVE  FiledOn[c] \in Nat /\ FiledOn[c] + unattributed_skb_losses[c] <= reserve_failures[c]
  <2>1. FilingOn(c) \in Nat
    BY DEF FilingOn
  <2>2. unattributed_skb_losses[c] + FilingOn(c) <= reserve_failures[c]
    BY <1>1, <1>4 DEF FiledIsCounted
  <2>3. FiledOn[c] = reserve_failures[c] - (unattributed_skb_losses[c] + FilingOn(c))
    BY <1>4 DEF FiledOn
  <2> QED
    BY <1>2, <1>4, <2>1, <2>2, <2>3
<1>5. FiledOn = [c \in Cpu |-> FiledOn[c]]
  BY DEF FiledOn
<1> QED
  BY <1>3, <1>4, <1>5 DEF AttributedOnAll

\* What the CPUs have attributed and filed grows with the tables.
LEMMA ExplainedGrows ==
  ASSUME KernelInv, [Next]_kernelVars
  PROVE  /\ Grows(AttributedOnAll, AttributedOnAll', Cpu)
         /\ Grows(FiledOn, FiledOn', Cpu)
<1>1. TypeOK /\ TypeOK' /\ NothingFalls
  BY TypeOKStep, TablesGrow DEF KernelInv, ConservationInv
<1>2. ASSUME NEW c \in Cpu PROVE AttributedOn(c) <= AttributedOn(c)'
  <2> DEFINE f == [s \in Site |-> probe_site_loss[s][c]]
             g == [s \in Site |-> probe_site_loss'[s][c]]
  <2>1. \A s \in Site : f[s] \in Nat /\ g[s] \in Nat
    BY <1>1, <1>2 DEF TypeOK
  <2>2. Grows(f, g, Site)
    BY <1>1, <1>2 DEF NothingFalls, Grows
  <2> HIDE DEF f, g
  <2>3. SumOver(f, Site) <= SumOver(g, Site)
    BY <2>1, <2>2, SumGrows, SiteAssumption
  <2> USE DEF f, g
  <2> QED
    BY <2>3 DEF AttributedOn
<1>3. Grows(FiledOn, FiledOn', Cpu)
  BY FiledIsCountedStep DEF KernelInv
<1> QED
  BY <1>2, <1>3 DEF AttributedOnAll, Grows

\* A sample of the tables is no more than what the CPUs have put there.
LEMMA TablesExplained ==
  ASSUME CoverInv
  PROVE  /\ SumProbes(sample) \in Nat /\ SumSkbs(sample) \in Nat
         /\ SumProbes(sample) <= SumOver(AttributedOnAll, Cpu)
         /\ SumSkbs(sample) <= SumOver(FiledOn, Cpu)
<1>1. TypeOK /\ sample \in Reliability /\ FiledIsCounted
  BY DEF CoverInv, LoopInv, SessionTypeOK, KernelInv
<1>2. TablesCover(sample, probe_site_loss, skb_loss, recursion_misses)
  BY DEF CoverInv, SampleIsCovered
<1> DEFINE rows == [s \in Site |-> SumOver(probe_site_loss[s], Cpu)]
           r == sample.kernel_loss_by_probe
           q == sample.kernel_loss_by_skb
<1>3. \A s \in Site : r[s] \in Nat /\ rows[s] \in Nat /\ r[s] <= rows[s]
  BY <1>1, <1>2, SlotsInNat DEF Reliability, TablesCover
<1>4. \A k \in Key : q[k] \in Nat /\ skb_loss[k] \in Nat /\ q[k] <= skb_loss[k]
  BY <1>1, <1>2 DEF Reliability, TablesCover, TypeOK
<1>5. SumOver(rows, Site) = SumOver(AttributedOnAll, Cpu)
  BY <1>1, TableTypes, SumSwap, SiteAssumption, CpuAssumption DEF AttributedOnAll, AttributedOn
<1>6. SumOver(skb_loss, Key) = SumOver(FiledOn, Cpu)
  BY <1>1 DEF FiledIsCounted
<1>7. SumProbes(sample) = SumOver(r, Site) /\ SumSkbs(sample) = SumOver(q, Key)
  BY DEF SumProbes, SumSkbs
<1> HIDE DEF rows, r, q
<1>8. SumOver(r, Site) <= SumOver(rows, Site) /\ SumOver(r, Site) \in Nat
  BY <1>3, SumMonotone, SumInNat, SiteAssumption
<1>9. SumOver(q, Key) <= SumOver(skb_loss, Key) /\ SumOver(q, Key) \in Nat
  BY <1>4, SumMonotone, SumInNat, KeysFinite
<1> QED
  BY <1>5, <1>6, <1>7, <1>8, <1>9

\* The tables are read before the totals, and every CPU's total is read after
\* what it explains: the inequality survives every read and every failure that
\* lands between two reads.
LEMMA BreakdownInvStep == BreakdownInv /\ [SessionNext]_vars => BreakdownInv'
<1> SUFFICES ASSUME BreakdownInv, [SessionNext]_vars PROVE BreakdownInv'
  OBVIOUS
<1>1. CoverInv /\ CoverInv' /\ LoopInv /\ LoopInv' /\ KernelInv /\ KernelInv'
  BY CoverInvStep DEF BreakdownInv, CoverInv
<1>2. sample \in Reliability /\ sample' \in Reliability
  BY <1>1 DEF LoopInv, SessionTypeOK
<1> SUFFICES BreakdownSoFar'
  BY <1>1 DEF BreakdownInv
<1>3. /\ SumProbes(sample) \in Nat /\ SumSkbs(sample) \in Nat
      /\ SumProbes(sample) <= SumOver(AttributedOnAll, Cpu)
      /\ SumSkbs(sample) <= SumOver(FiledOn, Cpu)
  BY <1>1, TablesExplained
<1>4. /\ sample.kernel_reserve_failures \in Nat
      /\ sample.kernel_unattributed_reserve_failures \in Nat
      /\ sample.kernel_skb_loss_unattributed \in Nat
  BY <1>2 DEF Reliability
<1>5. /\ AttributedOnAll \in [Cpu -> Nat] /\ AttributedOnAll' \in [Cpu -> Nat]
      /\ FiledOn \in [Cpu -> Nat] /\ FiledOn' \in [Cpu -> Nat]
      /\ Unread \in SUBSET Cpu /\ Unread' \in SUBSET Cpu
  <2>1. AttributedOnAll \in [Cpu -> Nat] /\ FiledOn \in [Cpu -> Nat]
    BY <1>1, CountedFirst
  <2>2. AttributedOnAll' \in [Cpu -> Nat] /\ FiledOn' \in [Cpu -> Nat]
    <3>1. TypeOK' /\ FiledIsCounted'
      BY <1>1 DEF KernelInv, ConservationInv
    <3>2. ASSUME NEW c \in Cpu PROVE AttributedOn(c)' \in Nat
      <4>1. \A t \in Site : [s \in Site |-> probe_site_loss'[s][c]][t] \in Nat
        BY <3>1, <3>2 DEF TypeOK
      <4> QED
        BY <4>1, SumInNat, SiteAssumption DEF AttributedOn
    <3>3. ASSUME NEW c \in Cpu PROVE FiledOn'[c] \in Nat
      BY <3>1, <3>3 DEF TypeOK, FiledIsCounted, FiledOn, FilingOn
    <3>4. FiledOn' = [c \in Cpu |-> FiledOn'[c]]
      BY DEF FiledOn
    <3> QED
      BY <3>2, <3>3, <3>4 DEF AttributedOnAll
  <2>3. Unread \in SUBSET Cpu /\ Unread' \in SUBSET Cpu
    BY <1>1 DEF LoopInv, TodoFits, Unread
  <2> QED
    BY <2>1, <2>2, <2>3
<1>6. CASE UNCHANGED sessionVars
  <2>1. Grows(AttributedOnAll, AttributedOnAll', Cpu) /\ Grows(FiledOn, FiledOn', Cpu)
    BY <1>1, SessionStepsKernel, ExplainedGrows
  <2>2. Unread' = Unread /\ UNCHANGED <<phase, sample>>
    BY <1>6 DEF sessionVars, Unread
  <2>3. /\ SumOver(AttributedOnAll, Unread) \in Nat /\ SumOver(AttributedOnAll', Unread) \in Nat
        /\ SumOver(AttributedOnAll, Unread) <= SumOver(AttributedOnAll', Unread)
        /\ SumOver(FiledOn, Unread) \in Nat /\ SumOver(FiledOn', Unread) \in Nat
        /\ SumOver(FiledOn, Unread) <= SumOver(FiledOn', Unread)
    BY <1>5, <2>1, CpuSumGrows
  <2>4. SumProbes(sample)' = SumProbes(sample) /\ SumSkbs(sample)' = SumSkbs(sample)
    BY <2>2 DEF SumProbes, SumSkbs
  <2> QED
    BY <1>3, <1>4, <2>2, <2>3, <2>4 DEF BreakdownInv, BreakdownSoFar
<1>7. ASSUME phase' \notin {"stats", "recursion", "footer", "done"} PROVE BreakdownSoFar'
  BY <1>7 DEF BreakdownSoFar
<1>8. CASE Elsewhere \/ SamplingStarts \/ FinishRotation
  BY <1>7, <1>8 DEF Elsewhere, SamplingStarts, StartSampling, FinishRotation, Sampling
<1>9. ASSUME NEW s \in Site, SampleProbe(s) PROVE BreakdownSoFar'
  BY <1>7, <1>9 DEF SampleProbe
<1>10. CASE ProbesRead
  BY <1>7, <1>10 DEF ProbesRead
<1>11. ASSUME NEW k \in Key, SampleSkb(k) PROVE BreakdownSoFar'
  BY <1>7, <1>11 DEF SampleSkb
<1>12. ASSUME UNCHANGED kernelVars
       PROVE  AttributedOnAll' = AttributedOnAll /\ FiledOn' = FiledOn
  BY <1>12 DEF kernelVars, telemetry, AttributedOnAll, AttributedOn, FiledOn, FilingOn
<1>13. CASE SkbsRead
  <2>1. UNCHANGED <<kernelVars, sample>> /\ phase = "skbs" /\ phase' = "stats" /\ todo' = Cpu
    BY <1>13 DEF SkbsRead
  <2>2. Unread = Cpu /\ Unread' = Cpu
    BY <2>1 DEF Unread
  <2>3. CountersCover(sample, reserve_failures, unattributed_reserve_failures,
                      unattributed_skb_losses, {})
    <3>1. Cpu \ Unread = {}
      BY <2>2
    <3> QED
      BY <1>1, <3>1 DEF CoverInv, SampleIsCovered
  <2>4. /\ sample.kernel_unattributed_reserve_failures <= 0
        /\ sample.kernel_skb_loss_unattributed <= 0
    BY <2>3, SumEmpty DEF CountersCover
  <2>5. SumOver(AttributedOnAll, Cpu) \in Nat /\ SumOver(FiledOn, Cpu) \in Nat
    BY <1>5, SumInNat, CpuAssumption
  <2>6. SumProbes(sample)' = SumProbes(sample) /\ SumSkbs(sample)' = SumSkbs(sample)
    BY <2>1 DEF SumProbes, SumSkbs
  <2>7. AttributedOnAll' = AttributedOnAll /\ FiledOn' = FiledOn
    BY <1>12, <2>1
  <2> QED
    BY <1>3, <1>4, <2>1, <2>2, <2>4, <2>5, <2>6, <2>7 DEF BreakdownSoFar
<1>14. ASSUME NEW c \in Cpu, SampleCpu(c) PROVE BreakdownSoFar'
  <2>1. c \in Unread /\ Unread' = Unread \ {c}
    BY <1>1, <1>14, CpuIsRead
  <2>2. /\ phase = "stats"
        /\ sample' = [sample EXCEPT
             !.kernel_reserve_failures = @ + reserve_failures[c],
             !.kernel_unattributed_reserve_failures = @ + unattributed_reserve_failures[c],
             !.kernel_skb_loss_unattributed = @ + unattributed_skb_losses[c]]
        /\ UNCHANGED kernelVars
    BY <1>14 DEF SampleCpu
  <2>3. /\ sample'.kernel_reserve_failures = sample.kernel_reserve_failures + reserve_failures[c]
        /\ sample'.kernel_unattributed_reserve_failures
             = sample.kernel_unattributed_reserve_failures + unattributed_reserve_failures[c]
        /\ sample'.kernel_skb_loss_unattributed
             = sample.kernel_skb_loss_unattributed + unattributed_skb_losses[c]
        /\ sample'.kernel_loss_by_probe = sample.kernel_loss_by_probe
        /\ sample'.kernel_loss_by_skb = sample.kernel_loss_by_skb
    BY <1>2, <2>2 DEF Reliability
  <2>4. SumProbes(sample') = SumProbes(sample) /\ SumSkbs(sample') = SumSkbs(sample)
    BY <2>3 DEF SumProbes, SumSkbs
  <2>5. IsFiniteSet(Unread)
    BY <1>5, CpuAssumption, FS_Subset
  <2>6. /\ SumOver(AttributedOnAll, Unread)
             = AttributedOnAll[c] + SumOver(AttributedOnAll, Unread \ {c})
        /\ SumOver(FiledOn, Unread) = FiledOn[c] + SumOver(FiledOn, Unread \ {c})
    BY <1>5, <2>1, <2>5, SumTake
  <2>7. SumOver(AttributedOnAll, Unread \ {c}) \in Nat /\ SumOver(FiledOn, Unread \ {c}) \in Nat
    <3>1. Unread \ {c} \in SUBSET Cpu
      BY <1>5
    <3> QED
      BY <1>5, <3>1, CpuSumGrows DEF Grows
  <2>8. /\ AttributedOnAll[c] + unattributed_reserve_failures[c] <= reserve_failures[c]
        /\ FiledOn[c] + unattributed_skb_losses[c] <= reserve_failures[c]
        /\ AttributedOnAll[c] \in Nat /\ FiledOn[c] \in Nat
        /\ reserve_failures[c] \in Nat /\ unattributed_reserve_failures[c] \in Nat
        /\ unattributed_skb_losses[c] \in Nat
    BY <1>1, <1>5, CountedFirst, TableTypes DEF LoopInv, SessionTypeOK
  <2>9. /\ SumProbes(sample) + sample.kernel_unattributed_reserve_failures
             <= sample.kernel_reserve_failures + SumOver(AttributedOnAll, Unread)
        /\ SumSkbs(sample) + sample.kernel_skb_loss_unattributed
             <= sample.kernel_reserve_failures + SumOver(FiledOn, Unread)
    BY <2>2 DEF BreakdownInv, BreakdownSoFar
  <2>10. /\ SumProbes(sample') + sample'.kernel_unattributed_reserve_failures
             <= sample'.kernel_reserve_failures + SumOver(AttributedOnAll, Unread \ {c})
         /\ SumSkbs(sample') + sample'.kernel_skb_loss_unattributed
             <= sample'.kernel_reserve_failures + SumOver(FiledOn, Unread \ {c})
    BY <1>3, <1>4, <2>3, <2>4, <2>6, <2>7, <2>8, <2>9
  <2> QED
    BY <1>12, <2>1, <2>2, <2>10 DEF BreakdownSoFar, SumProbes, SumSkbs
<1>15. CASE SampleRecursion \/ Finish
  <2>1. /\ UNCHANGED kernelVars
        /\ phase \in {"recursion", "footer"} /\ phase' \in {"footer", "done"}
        /\ sample' = sample \/ sample' = [sample EXCEPT !.kernel_recursion_misses = recursion_misses]
    BY <1>15 DEF SampleRecursion, Finish
  <2>2. Unread = {} /\ Unread' = {}
    BY <2>1 DEF Unread
  <2>3. /\ sample'.kernel_reserve_failures = sample.kernel_reserve_failures
        /\ sample'.kernel_unattributed_reserve_failures
             = sample.kernel_unattributed_reserve_failures
        /\ sample'.kernel_skb_loss_unattributed = sample.kernel_skb_loss_unattributed
        /\ sample'.kernel_loss_by_probe = sample.kernel_loss_by_probe
        /\ sample'.kernel_loss_by_skb = sample.kernel_loss_by_skb
    BY <1>2, <2>1 DEF Reliability
  <2>4. AttributedOnAll' = AttributedOnAll /\ FiledOn' = FiledOn
    BY <1>12, <2>1
  <2> QED
    BY <2>1, <2>2, <2>3, <2>4 DEF BreakdownInv, BreakdownSoFar, SumProbes, SumSkbs
<1> QED
  BY <1>6, <1>8, <1>9, <1>10, <1>11, <1>13, <1>14, <1>15, SessionStepKinds DEF SampleStep

\* Read to the end, no CPU is left to explain anything.
LEMMA BreakdownInvImplies == BreakdownInv => BreakdownWithinTotal
<1> SUFFICES ASSUME BreakdownInv, phase \in {"footer", "done"}
             PROVE  /\ SumProbes(sample) + sample.kernel_unattributed_reserve_failures
                         <= sample.kernel_reserve_failures
                    /\ SumSkbs(sample) + sample.kernel_skb_loss_unattributed
                         <= sample.kernel_reserve_failures
  BY DEF BreakdownWithinTotal
<1>1. Unread = {}
  BY DEF Unread
<1>2. SumOver(AttributedOnAll, Unread) = 0 /\ SumOver(FiledOn, Unread) = 0
  BY <1>1, SumEmpty
<1>3. sample.kernel_reserve_failures \in Nat
  BY DEF BreakdownInv, CoverInv, LoopInv, SessionTypeOK, Reliability
<1> QED
  BY <1>2, <1>3 DEF BreakdownInv, BreakdownSoFar

\* A session starts outside any sampling.
LEMMA BreakdownInvInit == SessionInit => BreakdownInv
BY CoverInvInit DEF SessionInit, BreakdownInv, BreakdownSoFar

\* In every footer, and in every finished capture, the losses broken down by
\* probe and those broken down by packet, each with the counter of what could not
\* be attributed, stay within the total: however many CPUs fail between the reads
\* of probe_loss, skb_loss and stats, and however often a walk revisits a key.
THEOREM BreakdownHolds == SessionSpec => []BreakdownWithinTotal
BY BreakdownInvInit, BreakdownInvStep, BreakdownInvImplies, PTL DEF SessionSpec

-----------------------------------------------------------------------------
\* Losses that were settled when the sampling began.

\* An entry the walk under way has read, or has still to visit.
WillBeSeen(k) ==
  /\ skb_loss[k] > 0
  /\ \/ phase = "probes"
     \/ phase = "skbs" /\ k \in todo
     \/ sample.kernel_loss_by_skb[k] > 0

\* A CPU whose unfiled losses the totals hold, or will hold.
WillBeAdmitted(c) ==
  /\ unattributed_skb_losses[c] > 0
  /\ c \in Unread \/ sample.kernel_skb_loss_unattributed > 0

\* From the start of a sampling to its footer.
SettledIsRead ==
  phase \in Sampling \cup {"done"} =>
    \A p \in settled :
      \/ \E k \in Key : k.skb = p /\ WillBeSeen(k)
      \/ \E c \in Cpu : WillBeAdmitted(c)

\* The inductive invariant behind SettledLoss.
SettledInv == BreakdownInv /\ SettledIsRead

\* A packet whose losses the handlers are done with has an entry, or some CPU
\* has admitted that it could not file one.
LEMMA SettledIsHeld ==
  ASSUME KernelInv, NEW k \in Key, lost[k] > Cardinality(Filing(k))
  PROVE  skb_loss[k] > 0 \/ \E c \in Cpu : unattributed_skb_losses[c] > 0
<1>1. TypeOK /\ UnfiledIsAdmitted /\ lost[k] = skb_loss[k] + UnfiledBy(k) + Cardinality(Filing(k))
  BY DEF KernelInv, ConservationInv, LossIsConserved, LedgerConservation, LedgerInv
<1>2. Cardinality(Filing(k)) \in Nat
  <2>1. Filing(k) \in SUBSET Cpu
    BY DEF Filing
  <2> QED
    BY <2>1, CpuSets
<1>3. CASE \E c \in Cpu : unfiled[c][k] > 0
  BY <1>1, <1>3 DEF UnfiledIsAdmitted
<1>4. CASE \A c \in Cpu : ~(unfiled[c][k] > 0)
  <2> DEFINE f == [c \in Cpu |-> unfiled[c][k]]
  <2>1. \A c \in Cpu : f[c] = 0
    BY <1>1, <1>4 DEF TypeOK
  <2> HIDE DEF f
  <2>2. SumOver(f, Cpu) = 0
    BY <2>1, SumZero, CpuAssumption
  <2> USE DEF f
  <2>3. UnfiledBy(k) = 0
    BY <2>2 DEF UnfiledBy
  <2> QED
    BY <1>1, <1>2, <2>3 DEF TypeOK
<1> QED
  BY <1>3, <1>4

\* The walks visit what their tables hold when they start, and a count that was
\* read, or is still to be read, stays one or the other.
LEMMA SettledIsReadStep == BreakdownInv /\ SettledIsRead /\ [SessionNext]_vars => SettledIsRead'
<1> SUFFICES ASSUME BreakdownInv, SettledIsRead, [SessionNext]_vars PROVE SettledIsRead'
  OBVIOUS
<1>1. KernelInv /\ LoopInv /\ TypeOK /\ TypeOK' /\ NothingFalls
  BY SessionStepsKernel, TypeOKStep, TablesGrow
     DEF BreakdownInv, CoverInv, KernelInv, ConservationInv
<1>2. sample \in Reliability
  BY <1>1 DEF LoopInv, SessionTypeOK
<1>3. /\ \A k \in Key : /\ skb_loss[k] \in Nat /\ skb_loss'[k] \in Nat
                        /\ skb_loss[k] <= skb_loss'[k]
      /\ \A c \in Cpu : /\ unattributed_skb_losses[c] \in Nat
                        /\ unattributed_skb_losses'[c] \in Nat
                        /\ unattributed_skb_losses[c] <= unattributed_skb_losses'[c]
  BY <1>1 DEF TypeOK, NothingFalls, Grows
<1>4. /\ \A k \in Key : sample.kernel_loss_by_skb[k] \in Nat
      /\ sample.kernel_skb_loss_unattributed \in Nat
  BY <1>2 DEF Reliability
<1>5. ASSUME phase \in Sampling, UNCHANGED settled,
             \A k \in Key : WillBeSeen(k) => WillBeSeen(k)',
             \A c \in Cpu : WillBeAdmitted(c) => WillBeAdmitted(c)'
      PROVE  SettledIsRead'
  <2> SUFFICES ASSUME NEW p \in settled
               PROVE  \/ \E k \in Key : k.skb = p /\ WillBeSeen(k)'
                      \/ \E c \in Cpu : WillBeAdmitted(c)'
    BY <1>5 DEF SettledIsRead
  <2>1. \/ \E k \in Key : k.skb = p /\ WillBeSeen(k)
        \/ \E c \in Cpu : WillBeAdmitted(c)
    BY <1>5 DEF SettledIsRead
  <2> QED
    BY <1>5, <2>1
<1>6. CASE UNCHANGED sessionVars
  <2>1. UNCHANGED <<phase, todo, sample, settled>> /\ Unread' = Unread
    BY <1>6 DEF sessionVars, Unread
  <2>2. \A k \in Key : WillBeSeen(k) => WillBeSeen(k)'
    BY <1>3, <2>1 DEF WillBeSeen
  <2>3. \A c \in Cpu : WillBeAdmitted(c) => WillBeAdmitted(c)'
    BY <1>3, <2>1 DEF WillBeAdmitted
  <2> QED
    BY <2>1, <2>2, <2>3 DEF SettledIsRead
<1>7. CASE Elsewhere \/ FinishRotation
  BY <1>7 DEF Elsewhere, FinishRotation, SettledIsRead, Sampling
<1>8. CASE SamplingStarts
  <2>1. /\ UNCHANGED kernelVars /\ phase' = "probes"
        /\ settled' = {k.skb : k \in {l \in Key : lost[l] > Cardinality(Filing(l))}}
    BY <1>8 DEF SamplingStarts, StartSampling
  <2>2. Unread' = Cpu /\ skb_loss' = skb_loss /\ unattributed_skb_losses' = unattributed_skb_losses
    BY <2>1 DEF Unread, kernelVars, telemetry
  <2> SUFFICES ASSUME NEW k \in Key, lost[k] > Cardinality(Filing(k))
               PROVE  WillBeSeen(k)' \/ \E c \in Cpu : WillBeAdmitted(c)'
    BY <2>1 DEF SettledIsRead
  <2>3. skb_loss[k] > 0 \/ \E c \in Cpu : unattributed_skb_losses[c] > 0
    BY <1>1, SettledIsHeld
  <2> QED
    BY <2>1, <2>2, <2>3 DEF WillBeSeen, WillBeAdmitted
<1>9. ASSUME UNCHANGED kernelVars
      PROVE  skb_loss' = skb_loss /\ unattributed_skb_losses' = unattributed_skb_losses
  BY <1>9 DEF kernelVars, telemetry
<1>10. ASSUME NEW s \in Site, SampleProbe(s) PROVE SettledIsRead'
  <2>1. /\ phase = "probes" /\ phase' = "probes" /\ UNCHANGED <<kernelVars, settled>>
        /\ sample' = [sample EXCEPT !.kernel_loss_by_probe[s] = SumOver(probe_site_loss[s], Cpu)]
    BY <1>10 DEF SampleProbe
  <2>2. Unread' = Unread
    BY <2>1 DEF Unread
  <2>3. \A k \in Key : WillBeSeen(k) => WillBeSeen(k)'
    BY <1>9, <2>1 DEF WillBeSeen
  <2>4. \A c \in Cpu : WillBeAdmitted(c) => WillBeAdmitted(c)'
    BY <1>2, <1>9, <2>1, <2>2 DEF WillBeAdmitted, Reliability
  <2> QED
    BY <1>5, <2>1, <2>3, <2>4 DEF Sampling
<1>11. CASE ProbesRead
  <2>1. /\ phase = "probes" /\ phase' = "skbs" /\ todo' = Filed
        /\ UNCHANGED <<kernelVars, sample, settled>>
    BY <1>11 DEF ProbesRead
  <2>2. Unread' = Unread
    BY <2>1 DEF Unread
  <2>3. \A k \in Key : WillBeSeen(k) => WillBeSeen(k)'
    BY <1>3, <1>9, <2>1 DEF WillBeSeen, Filed
  <2>4. \A c \in Cpu : WillBeAdmitted(c) => WillBeAdmitted(c)'
    BY <1>9, <2>1, <2>2 DEF WillBeAdmitted
  <2> QED
    BY <1>5, <2>1, <2>3, <2>4 DEF Sampling
<1>12. ASSUME NEW k \in Key, SampleSkb(k) PROVE SettledIsRead'
  <2>1. /\ phase = "skbs" /\ phase' = "skbs" /\ todo' = todo \ {k}
        /\ UNCHANGED <<kernelVars, settled>>
        /\ sample' = [sample EXCEPT !.kernel_loss_by_skb[k] = skb_loss[k]]
    BY <1>12 DEF SampleSkb
  <2>2. Unread' = Unread
    BY <2>1 DEF Unread
  <2>3. \A l \in Key : sample'.kernel_loss_by_skb[l]
                         = IF l = k THEN skb_loss[k] ELSE sample.kernel_loss_by_skb[l]
    BY <1>2, <2>1 DEF Reliability
  <2>4. \A l \in Key : WillBeSeen(l) => WillBeSeen(l)'
    BY <1>9, <2>1, <2>3 DEF WillBeSeen
  <2>5. \A c \in Cpu : WillBeAdmitted(c) => WillBeAdmitted(c)'
    BY <1>2, <1>9, <2>1, <2>2 DEF WillBeAdmitted, Reliability
  <2> QED
    BY <1>5, <2>1, <2>4, <2>5 DEF Sampling
<1>13. CASE SkbsRead
  <2>1. /\ phase = "skbs" /\ phase' = "stats" /\ todo = {} /\ todo' = Cpu
        /\ UNCHANGED <<kernelVars, sample, settled>>
    BY <1>13 DEF SkbsRead
  <2>2. Unread' = Unread
    BY <2>1 DEF Unread
  <2>3. \A k \in Key : WillBeSeen(k) => WillBeSeen(k)'
    BY <1>9, <2>1 DEF WillBeSeen
  <2>4. \A c \in Cpu : WillBeAdmitted(c) => WillBeAdmitted(c)'
    BY <1>9, <2>1, <2>2 DEF WillBeAdmitted
  <2> QED
    BY <1>5, <2>1, <2>3, <2>4 DEF Sampling
<1>14. ASSUME NEW c \in Cpu, SampleCpu(c) PROVE SettledIsRead'
  <2>1. /\ phase = "stats" /\ phase' \in {"stats", "recursion"}
        /\ UNCHANGED <<kernelVars, settled>>
        /\ sample' = [sample EXCEPT
             !.kernel_reserve_failures = @ + reserve_failures[c],
             !.kernel_unattributed_reserve_failures = @ + unattributed_reserve_failures[c],
             !.kernel_skb_loss_unattributed = @ + unattributed_skb_losses[c]]
    BY <1>14 DEF SampleCpu
  <2>2. Unread' = Unread \ {c}
    BY <1>1, <1>14, CpuIsRead
  <2>3. /\ sample'.kernel_loss_by_skb = sample.kernel_loss_by_skb
        /\ sample'.kernel_skb_loss_unattributed
             = sample.kernel_skb_loss_unattributed + unattributed_skb_losses[c]
    BY <1>2, <2>1 DEF Reliability
  <2>4. \A k \in Key : WillBeSeen(k) => WillBeSeen(k)'
    BY <1>9, <2>1, <2>3 DEF WillBeSeen
  <2>5. \A d \in Cpu : WillBeAdmitted(d) => WillBeAdmitted(d)'
    BY <1>3, <1>4, <1>9, <2>1, <2>2, <2>3 DEF WillBeAdmitted
  <2> QED
    BY <1>5, <2>1, <2>4, <2>5 DEF Sampling
<1>15. CASE SampleRecursion \/ Finish
  <2>1. /\ phase \in {"recursion", "footer"} /\ phase' \in {"footer", "done"}
        /\ UNCHANGED <<kernelVars, settled>>
        /\ sample' = sample \/ sample' = [sample EXCEPT !.kernel_recursion_misses = recursion_misses]
    BY <1>15 DEF SampleRecursion, Finish
  <2>2. Unread' = Unread
    BY <2>1 DEF Unread
  <2>3. /\ sample'.kernel_loss_by_skb = sample.kernel_loss_by_skb
        /\ sample'.kernel_skb_loss_unattributed = sample.kernel_skb_loss_unattributed
    BY <1>2, <2>1 DEF Reliability
  <2>4. \A k \in Key : WillBeSeen(k) => WillBeSeen(k)'
    BY <1>9, <2>1, <2>3 DEF WillBeSeen
  <2>5. \A c \in Cpu : WillBeAdmitted(c) => WillBeAdmitted(c)'
    BY <1>9, <2>1, <2>2, <2>3 DEF WillBeAdmitted
  <2> QED
    BY <1>5, <2>1, <2>4, <2>5 DEF Sampling
<1> QED
  BY <1>6, <1>7, <1>8, <1>10, <1>11, <1>12, <1>13, <1>14, <1>15, SessionStepKinds DEF SampleStep

\* Read to the end, what was seen or admitted is in the footer, under the total.
LEMMA SettledInvImplies == SettledInv => SettledLossIsNeverCleared
<1> SUFFICES ASSUME SettledInv, phase \in {"footer", "done"}, NEW p \in settled
             PROVE  skb_evidence(sample, p) # "Complete" /\ ~complete(sample)
  BY DEF SettledLossIsNeverCleared, FooterRead
<1>1. sample \in Reliability /\ BreakdownWithinTotal /\ settled \subseteq Skb
  BY BreakdownInvImplies DEF SettledInv, BreakdownInv, CoverInv, LoopInv, SessionTypeOK
<1>2. /\ \A k \in Key : sample.kernel_loss_by_skb[k] \in Nat
      /\ sample.kernel_skb_loss_unattributed \in Nat
      /\ sample.kernel_reserve_failures \in Nat
  BY <1>1 DEF Reliability
<1>3. SumSkbs(sample) \in Nat
        /\ SumSkbs(sample) + sample.kernel_skb_loss_unattributed <= sample.kernel_reserve_failures
  <2>1. SumSkbs(sample) \in Nat
    BY <1>2, SumInNat, KeysFinite DEF SumSkbs
  <2> QED
    BY <1>1, <2>1 DEF BreakdownWithinTotal
<1>4. \/ \E k \in Key : k.skb = p /\ sample.kernel_loss_by_skb[k] > 0
      \/ sample.kernel_skb_loss_unattributed > 0
  BY DEF SettledInv, SettledIsRead, Sampling, WillBeSeen, WillBeAdmitted, Unread
<1>5. CASE sample.kernel_skb_loss_unattributed > 0
  <2>1. sample.kernel_reserve_failures # 0
    BY <1>2, <1>3, <1>5
  <2> QED
    BY <1>2, <1>5, <2>1 DEF skb_evidence, loss_is_fully_attributed, complete
<1>6. ASSUME NEW k \in Key, k.skb = p, sample.kernel_loss_by_skb[k] > 0
      PROVE  skb_evidence(sample, p) # "Complete" /\ ~complete(sample)
  <2> DEFINE q == sample.kernel_loss_by_skb
             f == [s \in Site |-> q[[skb |-> p, site |-> s]]]
  <2>1. k.site \in Site /\ k = [skb |-> p, site |-> k.site]
    BY <1>6 DEF Key
  <2>2. \A s \in Site : [skb |-> p, site |-> s] \in Key
    BY <1>1 DEF Key
  <2>3. (\A s \in Site : f[s] \in Nat) /\ f[k.site] > 0
    BY <1>2, <1>6, <2>1, <2>2
  <2>4. SumOver(q, Key) = q[k] + SumOver(q, Key \ {k}) /\ SumOver(q, Key \ {k}) \in Nat
    <3>1. IsFiniteSet(Key \ {k})
      BY KeysFinite, FS_Subset
    <3>2. \A l \in Key : q[l] \in Nat
      BY <1>2
    <3> HIDE DEF q
    <3> QED
      BY <3>1, <3>2, SumTake, SumInNat, KeysFinite
  <2>5. SumOver(f, Site) = f[k.site] + SumOver(f, Site \ {k.site})
        /\ SumOver(f, Site \ {k.site}) \in Nat
    <3>1. IsFiniteSet(Site \ {k.site})
      BY SiteAssumption, FS_Subset
    <3> HIDE DEF f
    <3> QED
      BY <2>1, <2>3, <3>1, SumTake, SumInNat, SiteAssumption
  <2>6. sample.kernel_reserve_failures # 0
    BY <1>2, <1>3, <1>6, <2>4 DEF SumSkbs
  <2>7. losses_for_skb(sample, p) # 0
    BY <2>1, <2>3, <2>5 DEF losses_for_skb
  <2> QED
    BY <2>6, <2>7 DEF skb_evidence, complete
<1> QED
  BY <1>4, <1>5, <1>6

\* A packet whose loss was filed, or found the table full, before the sampling
\* began is never declared complete by the footer, nor is its capture: for any
\* number of CPUs, packets and probes, however the walks and the handlers
\* interleave.
THEOREM SettledLoss == SessionSpec => []SettledLossIsNeverCleared
<1>1. SessionInit => SettledInv
  BY BreakdownInvInit DEF SessionInit, SettledInv, SettledIsRead, Sampling
<1>2. SettledInv /\ [SessionNext]_vars => SettledInv'
  BY BreakdownInvStep, SettledIsReadStep DEF SettledInv
<1> QED
  BY <1>1, <1>2, SettledInvImplies, PTL DEF SessionSpec
-----------------------------------------------------------------------------
\* Segment footers telescope.

\* What the sampling under way has read is past the last footer's checkpoint;
\* what it has not read yet it still has to visit.
SampleOvertakes ==
  /\ \A s \in Site :
       \/ reliability_checkpoint.kernel_loss_by_probe[s] <= sample.kernel_loss_by_probe[s]
       \/ phase = "probes" /\ s \in todo
  /\ \A k \in Key :
       \/ reliability_checkpoint.kernel_loss_by_skb[k] <= sample.kernel_loss_by_skb[k]
       \/ phase = "probes"
       \/ phase = "skbs" /\ k \in todo
  /\ reliability_checkpoint.kernel_reserve_failures
       <= sample.kernel_reserve_failures + SumOver(reserve_failures, Unread)
  /\ reliability_checkpoint.kernel_unattributed_reserve_failures
       <= sample.kernel_unattributed_reserve_failures
          + SumOver(unattributed_reserve_failures, Unread)
  /\ reliability_checkpoint.kernel_skb_loss_unattributed
       <= sample.kernel_skb_loss_unattributed + SumOver(unattributed_skb_losses, Unread)
  /\ phase = "footer" =>
       reliability_checkpoint.kernel_recursion_misses <= sample.kernel_recursion_misses

OvertakesInv == CoverInv /\ (phase \in Sampling => SampleOvertakes)

\* One CPU's share of a sum over CPUs.
LEMMA CpuTake ==
  ASSUME NEW f \in [Cpu -> Nat], NEW T \in SUBSET Cpu, NEW c \in T
  PROVE  /\ SumOver(f, T) = f[c] + SumOver(f, T \ {c})
         /\ SumOver(f, T) \in Nat /\ SumOver(f, T \ {c}) \in Nat /\ f[c] \in Nat
<1>1. IsFiniteSet(T) /\ IsFiniteSet(T \ {c}) /\ \A x \in T : f[x] \in Nat
  BY CpuAssumption, FS_Subset
<1> QED
  BY <1>1, SumTake, SumInNat

\* A walk starts with every key its table holds, so what it skips the last
\* footer did not hold either; every key and CPU it reads has only grown.
LEMMA OvertakesInvStep == OvertakesInv /\ [SessionNext]_vars => OvertakesInv'
<1> SUFFICES ASSUME OvertakesInv, [SessionNext]_vars, phase' \in Sampling PROVE SampleOvertakes'
  BY CoverInvStep DEF OvertakesInv
<1> DEFINE old == reliability_checkpoint
<1>1. CoverInv /\ LoopInv /\ TypeOK /\ TypeOK' /\ NothingFalls
  BY SessionStepsKernel, TypeOKStep, TablesGrow
     DEF OvertakesInv, CoverInv, KernelInv, ConservationInv
<1>2. sample \in Reliability /\ old \in Reliability
  BY <1>1 DEF LoopInv, SessionTypeOK
<1>3. /\ TablesCover(old, probe_site_loss, skb_loss, recursion_misses)
      /\ CountersCover(old, reserve_failures, unattributed_reserve_failures,
                       unattributed_skb_losses, Cpu)
  BY <1>1 DEF CoverInv, CheckpointIsCovered
<1>4. /\ old.kernel_reserve_failures \in Nat
      /\ old.kernel_unattributed_reserve_failures \in Nat
      /\ old.kernel_skb_loss_unattributed \in Nat
      /\ sample.kernel_reserve_failures \in Nat
      /\ sample.kernel_unattributed_reserve_failures \in Nat
      /\ sample.kernel_skb_loss_unattributed \in Nat
  BY <1>2 DEF Reliability
<1>5. /\ \A s \in Site : old.kernel_loss_by_probe[s] \in Nat
      /\ \A k \in Key : old.kernel_loss_by_skb[k] \in Nat /\ skb_loss[k] \in Nat
  BY <1>1, <1>2 DEF Reliability, TypeOK
<1>6. phase \in Sampling => SampleOvertakes
  BY DEF OvertakesInv
<1>7. ASSUME UNCHANGED kernelVars
      PROVE  UNCHANGED <<reserve_failures, unattributed_reserve_failures,
                         unattributed_skb_losses, probe_site_loss, skb_loss, recursion_misses>>
  BY <1>7 DEF kernelVars, telemetry
<1>8. CASE UNCHANGED sessionVars
  <2>1. UNCHANGED <<phase, todo, sample, reliability_checkpoint>> /\ Unread' = Unread
    BY <1>8 DEF sessionVars, Unread
  <2>2. Unread \in SUBSET Cpu
    BY <1>1, UnreadCpus
  <2>3. /\ reserve_failures \in [Cpu -> Nat] /\ reserve_failures' \in [Cpu -> Nat]
        /\ Grows(reserve_failures, reserve_failures', Cpu)
        /\ unattributed_reserve_failures \in [Cpu -> Nat]
        /\ unattributed_reserve_failures' \in [Cpu -> Nat]
        /\ Grows(unattributed_reserve_failures, unattributed_reserve_failures', Cpu)
        /\ unattributed_skb_losses \in [Cpu -> Nat] /\ unattributed_skb_losses' \in [Cpu -> Nat]
        /\ Grows(unattributed_skb_losses, unattributed_skb_losses', Cpu)
    BY <1>1 DEF TypeOK, NothingFalls
  <2>4. /\ SumOver(reserve_failures, Unread) \in Nat /\ SumOver(reserve_failures', Unread) \in Nat
        /\ SumOver(reserve_failures, Unread) <= SumOver(reserve_failures', Unread)
    BY <2>2, <2>3, CpuSumGrows
  <2>5. /\ SumOver(unattributed_reserve_failures, Unread) \in Nat
        /\ SumOver(unattributed_reserve_failures', Unread) \in Nat
        /\ SumOver(unattributed_reserve_failures, Unread)
             <= SumOver(unattributed_reserve_failures', Unread)
    BY <2>2, <2>3, CpuSumGrows
  <2>6. /\ SumOver(unattributed_skb_losses, Unread) \in Nat
        /\ SumOver(unattributed_skb_losses', Unread) \in Nat
        /\ SumOver(unattributed_skb_losses, Unread) <= SumOver(unattributed_skb_losses', Unread)
    BY <2>2, <2>3, CpuSumGrows
  <2>7. SampleOvertakes
    BY <1>6, <2>1
  <2> QED
    BY <1>4, <2>1, <2>4, <2>5, <2>6, <2>7 DEF SampleOvertakes
<1>9. CASE Elsewhere \/ FinishRotation \/ Finish
  BY <1>9 DEF Elsewhere, FinishRotation, Finish, Sampling
<1>10. CASE SamplingStarts
  <2>1. /\ UNCHANGED kernelVars /\ phase' = "probes" /\ todo' = KnownSites
        /\ sample' = DefaultReliability /\ old' = old
    BY <1>10 DEF SamplingStarts, StartSampling
  <2>2. Unread' = Cpu
    BY <2>1 DEF Unread
  <2>3. ASSUME NEW s \in Site, s \notin KnownSites
        PROVE  old.kernel_loss_by_probe[s] <= 0
    <3>1. \A c \in Cpu : probe_site_loss[s][c] = 0
      BY <2>3 DEF KnownSites
    <3>2. SumOver(probe_site_loss[s], Cpu) = 0
      BY <3>1, SumZero, CpuAssumption
    <3> QED
      BY <1>3, <3>2 DEF TablesCover
  <2>4. \A s \in Site : \/ old.kernel_loss_by_probe[s] <= DefaultReliability.kernel_loss_by_probe[s]
                        \/ s \in KnownSites
    BY <2>3 DEF DefaultReliability
  <2>5. /\ SumOver(reserve_failures, Cpu) \in Nat
        /\ SumOver(unattributed_reserve_failures, Cpu) \in Nat
        /\ SumOver(unattributed_skb_losses, Cpu) \in Nat
    BY <1>1, SumInNat, CpuAssumption DEF TypeOK
  <2>6. /\ old.kernel_reserve_failures
             <= DefaultReliability.kernel_reserve_failures + SumOver(reserve_failures, Cpu)
        /\ old.kernel_unattributed_reserve_failures
             <= DefaultReliability.kernel_unattributed_reserve_failures
                + SumOver(unattributed_reserve_failures, Cpu)
        /\ old.kernel_skb_loss_unattributed
             <= DefaultReliability.kernel_skb_loss_unattributed
                + SumOver(unattributed_skb_losses, Cpu)
    BY <1>3, <1>4, <2>5 DEF CountersCover, DefaultReliability
  <2> QED
    BY <1>7, <2>1, <2>2, <2>4, <2>6 DEF SampleOvertakes
<1>11. ASSUME SampleOvertakes, UNCHANGED kernelVars, old' = old, Unread' = Unread,
              sample'.kernel_reserve_failures = sample.kernel_reserve_failures,
              sample'.kernel_unattributed_reserve_failures
                = sample.kernel_unattributed_reserve_failures,
              sample'.kernel_skb_loss_unattributed = sample.kernel_skb_loss_unattributed,
              \A s \in Site : \/ old.kernel_loss_by_probe[s] <= sample'.kernel_loss_by_probe[s]
                              \/ phase' = "probes" /\ s \in todo',
              \A k \in Key : \/ old.kernel_loss_by_skb[k] <= sample'.kernel_loss_by_skb[k]
                             \/ phase' = "probes"
                             \/ phase' = "skbs" /\ k \in todo',
              phase' = "footer" => old.kernel_recursion_misses <= sample'.kernel_recursion_misses
       PROVE  SampleOvertakes'
  BY <1>7, <1>11 DEF SampleOvertakes
<1>12. ASSUME NEW s \in Site, SampleProbe(s) PROVE SampleOvertakes'
  <2>1. /\ phase = "probes" /\ phase' = "probes" /\ UNCHANGED kernelVars /\ old' = old
        /\ todo' = todo \ {s}
        /\ sample' = [sample EXCEPT !.kernel_loss_by_probe[s] = SumOver(probe_site_loss[s], Cpu)]
    BY <1>12 DEF SampleProbe
  <2>2. SampleOvertakes /\ Unread' = Unread
    BY <1>6, <2>1 DEF Sampling, Unread
  <2>3. /\ sample'.kernel_reserve_failures = sample.kernel_reserve_failures
        /\ sample'.kernel_unattributed_reserve_failures
             = sample.kernel_unattributed_reserve_failures
        /\ sample'.kernel_skb_loss_unattributed = sample.kernel_skb_loss_unattributed
        /\ \A t \in Site : sample'.kernel_loss_by_probe[t]
             = IF t = s THEN SumOver(probe_site_loss[s], Cpu) ELSE sample.kernel_loss_by_probe[t]
    BY <1>2, <2>1 DEF Reliability
  <2>4. \A t \in Site : \/ old.kernel_loss_by_probe[t] <= sample'.kernel_loss_by_probe[t]
                        \/ t \in todo'
    BY <1>3, <2>1, <2>2, <2>3 DEF TablesCover, SampleOvertakes
  <2> QED
    BY <1>11, <2>1, <2>2, <2>3, <2>4
<1>13. CASE ProbesRead
  <2>1. /\ phase = "probes" /\ phase' = "skbs" /\ UNCHANGED <<kernelVars, sample>> /\ old' = old
        /\ todo = {} /\ todo' = Filed
    BY <1>13 DEF ProbesRead
  <2>2. SampleOvertakes /\ Unread' = Unread
    BY <1>6, <2>1 DEF Sampling, Unread
  <2>3. \A s \in Site : old.kernel_loss_by_probe[s] <= sample.kernel_loss_by_probe[s]
    BY <2>1, <2>2 DEF SampleOvertakes
  <2>4. \A k \in Key : \/ old.kernel_loss_by_skb[k] <= sample.kernel_loss_by_skb[k]
                       \/ k \in Filed
    BY <1>2, <1>3, <1>5 DEF TablesCover, Filed, Reliability
  <2> QED
    BY <1>11, <2>1, <2>2, <2>3, <2>4
<1>14. ASSUME NEW k \in Key, SampleSkb(k) PROVE SampleOvertakes'
  <2>1. /\ phase = "skbs" /\ phase' = "skbs" /\ UNCHANGED kernelVars /\ old' = old
        /\ todo' = todo \ {k}
        /\ sample' = [sample EXCEPT !.kernel_loss_by_skb[k] = skb_loss[k]]
    BY <1>14 DEF SampleSkb
  <2>2. SampleOvertakes /\ Unread' = Unread
    BY <1>6, <2>1 DEF Sampling, Unread
  <2>3. /\ sample'.kernel_reserve_failures = sample.kernel_reserve_failures
        /\ sample'.kernel_unattributed_reserve_failures
             = sample.kernel_unattributed_reserve_failures
        /\ sample'.kernel_skb_loss_unattributed = sample.kernel_skb_loss_unattributed
        /\ sample'.kernel_loss_by_probe = sample.kernel_loss_by_probe
        /\ \A l \in Key : sample'.kernel_loss_by_skb[l]
             = IF l = k THEN skb_loss[k] ELSE sample.kernel_loss_by_skb[l]
    BY <1>2, <2>1 DEF Reliability
  <2>4. \A l \in Key : \/ old.kernel_loss_by_skb[l] <= sample'.kernel_loss_by_skb[l]
                       \/ l \in todo'
    BY <1>3, <2>1, <2>2, <2>3 DEF TablesCover, SampleOvertakes
  <2>5. \A s \in Site : old.kernel_loss_by_probe[s] <= sample'.kernel_loss_by_probe[s]
    BY <2>1, <2>2, <2>3 DEF SampleOvertakes
  <2> QED
    BY <1>11, <2>1, <2>2, <2>3, <2>4, <2>5
<1>15. CASE SkbsRead
  <2>1. /\ phase = "skbs" /\ phase' = "stats" /\ UNCHANGED <<kernelVars, sample>> /\ old' = old
        /\ todo = {} /\ todo' = Cpu
    BY <1>15 DEF SkbsRead
  <2>2. SampleOvertakes /\ Unread' = Unread
    BY <1>6, <2>1 DEF Sampling, Unread
  <2> QED
    BY <1>11, <2>1, <2>2 DEF SampleOvertakes
<1>16. ASSUME NEW c \in Cpu, SampleCpu(c) PROVE SampleOvertakes'
  <2>1. c \in Unread /\ Unread' = Unread \ {c} /\ Unread \in SUBSET Cpu
    BY <1>1, <1>16, CpuIsRead
  <2>2. /\ phase = "stats" /\ phase' \in {"stats", "recursion"} /\ UNCHANGED kernelVars /\ old' = old
        /\ sample' = [sample EXCEPT
             !.kernel_reserve_failures = @ + reserve_failures[c],
             !.kernel_unattributed_reserve_failures = @ + unattributed_reserve_failures[c],
             !.kernel_skb_loss_unattributed = @ + unattributed_skb_losses[c]]
    BY <1>16 DEF SampleCpu
  <2>3. SampleOvertakes
    BY <1>6, <2>2 DEF Sampling
  <2>4. /\ sample'.kernel_reserve_failures = sample.kernel_reserve_failures + reserve_failures[c]
        /\ sample'.kernel_unattributed_reserve_failures
             = sample.kernel_unattributed_reserve_failures + unattributed_reserve_failures[c]
        /\ sample'.kernel_skb_loss_unattributed
             = sample.kernel_skb_loss_unattributed + unattributed_skb_losses[c]
        /\ sample'.kernel_loss_by_probe = sample.kernel_loss_by_probe
        /\ sample'.kernel_loss_by_skb = sample.kernel_loss_by_skb
    BY <1>2, <2>2 DEF Reliability
  <2>5. /\ reserve_failures \in [Cpu -> Nat] /\ unattributed_reserve_failures \in [Cpu -> Nat]
        /\ unattributed_skb_losses \in [Cpu -> Nat]
    BY <1>1, TableTypes
  <2>6. old.kernel_reserve_failures
          <= sample'.kernel_reserve_failures + SumOver(reserve_failures, Unread \ {c})
    BY <1>4, <2>1, <2>3, <2>4, <2>5, CpuTake DEF SampleOvertakes
  <2>7. old.kernel_unattributed_reserve_failures
          <= sample'.kernel_unattributed_reserve_failures
             + SumOver(unattributed_reserve_failures, Unread \ {c})
    BY <1>4, <2>1, <2>3, <2>4, <2>5, CpuTake DEF SampleOvertakes
  <2>8. old.kernel_skb_loss_unattributed
          <= sample'.kernel_skb_loss_unattributed + SumOver(unattributed_skb_losses, Unread \ {c})
    BY <1>4, <2>1, <2>3, <2>4, <2>5, CpuTake DEF SampleOvertakes
  <2> QED
    BY <1>7, <2>1, <2>2, <2>3, <2>4, <2>6, <2>7, <2>8 DEF SampleOvertakes
<1>17. CASE SampleRecursion
  <2>1. /\ phase = "recursion" /\ phase' = "footer" /\ UNCHANGED kernelVars /\ old' = old
        /\ sample' = [sample EXCEPT !.kernel_recursion_misses = recursion_misses]
    BY <1>17 DEF SampleRecursion
  <2>2. SampleOvertakes /\ Unread' = Unread
    BY <1>6, <2>1 DEF Sampling, Unread
  <2>3. /\ sample'.kernel_reserve_failures = sample.kernel_reserve_failures
        /\ sample'.kernel_unattributed_reserve_failures
             = sample.kernel_unattributed_reserve_failures
        /\ sample'.kernel_skb_loss_unattributed = sample.kernel_skb_loss_unattributed
        /\ sample'.kernel_loss_by_probe = sample.kernel_loss_by_probe
        /\ sample'.kernel_loss_by_skb = sample.kernel_loss_by_skb
        /\ sample'.kernel_recursion_misses = recursion_misses
    BY <1>2, <2>1 DEF Reliability
  <2>4. old.kernel_recursion_misses <= sample'.kernel_recursion_misses
    BY <1>3, <2>3 DEF TablesCover
  <2> QED
    BY <1>11, <2>1, <2>2, <2>3, <2>4 DEF SampleOvertakes
<1> QED
  BY <1>8, <1>9, <1>10, <1>12, <1>13, <1>14, <1>15, <1>16, <1>17, SessionStepKinds DEF SampleStep

\* At the footer every count of the sample is past the checkpoint's.
LEMMA FooterOvertakes ==
  ASSUME OvertakesInv, phase = "footer"
  PROVE  /\ reliability_checkpoint.kernel_reserve_failures <= sample.kernel_reserve_failures
         /\ reliability_checkpoint.kernel_unattributed_reserve_failures
              <= sample.kernel_unattributed_reserve_failures
         /\ reliability_checkpoint.kernel_skb_loss_unattributed
              <= sample.kernel_skb_loss_unattributed
         /\ reliability_checkpoint.kernel_recursion_misses <= sample.kernel_recursion_misses
         /\ \A s \in Site : reliability_checkpoint.kernel_loss_by_probe[s]
                              <= sample.kernel_loss_by_probe[s]
         /\ \A k \in Key : reliability_checkpoint.kernel_loss_by_skb[k]
                             <= sample.kernel_loss_by_skb[k]
<1>1. SampleOvertakes /\ Unread = {}
  BY DEF OvertakesInv, Sampling, Unread
<1>2. /\ SumOver(reserve_failures, Unread) = 0
      /\ SumOver(unattributed_reserve_failures, Unread) = 0
      /\ SumOver(unattributed_skb_losses, Unread) = 0
  BY <1>1, SumEmpty
<1>3. /\ sample.kernel_reserve_failures \in Nat
      /\ sample.kernel_unattributed_reserve_failures \in Nat
      /\ sample.kernel_skb_loss_unattributed \in Nat
  BY DEF OvertakesInv, CoverInv, LoopInv, SessionTypeOK, Reliability
<1> QED
  BY <1>1, <1>2, <1>3 DEF SampleOvertakes

\* The counts of a footer, one by one.
Counts ==
  {[r \in Reliability |-> r.kernel_reserve_failures],
   [r \in Reliability |-> r.kernel_unattributed_reserve_failures],
   [r \in Reliability |-> r.kernel_skb_loss_unattributed],
   [r \in Reliability |-> r.kernel_recursion_misses]}
  \cup {[r \in Reliability |-> r.kernel_loss_by_probe[s]] : s \in Site}
  \cup {[r \in Reliability |-> r.kernel_loss_by_skb[k]] : k \in Key}

\* Count f, added up over the segments written so far.
AddedUp(f) == SumOver([i \in DOMAIN segments |-> f[segments[i]]], DOMAIN segments)

\* The segments add up to the reading the last of them was written from.
SegmentsTelescope ==
  \A f \in Counts : AddedUp(f) = f[IF phase = "done" THEN sample ELSE reliability_checkpoint]

\* The inductive invariant behind SegmentsAddUp.
SegmentsInv == OvertakesInv /\ SegmentsTelescope

\* Counts are natural numbers, and a delta is their difference.
LEMMA CountOfDelta ==
  ASSUME NEW f \in Counts, NEW a \in Reliability, NEW b \in Reliability
  PROVE  /\ f[a] \in Nat /\ f[b] \in Nat
         /\ f[reliability_delta(a, b)] = Minus(f[a], f[b])
<1>1. reliability_delta(a, b) \in Reliability
  BY DeltaIsReliability
<1>2. CASE f \in {[r \in Reliability |-> r.kernel_reserve_failures],
                  [r \in Reliability |-> r.kernel_unattributed_reserve_failures],
                  [r \in Reliability |-> r.kernel_skb_loss_unattributed],
                  [r \in Reliability |-> r.kernel_recursion_misses]}
  BY <1>1, <1>2 DEF Reliability, reliability_delta
<1>3. ASSUME NEW s \in Site, f = [r \in Reliability |-> r.kernel_loss_by_probe[s]]
      PROVE  /\ f[a] \in Nat /\ f[b] \in Nat
             /\ f[reliability_delta(a, b)] = Minus(f[a], f[b])
  BY <1>1, <1>3 DEF Reliability, reliability_delta
<1>4. ASSUME NEW k \in Key, f = [r \in Reliability |-> r.kernel_loss_by_skb[k]]
      PROVE  /\ f[a] \in Nat /\ f[b] \in Nat
             /\ f[reliability_delta(a, b)] = Minus(f[a], f[b])
  BY <1>1, <1>4 DEF Reliability, reliability_delta
<1> QED
  BY <1>2, <1>3, <1>4 DEF Counts

\* One more segment adds its own count.
LEMMA AppendAddsUp ==
  ASSUME NEW f, NEW S, NEW q \in Seq(S), NEW e \in S,
         \A x \in S : f[x] \in Nat
  PROVE  SumOver([i \in DOMAIN Append(q, e) |-> f[Append(q, e)[i]]], DOMAIN Append(q, e))
           = SumOver([i \in DOMAIN q |-> f[q[i]]], DOMAIN q) + f[e]
<1> DEFINE n == Len(q) + 1
           h == [i \in DOMAIN Append(q, e) |-> f[Append(q, e)[i]]]
           g == [i \in DOMAIN q |-> f[q[i]]]
<1>1. DOMAIN Append(q, e) = 1..n /\ DOMAIN q = 1..Len(q) /\ Len(q) \in Nat
  OBVIOUS
<1>2. (1..n) \ {n} = 1..Len(q) /\ n \in 1..n
  BY <1>1
<1>3. \A i \in 1..Len(q) : Append(q, e)[i] = q[i] /\ q[i] \in S
  OBVIOUS
<1>4. Append(q, e)[n] = e
  OBVIOUS
<1>5. /\ \A i \in 1..Len(q) : h[i] = g[i] /\ h[i] \in Nat
      /\ h[n] = f[e] /\ h[n] \in Nat
  BY <1>1, <1>2, <1>3, <1>4
<1> HIDE DEF h, g
<1>6. IsFiniteSet(1..n) /\ IsFiniteSet(1..Len(q))
  BY <1>1, FS_Interval
<1>7. \A i \in 1..n : h[i] \in Nat
  BY <1>1, <1>5
<1>8. SumOver(h, 1..n) = h[n] + SumOver(h, 1..Len(q))
  <2>1. SumOver(h, 1..n) = h[n] + SumOver(h, (1..n) \ {n})
    BY <1>2, <1>6, <1>7, SumTake
  <2> QED
    BY <1>2, <2>1
<1>9. SumOver(h, 1..Len(q)) = SumOver(g, 1..Len(q)) /\ SumOver(h, 1..Len(q)) \in Nat
  BY <1>5, <1>6, SumSame, SumInNat
<1>10. SumOver(h, DOMAIN Append(q, e)) = SumOver(g, DOMAIN q) + f[e]
  BY <1>1, <1>5, <1>8, <1>9
<1> QED
  BY <1>10 DEF h, g

\* A footer adds the difference between its sample and the checkpoint, which the
\* saturating subtraction does not cut, and the sample becomes the checkpoint.
LEMMA SegmentsInvStep == SegmentsInv /\ [SessionNext]_vars => SegmentsInv'
<1> SUFFICES ASSUME SegmentsInv, [SessionNext]_vars PROVE SegmentsTelescope'
  BY OvertakesInvStep DEF SegmentsInv
<1>1. OvertakesInv /\ SegmentsTelescope /\ LoopInv
  BY DEF SegmentsInv, OvertakesInv, CoverInv
<1>2. /\ sample \in Reliability /\ reliability_checkpoint \in Reliability
      /\ segments \in Seq(Reliability)
  BY <1>1 DEF LoopInv, SessionTypeOK
<1>3. ASSUME UNCHANGED <<segments, reliability_checkpoint>>,
             \/ phase # "done" /\ phase' # "done"
             \/ phase' = phase /\ sample' = sample
      PROVE  SegmentsTelescope'
  BY <1>1, <1>3 DEF SegmentsTelescope, AddedUp
<1>4. CASE UNCHANGED sessionVars
  BY <1>3, <1>4 DEF sessionVars
<1>5. CASE Elsewhere \/ SamplingStarts
  BY <1>3, <1>5 DEF Elsewhere, SamplingStarts, StartSampling
<1>6. CASE SampleStep
  BY <1>3, <1>6 DEF SampleStep, SampleProbe, ProbesRead, SampleSkb, SkbsRead, SampleCpu,
                    SampleRecursion
<1>7. CASE FinishRotation \/ Finish
  <2> DEFINE delta == reliability_delta(sample, reliability_checkpoint)
  <2>1. /\ phase = "footer" /\ segments' = Append(segments, delta)
        /\ sample = IF phase' = "done" THEN sample' ELSE reliability_checkpoint'
    BY <1>7 DEF FinishRotation, Finish
  <2> SUFFICES ASSUME NEW f \in Counts PROVE AddedUp(f)' = f[sample]
    BY <2>1 DEF SegmentsTelescope
  <2>2. delta \in Reliability
    BY <1>2, DeltaIsReliability
  <2>3. \A r \in Reliability : f[r] \in Nat
    BY CountOfDelta
  <2>4. AddedUp(f)' = AddedUp(f) + f[delta]
    BY <1>2, <2>1, <2>2, <2>3, AppendAddsUp DEF AddedUp
  <2>5. f[reliability_checkpoint] <= f[sample]
    BY <1>1, <1>2, <2>1, FooterOvertakes DEF Counts
  <2>6. /\ f[sample] \in Nat /\ f[reliability_checkpoint] \in Nat
        /\ f[delta] = Minus(f[sample], f[reliability_checkpoint])
    BY <1>2, CountOfDelta
  <2>7. AddedUp(f) = f[reliability_checkpoint]
    BY <1>1, <2>1 DEF SegmentsTelescope
  <2> QED
    BY <2>4, <2>5, <2>6, <2>7 DEF Minus
<1> QED
  BY <1>4, <1>5, <1>6, <1>7, SessionStepKinds

\* Before the first footer both are zero.
LEMMA SegmentsInvInit == SessionInit => SegmentsInv
<1> SUFFICES ASSUME SessionInit PROVE SegmentsInv
  OBVIOUS
<1>1. OvertakesInv
  BY CoverInvInit DEF SessionInit, OvertakesInv, Sampling
<1>2. /\ segments = <<>> /\ phase = "top" /\ reliability_checkpoint = DefaultReliability
      /\ DefaultReliability \in Reliability
  BY DEF SessionInit, DefaultReliability, Reliability
<1>3. DOMAIN segments = {}
  BY <1>2
<1>4. ASSUME NEW f \in Counts PROVE AddedUp(f) = f[DefaultReliability]
  <2>1. AddedUp(f) = 0
    BY <1>3, SumEmpty DEF AddedUp
  <2>2. f[DefaultReliability] = 0
    BY <1>2 DEF Counts, DefaultReliability
  <2> QED
    BY <2>1, <2>2
<1> QED
  BY <1>1, <1>2, <1>4 DEF SegmentsInv, SegmentsTelescope

\* Each claim about the segments is about one of the counts.
LEMMA SegmentsInvImplies == SegmentsInv => SegmentsSumToCapture
<1> SUFFICES ASSUME SegmentsInv, phase = "done" PROVE SegmentsSumToCapture
  BY DEF SegmentsSumToCapture
<1>1. sample \in Reliability /\ \A i \in DOMAIN segments : segments[i] \in Reliability
  BY DEF SegmentsInv, OvertakesInv, CoverInv, LoopInv, SessionTypeOK
<1>2. ASSUME NEW f \in Counts
      PROVE  SumOver([i \in DOMAIN segments |-> f[segments[i]]], DOMAIN segments) = f[sample]
  BY DEF SegmentsInv, SegmentsTelescope, AddedUp
<1>3. SumOver([i \in DOMAIN segments |-> segments[i].kernel_reserve_failures], DOMAIN segments)
        = sample.kernel_reserve_failures
  <2> DEFINE f == [r \in Reliability |-> r.kernel_reserve_failures]
  <2>1. f \in Counts
    BY DEF Counts
  <2>2. /\ [i \in DOMAIN segments |-> f[segments[i]]]
             = [i \in DOMAIN segments |-> segments[i].kernel_reserve_failures]
        /\ f[sample] = sample.kernel_reserve_failures
    BY <1>1
  <2> HIDE DEF f
  <2> QED
    BY <1>2, <2>1, <2>2
<1>4. SumOver([i \in DOMAIN segments |-> segments[i].kernel_unattributed_reserve_failures],
              DOMAIN segments)
        = sample.kernel_unattributed_reserve_failures
  <2> DEFINE f == [r \in Reliability |-> r.kernel_unattributed_reserve_failures]
  <2>1. f \in Counts
    BY DEF Counts
  <2>2. /\ [i \in DOMAIN segments |-> f[segments[i]]]
             = [i \in DOMAIN segments |-> segments[i].kernel_unattributed_reserve_failures]
        /\ f[sample] = sample.kernel_unattributed_reserve_failures
    BY <1>1
  <2> HIDE DEF f
  <2> QED
    BY <1>2, <2>1, <2>2
<1>5. SumOver([i \in DOMAIN segments |-> segments[i].kernel_skb_loss_unattributed],
              DOMAIN segments)
        = sample.kernel_skb_loss_unattributed
  <2> DEFINE f == [r \in Reliability |-> r.kernel_skb_loss_unattributed]
  <2>1. f \in Counts
    BY DEF Counts
  <2>2. /\ [i \in DOMAIN segments |-> f[segments[i]]]
             = [i \in DOMAIN segments |-> segments[i].kernel_skb_loss_unattributed]
        /\ f[sample] = sample.kernel_skb_loss_unattributed
    BY <1>1
  <2> HIDE DEF f
  <2> QED
    BY <1>2, <2>1, <2>2
<1>6. SumOver([i \in DOMAIN segments |-> segments[i].kernel_recursion_misses], DOMAIN segments)
        = sample.kernel_recursion_misses
  <2> DEFINE f == [r \in Reliability |-> r.kernel_recursion_misses]
  <2>1. f \in Counts
    BY DEF Counts
  <2>2. /\ [i \in DOMAIN segments |-> f[segments[i]]]
             = [i \in DOMAIN segments |-> segments[i].kernel_recursion_misses]
        /\ f[sample] = sample.kernel_recursion_misses
    BY <1>1
  <2> HIDE DEF f
  <2> QED
    BY <1>2, <2>1, <2>2
<1>7. ASSUME NEW s \in Site
      PROVE  SumOver([i \in DOMAIN segments |-> segments[i].kernel_loss_by_probe[s]],
                     DOMAIN segments)
               = sample.kernel_loss_by_probe[s]
  <2> DEFINE f == [r \in Reliability |-> r.kernel_loss_by_probe[s]]
  <2>1. f \in Counts
    BY DEF Counts
  <2>2. /\ [i \in DOMAIN segments |-> f[segments[i]]]
             = [i \in DOMAIN segments |-> segments[i].kernel_loss_by_probe[s]]
        /\ f[sample] = sample.kernel_loss_by_probe[s]
    BY <1>1
  <2> HIDE DEF f
  <2> QED
    BY <1>2, <2>1, <2>2
<1>8. ASSUME NEW k \in Key
      PROVE  SumOver([i \in DOMAIN segments |-> segments[i].kernel_loss_by_skb[k]],
                     DOMAIN segments)
               = sample.kernel_loss_by_skb[k]
  <2> DEFINE f == [r \in Reliability |-> r.kernel_loss_by_skb[k]]
  <2>1. f \in Counts
    BY DEF Counts
  <2>2. /\ [i \in DOMAIN segments |-> f[segments[i]]]
             = [i \in DOMAIN segments |-> segments[i].kernel_loss_by_skb[k]]
        /\ f[sample] = sample.kernel_loss_by_skb[k]
    BY <1>1
  <2> HIDE DEF f
  <2> QED
    BY <1>2, <2>1, <2>2
<1> QED
  BY <1>3, <1>4, <1>5, <1>6, <1>7, <1>8 DEF SegmentsSumToCapture

\* Segment footers add up to the footer of the whole capture, field by field, for
\* any number of rotations: although two samplings may walk different keys, no
\* count falls behind the checkpoint and the saturating subtraction loses nothing.
THEOREM SegmentsAddUp == SessionSpec => []SegmentsSumToCapture
BY SegmentsInvInit, SegmentsInvStep, SegmentsInvImplies, PTL DEF SessionSpec
=============================================================================
