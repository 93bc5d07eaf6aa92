----------------------------- MODULE RecencyMap -----------------------------
(***************************************************************************)
(* What a bounded map promises: it holds at most `capacity` keys, and an   *)
(* insertion that would exceed that forgets the key inserted longest ago,  *)
(* where inserting a key again counts anew.                                *)
(***************************************************************************)
EXTENDS Naturals, FiniteSetsExt, Functions

CONSTANTS Key, Value, Capacity

VARIABLES
  contents,  \* contents[k]: k's value and the time of its last insertion
  clock,     \* insertions so far
  forgotten  \* keys forgotten so far

vars == <<contents, clock, forgotten>>

Init ==
  /\ contents = [k \in {} |-> 0]
  /\ clock = 0
  /\ forgotten = 0

With(k, v) ==
  [x \in DOMAIN contents \cup {k} |->
     IF x = k THEN [value |-> v, generation |-> clock + 1] ELSE contents[x]]

Insert(k, v) ==
  /\ clock' = clock + 1
  /\ IF Cardinality(DOMAIN With(k, v)) <= Capacity
       THEN /\ contents' = With(k, v)
            /\ forgotten' = forgotten
       ELSE /\ \E oldest \in DOMAIN contents :
                 /\ \A x \in DOMAIN contents \ {oldest} :
                      contents[oldest].generation < contents[x].generation
                 /\ contents' = Restrict(With(k, v), DOMAIN With(k, v) \ {oldest})
            /\ forgotten' = forgotten + 1

Remove(k) ==
  /\ contents' = Restrict(contents, DOMAIN contents \ {k})
  /\ UNCHANGED <<clock, forgotten>>

Next ==
  \E k \in Key : Remove(k) \/ \E v \in Value : Insert(k, v)

Spec == Init /\ [][Next]_vars
=============================================================================
