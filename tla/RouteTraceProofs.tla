--------------------------- MODULE RouteTraceProofs ---------------------------
(***************************************************************************)
(* For any plan, path and network, the footer's stop reason is what        *)
(* happened and the stream replays as it was written and no other way; for *)
(* any budgets and answers an enrichment accounts for what it lacks.       *)
(*                                                                         *)
(* TraceInv is inductive: the probes of a run are those due by its plan    *)
(* (CountersOK), whatever waits in the socket's queue was sent no farther  *)
(* than this hop (WireOK), and the records say how the run got where it is *)
(* (StreamOK).  ReplayInv adds that what was counted probe by probe is     *)
(* what a replay of the hops so far counts.  EnrichmentInv follows the     *)
(* addresses and the origins from the lists of what is to be looked up to  *)
(* the claims that are filed.                                              *)
(***************************************************************************)
EXTENDS RouteEnrichment, FiniteSetTheorems, SequenceTheorems, TLAPS

Phases == {"hop", "probe", "wait", "finish", "ended", "failed", "enrich", "enriched"}

Observation ==
  [sequence : Nat, outcome : ProbeOutcome, responder : Address \cup {None}]

Error == [sequence : Nat, icmp : Icmp \cup {"port_unreachable"}, responder : Address]

-----------------------------------------------------------------------------
\* The state of a run: a hop is probed only within the plan.
RunOK ==
  /\ plan \in ProbePlan
  /\ phase \in Phases
  /\ ttl \in 1..plan.max_hops + 1
  /\ phase \in {"probe", "wait"} => ttl <= plan.max_hops
  /\ observations \in Seq(Observation)
  /\ Len(observations) <= plan.probes_per_hop
  /\ phase = "wait" => Len(observations) < plan.probes_per_hop
  /\ {elapsed, destination_reached, duration_exhausted} \subseteq BOOLEAN

Reliability ==
  [planned_packets : Nat, attempted_packets : Nat, sent_packets : Nat, replies : Nat,
   timeouts : Nat, local_errors : Nat]

\* The probes due before this hop.
Due == (ttl - 1) * plan.probes_per_hop

\* The results so far.
Results == reliability.replies + reliability.timeouts + reliability.local_errors

\* Probes are numbered one by one, up to those due.
Numbered ==
  /\ sequence \in Nat
  /\ sequence <= plan.max_packets
  /\ phase = "hop" => sequence <= Due
  /\ phase = "probe" => sequence <= Due + Len(observations)
  /\ phase = "wait" => sequence <= Due + Len(observations) + 1

\* Each is counted, with its result if it has one.
Counted ==
  /\ reliability \in Reliability
  /\ reliability.planned_packets = plan.max_packets
  /\ reliability.attempted_packets = sequence
  /\ reliability.sent_packets <= sequence
  /\ Results <= sequence
  /\ phase = "wait" => Results + 1 <= sequence

CountersOK == Numbered /\ Counted

\* An answer, on its way or in the queue, is to a probe of this hop or of an earlier one.
WireOK ==
  /\ IsFiniteSet(in_flight)
  /\ in_flight \subseteq [sequence : 1..sequence, ttl : 1..plan.max_hops]
  /\ \A p \in in_flight : p.ttl <= ttl
  /\ queue \in Seq(Error)
  /\ Len(queue) + Cardinality(in_flight) <= reliability.sent_packets
  /\ \A i \in 1..Len(queue) : queue[i].responder = Target => ttl > Len(Path)

\* Record r is of the hop at distance d, as it was observed.
IsHop(r, d) ==
  /\ r.hop.probes \in Seq(Observation)
  /\ Len(r.hop.probes) \in 1..plan.probes_per_hop
  /\ r = Hop(trace_id, live_hop(trace_id, d, r.hop.probes))

\* The first n records after the start are of the first n hops.
FirstHops(n) == \A d \in 1..n : IsHop(records[d + 1], d)

\* The first n hops were probed to their end.
AllProbed(n) == \A d \in 1..n : Len(records[d + 1].hop.probes) = plan.probes_per_hop

\* Why a run of n hops stopped.
Concluded(n) ==
  /\ n \in 0..plan.max_hops
  /\ \A d \in 1..n : records[d + 1].hop.ttl = d
  /\ destination_reached => n > 0 /\ n > Len(Path)
  /\ ~destination_reached => IF duration_exhausted
                               THEN elapsed /\ ~(n = plan.max_hops /\ AllProbed(n))
                               ELSE n = plan.max_hops /\ AllProbed(n)

\* What is known of the run before a hop, ...
AtHop ==
  /\ Len(records) = ttl /\ FirstHops(ttl - 1)
  /\ ~destination_reached
  /\ IF duration_exhausted THEN elapsed /\ ~AllProbed(ttl - 1) ELSE AllProbed(ttl - 1)

\* ... while it is probed, ...
InHop ==
  /\ Len(records) = ttl /\ FirstHops(ttl - 1)
  /\ ~duration_exhausted /\ AllProbed(ttl - 1)
  /\ destination_reached => observations # <<>> /\ ttl > Len(Path)

\* ... when the last one was, ...
AtFinish ==
  Len(records) >= 1 /\ FirstHops(Len(records) - 1) /\ Concluded(Len(records) - 1)

\* ... and when the stream is written.
AtEnd ==
  /\ Len(records) >= 2 /\ Concluded(Len(records) - 2)
  /\ Last(records) = TraceEnd(trace_id, destination_reached, stop_reason, reliability)

StreamOK ==
  /\ records \in Seq(Range(records))
  /\ phase = "hop" => AtHop
  /\ phase \in {"probe", "wait"} => InHop
  /\ phase = "finish" => AtFinish
  /\ phase \in {"ended", "enrich", "enriched"} => AtEnd
  /\ phase \in {"ended", "enrich"} => FirstHops(Len(records) - 2)

TraceInv == RunOK /\ CountersOK /\ WireOK /\ StreamOK

-----------------------------------------------------------------------------
\* Record r is one a replay takes for the hop at distance d.
ReadsAs(r, d) ==
  /\ r.record = "hop" /\ r.trace_id = trace_id
  /\ r.hop.ttl = d /\ r.hop.probes \in Seq(Observation)
  /\ Len(r.hop.probes) \in 1..plan.probes_per_hop
  /\ r.hop.handle = hop_handle(trace_id, d, r.hop.probes)

\* A run that was not broken off; a hop is being probed.
Running == phase # "failed"
Probing == phase \in {"probe", "wait"}

\* How many hops the records hold, ...
Recorded == Len(records) - (IF phase \in {"ended", "enrich", "enriched"} THEN 2 ELSE 1)

\* ... and what was seen of all so far, the one being probed included.
Seen ==
  [d \in 1..Recorded + (IF Probing THEN 1 ELSE 0) |->
     IF d <= Recorded THEN records[d + 1].hop ELSE [probes |-> observations]]

\* The counters are those a replay of what was seen finds, a probe that is
\* waited for aside.
Tallied ==
  /\ IsFiniteSet(Probes(Seen))
  /\ reliability.attempted_packets =
       Cardinality(Probes(Seen)) + (IF phase = "wait" THEN 1 ELSE 0)
  /\ reliability.replies = Count(Seen, Replied)
  /\ reliability.timeouts = Count(Seen, {"timeout"})
  /\ reliability.local_errors = Count(Seen, {"local_error"})
  /\ destination_reached <=> Observed(Seen)

ReplayInv ==
  Running =>
    /\ records[1] = TraceStart(trace_id, plan)
    /\ \A d \in 1..Recorded : ReadsAs(records[d + 1], d)
    /\ Tallied

-----------------------------------------------------------------------------
\* The requests, counted against their budget.
Requests ==
  [lookups_attempted : Nat, lookups_succeeded : Nat, lookups_failed : Nat,
   lookup_budget_exhausted : BOOLEAN, duration_exhausted : BOOLEAN]

Budgeted ==
  /\ report \in Requests
  /\ report.lookups_attempted <= MaxLookups
  /\ report.lookups_attempted = report.lookups_succeeded + report.lookups_failed
  /\ expired \in BOOLEAN

\* A budget was given up for; or a verdict may be missing for that or a failure.
GaveUp == report.lookup_budget_exhausted \/ report.duration_exhausted
Excused == GaveUp \/ report.lookups_failed > 0

\* Every origin a set of claims names has its verdict, is still to be
\* validated, or lacks it for a reason.
OriginsDecided(claim_set, left) ==
  \A c \in claim_set : c.field = "origin_asn" =>
    \A asn \in Range(c.value) :
      \/ asn \in Range(left) \/ Excused
      \/ \E v \in claim_set : v.field = "rpki_state" /\ v.value[1] = asn

\* What is being learnt of an address, and what was of those before it.
ClaimsOK ==
  /\ address # None =>
       /\ info \in [prefix : Prefix \cup {None}, asns : Seq(Asn)]
       /\ OriginsDecided(claims, info.asns)
  /\ \A a \in DOMAIN claims_by_address : OriginsDecided(claims_by_address[a], <<>>)
  /\ \A o \in DOMAIN rpki_by_origin : rpki_by_origin[o] = None => report.lookups_failed > 0

\* Every eligible address was looked up, is, will be, or was given up.
AddressesOK ==
  /\ phase \in {"enrich", "enriched"} =>
       \A a \in Answered \cap Public :
         a \in todo \/ a = address \/ a \in DOMAIN claims_by_address \/ GaveUp
  /\ phase = "enriched" =>
       /\ todo = {} /\ address = None
       /\ \A i \in DOMAIN Hops(records) :
            Hops(records)[i].unresolved \cap Fields(Hops(records)[i].claims) = {}

EnrichmentInv == Budgeted /\ ClaimsOK /\ AddressesOK

-----------------------------------------------------------------------------
\* A plan's numbers.
LEMMA PlanTypes ==
  ASSUME plan \in ProbePlan
  PROVE  /\ plan.max_hops \in Nat \ {0} /\ plan.probes_per_hop \in Nat \ {0}
         /\ plan.max_packets \in Nat \ {0}
         /\ plan.max_packets = plan.max_hops * plan.probes_per_hop
BY RouteAssumption DEF ProbePlan

\* What the hops before one of b were due leaves room for its own probes.
LEMMA RoomForHop ==
  ASSUME NEW a \in Nat, NEW b \in Nat, NEW c \in Nat, a < b
  PROVE  a * c \in Nat /\ b * c \in Nat /\ (a + 1) * c = a * c + c /\ a * c + c <= b * c
<1>1. PICK d \in Nat : b = a + 1 + d
  <2>1. b - a - 1 \in Nat /\ b = a + 1 + (b - a - 1)
    OBVIOUS
  <2> QED
    BY <2>1
<1>2. b * c = a * c + c + d * c /\ d * c \in Nat /\ a * c \in Nat
  BY <1>1
<1> QED
  BY <1>2

\* An answer has an outcome that a footer counts as a reply.
LEMMA Classified ==
  ASSUME NEW icmp, NEW responder
  PROVE  classify_icmp(icmp, responder) \in ProbeOutcome
BY DEF classify_icmp, ProbeOutcome

\* Appending an observation.
LEMMA AppendObservation ==
  ASSUME NEW s \in Seq(Observation), NEW n \in Nat, NEW outcome \in ProbeOutcome,
         NEW responder \in Address \cup {None}
  PROVE  LET t == Append(s, ProbeObservation(n, outcome, responder))
         IN  t \in Seq(Observation) /\ Len(t) = Len(s) + 1 /\ t # <<>>
<1>1. ProbeObservation(n, outcome, responder) \in Observation
  BY DEF ProbeObservation, Observation
<1> QED
  BY <1>1

\* Appending a record.
LEMMA AppendRecord ==
  ASSUME NEW s, s \in Seq(Range(s)), NEW e
  PROVE  LET t == Append(s, e)
         IN /\ t \in Seq(Range(t)) /\ Len(s) \in Nat /\ Len(t) = Len(s) + 1
            /\ t[Len(s) + 1] = e /\ Last(t) = e
            /\ \A i \in 1..Len(s) : t[i] = s[i]
<1> DEFINE t == Append(s, e)
           S == Range(s) \cup {e}
<1>1. s \in Seq(S)
  OBVIOUS
<1>2. /\ t \in Seq(S) /\ Len(s) \in Nat /\ Len(t) = Len(s) + 1
      /\ t[Len(s) + 1] = e /\ \A i \in 1..Len(s) : t[i] = s[i]
      /\ DOMAIN t = 1..Len(t)
  BY <1>1
<1>3. \A i \in 1..Len(t) : t[i] \in Range(t)
  BY <1>2 DEF Range
<1>4. t \in Seq(Range(t))
  BY <1>2, <1>3
<1> QED
  BY <1>2, <1>4 DEF Last

-----------------------------------------------------------------------------
\* Each action keeps RunOK.
LEMMA RunStep == TraceInv /\ [Next]_vars => RunOK'
<1> SUFFICES ASSUME TraceInv, [Next]_vars PROVE RunOK'
  OBVIOUS
<1> USE DEF RunOK
<1>0. /\ RunOK /\ sequence \in Nat
      /\ plan.max_hops \in Nat \ {0} /\ plan.probes_per_hop \in Nat \ {0}
      /\ Len(observations) \in Nat
  BY PlanTypes DEF TraceInv, CountersOK, Numbered
<1>1. CASE UNCHANGED vars
  BY <1>0, <1>1 DEF vars, tracer, network
<1>2. CASE StartHop
  <2>1. observations' \in Seq(Observation) /\ Len(observations') = 0
    BY <1>2 DEF StartHop
  <2>2. duration_exhausted' \in BOOLEAN
    BY <1>0, <1>2 DEF StartHop
  <2>3. phase' \in {"finish", "probe"} /\ (phase' = "probe" => ttl <= plan.max_hops)
    BY <1>0, <1>2 DEF StartHop
  <2> QED
    BY <1>0, <1>2, <2>1, <2>2, <2>3 DEF StartHop, Phases
<1>3. CASE SendProbe
  BY <1>0, <1>3 DEF SendProbe, MoreProbes, Phases
<1>4. CASE SendFails
  <2>1. observations' \in Seq(Observation) /\ Len(observations') = Len(observations) + 1
    <3>1. "local_error" \in ProbeOutcome /\ sequence' \in Nat
      BY <1>0, <1>4 DEF SendFails, ProbeOutcome
    <3> QED
      BY <1>0, <1>4, <3>1, AppendObservation DEF SendFails, Observe
  <2> QED
    BY <1>0, <1>4, <2>1 DEF SendFails, MoreProbes, Observe, Phases
<1>5. CASE TimeOut
  <2>1. observations' \in Seq(Observation) /\ Len(observations') = Len(observations) + 1
    <3>1. "timeout" \in ProbeOutcome /\ sequence' \in Nat
      BY <1>0, <1>5 DEF TimeOut, ProbeOutcome
    <3> QED
      BY <1>0, <1>5, <3>1, AppendObservation DEF TimeOut, Observe
  <2> QED
    BY <1>0, <1>5, <2>1 DEF TimeOut, Observe, Phases
<1>6. CASE Receive
  <2> DEFINE e == Head(queue)
             o == classify_icmp(e.icmp, e.responder)
  <2>1. e.responder \in Address
    <3>1. e \in Error
      BY <1>6 DEF TraceInv, WireOK, Receive
    <3> QED
      BY <3>1 DEF Error
  <2>2. o \in ProbeOutcome
    BY Classified
  <2>3. /\ observations' = Append(observations, ProbeObservation(sequence', o, e.responder))
        /\ sequence' \in Nat /\ destination_reached' \in BOOLEAN
    BY <1>0, <1>6 DEF Receive, Observe
  <2> HIDE DEF o, e
  <2>4. observations' \in Seq(Observation) /\ Len(observations') = Len(observations) + 1
    BY <1>0, <2>1, <2>2, <2>3, AppendObservation
  <2> QED
    BY <1>0, <1>6, <2>3, <2>4 DEF Receive, Observe, Phases
<1>7. CASE EndHop
  <2>1. duration_exhausted' \in BOOLEAN
    BY <1>0, <1>7 DEF EndHop, MoreProbes
  <2>2. ttl' \in 1..plan.max_hops + 1 /\ phase' \in {"finish", "hop"}
    BY <1>0, <1>7 DEF EndHop
  <2> QED
    BY <1>0, <1>7, <2>1, <2>2 DEF EndHop, Phases
<1>8. CASE Finish
  BY <1>0, <1>8 DEF Finish, network, Phases
<1>9. CASE Fail
  BY <1>0, <1>9 DEF Fail, network, Phases
<1>10. CASE Network
  BY <1>0, <1>10 DEF Network, Answer, tracer
<1>11. CASE Elapse
  BY <1>0, <1>11 DEF Elapse, tracer
<1> QED
  BY <1>1, <1>2, <1>3, <1>4, <1>5, <1>6, <1>7, <1>8, <1>9, <1>10, <1>11 DEF Next, Trace

\* Counting one thing more.
LEMMA CountUp ==
  ASSUME NEW r \in Reliability
  PROVE  /\ LET q == [[r EXCEPT !.attempted_packets = @ + 1] EXCEPT !.sent_packets = @ + 1]
            IN /\ q \in Reliability
               /\ q.planned_packets = r.planned_packets
               /\ q.attempted_packets = r.attempted_packets + 1
               /\ q.sent_packets = r.sent_packets + 1
               /\ q.replies = r.replies /\ q.timeouts = r.timeouts
               /\ q.local_errors = r.local_errors
         /\ LET q == [[r EXCEPT !.attempted_packets = @ + 1] EXCEPT !.local_errors = @ + 1]
            IN /\ q \in Reliability
               /\ q.planned_packets = r.planned_packets
               /\ q.attempted_packets = r.attempted_packets + 1
               /\ q.sent_packets = r.sent_packets
               /\ q.replies = r.replies /\ q.timeouts = r.timeouts
               /\ q.local_errors = r.local_errors + 1
         /\ \A q \in {[r EXCEPT !.timeouts = @ + 1], [r EXCEPT !.replies = @ + 1]} :
               /\ q \in Reliability
               /\ q.planned_packets = r.planned_packets
               /\ q.attempted_packets = r.attempted_packets
               /\ q.sent_packets = r.sent_packets
               /\ q.replies + q.timeouts + q.local_errors
                    = r.replies + r.timeouts + r.local_errors + 1
<1>1. /\ r = [planned_packets |-> r.planned_packets, attempted_packets |-> r.attempted_packets,
              sent_packets |-> r.sent_packets, replies |-> r.replies,
              timeouts |-> r.timeouts, local_errors |-> r.local_errors]
      /\ r.planned_packets \in Nat /\ r.attempted_packets \in Nat /\ r.sent_packets \in Nat
      /\ r.replies \in Nat /\ r.timeouts \in Nat /\ r.local_errors \in Nat
  BY DEF Reliability
<1> DEFINE one == [planned_packets |-> r.planned_packets,
                   attempted_packets |-> r.attempted_packets + 1,
                   sent_packets |-> r.sent_packets, replies |-> r.replies,
                   timeouts |-> r.timeouts, local_errors |-> r.local_errors]
<1>a. [r EXCEPT !.attempted_packets = @ + 1] = one
  BY <1>1
<1>b. /\ [one EXCEPT !.sent_packets = @ + 1]
           = [planned_packets |-> r.planned_packets,
              attempted_packets |-> r.attempted_packets + 1,
              sent_packets |-> r.sent_packets + 1, replies |-> r.replies,
              timeouts |-> r.timeouts, local_errors |-> r.local_errors]
      /\ [one EXCEPT !.local_errors = @ + 1]
           = [planned_packets |-> r.planned_packets,
              attempted_packets |-> r.attempted_packets + 1,
              sent_packets |-> r.sent_packets, replies |-> r.replies,
              timeouts |-> r.timeouts, local_errors |-> r.local_errors + 1]
  OBVIOUS
<1> HIDE DEF one
<1>2. [[r EXCEPT !.attempted_packets = @ + 1] EXCEPT !.sent_packets = @ + 1]
        = [planned_packets |-> r.planned_packets, attempted_packets |-> r.attempted_packets + 1,
           sent_packets |-> r.sent_packets + 1, replies |-> r.replies,
           timeouts |-> r.timeouts, local_errors |-> r.local_errors]
  BY <1>a, <1>b
<1>3. [[r EXCEPT !.attempted_packets = @ + 1] EXCEPT !.local_errors = @ + 1]
        = [planned_packets |-> r.planned_packets, attempted_packets |-> r.attempted_packets + 1,
           sent_packets |-> r.sent_packets, replies |-> r.replies,
           timeouts |-> r.timeouts, local_errors |-> r.local_errors + 1]
  BY <1>a, <1>b
<1>4. [r EXCEPT !.timeouts = @ + 1]
        = [planned_packets |-> r.planned_packets, attempted_packets |-> r.attempted_packets,
           sent_packets |-> r.sent_packets, replies |-> r.replies,
           timeouts |-> r.timeouts + 1, local_errors |-> r.local_errors]
  BY <1>1
<1>5. [r EXCEPT !.replies = @ + 1]
        = [planned_packets |-> r.planned_packets, attempted_packets |-> r.attempted_packets,
           sent_packets |-> r.sent_packets, replies |-> r.replies + 1,
           timeouts |-> r.timeouts, local_errors |-> r.local_errors]
  BY <1>1
<1>6. [[r EXCEPT !.attempted_packets = @ + 1] EXCEPT !.sent_packets = @ + 1] \in Reliability
  BY <1>1, <1>2 DEF Reliability
<1>7. [[r EXCEPT !.attempted_packets = @ + 1] EXCEPT !.local_errors = @ + 1] \in Reliability
  BY <1>1, <1>3 DEF Reliability
<1>8. [r EXCEPT !.timeouts = @ + 1] \in Reliability
  BY <1>1, <1>4 DEF Reliability
<1>9. [r EXCEPT !.replies = @ + 1] \in Reliability
  BY <1>1, <1>5 DEF Reliability
<1> QED
  BY <1>1, <1>2, <1>3, <1>4, <1>5, <1>6, <1>7, <1>8, <1>9

\* Each action keeps Numbered.
LEMMA NumberedStep == TraceInv /\ [Next]_vars => Numbered'
<1> SUFFICES ASSUME TraceInv, [Next]_vars PROVE Numbered'
  OBVIOUS
<1> DEFINE pph == plan.probes_per_hop
           n == Len(observations)
<1>0. /\ sequence \in Nat /\ pph \in Nat \ {0} /\ n \in Nat
      /\ plan.max_packets \in Nat /\ sequence <= plan.max_packets
      /\ ttl \in Nat \ {0} /\ ttl <= plan.max_hops + 1 /\ n <= pph
      /\ Numbered /\ RunOK
  BY PlanTypes DEF TraceInv, CountersOK, Numbered, RunOK
<1>1. /\ Due \in Nat
      /\ ttl <= plan.max_hops => Due + pph <= plan.max_packets
      /\ UNCHANGED <<plan, ttl>> => Due' = Due
      /\ plan' = plan /\ ttl' = ttl + 1 => Due' = Due + pph
  <2>1. /\ ttl - 1 \in Nat /\ pph \in Nat /\ plan.max_hops \in Nat
        /\ (ttl - 1) + 1 = ttl /\ (ttl + 1) - 1 = ttl
        /\ ttl <= plan.max_hops => ttl - 1 < plan.max_hops
        /\ plan.max_packets = plan.max_hops * pph
    BY <1>0, PlanTypes DEF RunOK
  <2>2. ttl - 1 < ttl /\ ttl \in Nat
    BY <1>0
  <2>3. ttl <= plan.max_hops => Due + pph <= plan.max_hops * pph
    BY <2>1, RoomForHop DEF Due
  <2>4. ttl * pph = Due + pph /\ Due \in Nat
    BY <2>1, <2>2, RoomForHop DEF Due
  <2>5. UNCHANGED <<plan, ttl>> => Due' = Due
    BY DEF Due
  <2>6. plan' = plan /\ ttl' = ttl + 1 => Due' = ttl * pph
    BY <2>1 DEF Due
  <2> QED
    BY <2>1, <2>3, <2>4, <2>5, <2>6
<1> HIDE DEF n, pph
<1>2. ASSUME UNCHANGED <<plan, ttl, sequence, observations>>,
             phase' \in {phase, "finish", "ended", "failed"}
      PROVE  Numbered'
  BY <1>0, <1>1, <1>2 DEF Numbered
<1>3. CASE UNCHANGED vars
  BY <1>2, <1>3 DEF vars, tracer
<1>4. CASE StartHop
  <2>1. /\ UNCHANGED <<plan, ttl, sequence>> /\ phase = "hop"
        /\ phase' \in {"finish", "probe"} /\ Len(observations') = 0
    BY <1>4 DEF StartHop
  <2>2. sequence <= Due
    BY <1>0, <2>1 DEF Numbered
  <2>3. Due <= Due + 0
    BY <1>1
  <2> QED
    BY <1>0, <1>1, <2>1, <2>2, <2>3 DEF Numbered
<1>5. ASSUME sequence' = sequence + 1, phase = "probe", n < pph, ttl <= plan.max_hops,
             UNCHANGED <<plan, ttl>>,
             \/ phase' = "wait" /\ Len(observations') = n
             \/ phase' = "probe" /\ Len(observations') = n + 1
      PROVE  Numbered'
  <2>1. sequence <= Due + n
    BY <1>0, <1>5 DEF Numbered, n
  <2>2. sequence' \in Nat /\ sequence' <= Due + n + 1 /\ sequence' <= plan.max_packets
    BY <1>0, <1>1, <1>5, <2>1
  <2>3. Due' = Due /\ plan' = plan
    BY <1>1, <1>5
  <2>4. CASE phase' = "wait" /\ Len(observations') = n
    BY <2>2, <2>3, <2>4 DEF Numbered
  <2>5. CASE phase' = "probe" /\ Len(observations') = n + 1
    <3>1. Due + (n + 1) = Due + n + 1
      BY <1>0, <1>1
    <3> QED
      BY <2>2, <2>3, <2>5, <3>1 DEF Numbered
  <2> QED
    BY <1>5, <2>4, <2>5
<1>6. CASE SendProbe
  BY <1>0, <1>5, <1>6 DEF SendProbe, MoreProbes, RunOK, n, pph
<1>7. CASE SendFails
  <2>1. Len(observations') = n + 1
    BY <1>0, <1>7 DEF SendFails, Observe, RunOK, n
  <2> QED
    BY <1>0, <1>5, <1>7, <2>1 DEF SendFails, Observe, MoreProbes, RunOK, n, pph
<1>8. ASSUME phase = "wait", phase' = "probe", UNCHANGED <<plan, ttl, sequence>>,
             NEW o, observations' = Append(observations, o)
      PROVE  Numbered'
  <2>1. sequence <= Due + n + 1
    BY <1>0, <1>8 DEF Numbered, n
  <2>2. Len(observations') = n + 1
    BY <1>0, <1>8 DEF RunOK, n
  <2>3. Due + (n + 1) = Due + n + 1
    BY <1>0, <1>1
  <2> QED
    BY <1>0, <1>1, <1>8, <2>1, <2>2, <2>3 DEF Numbered
<1>9. CASE TimeOut
  BY <1>8, <1>9 DEF TimeOut, Observe
<1>10. CASE Receive
  BY <1>8, <1>10 DEF Receive, Observe
<1>11. CASE EndHop
  <2>1. /\ UNCHANGED <<plan, sequence>> /\ phase = "probe"
        /\ \/ phase' = "finish" /\ ttl' = ttl
           \/ phase' = "hop" /\ ttl' = ttl + 1
    BY <1>11 DEF EndHop
  <2>2. sequence <= Due + n
    BY <1>0, <2>1 DEF Numbered, n
  <2>3. CASE phase' = "finish"
    BY <1>0, <2>1, <2>3 DEF Numbered
  <2>4. CASE phase' = "hop" /\ ttl' = ttl + 1
    <3>1. sequence' <= Due'
      BY <1>0, <1>1, <2>1, <2>2, <2>4
    <3> QED
      BY <1>0, <2>1, <2>4, <3>1 DEF Numbered
  <2> QED
    BY <2>1, <2>3, <2>4
<1>12. CASE Finish
  BY <1>2, <1>12 DEF Finish
<1>13. CASE Fail
  BY <1>2, <1>13 DEF Fail
<1>14. CASE Network
  BY <1>2, <1>14 DEF Network, Answer, tracer
<1>15. CASE Elapse
  BY <1>2, <1>15 DEF Elapse, tracer
<1> QED
  BY <1>3, <1>4, <1>6, <1>7, <1>9, <1>10, <1>11, <1>12, <1>13, <1>14, <1>15 DEF Next, Trace

\* Each action keeps Counted.
LEMMA CountedStep == TraceInv /\ [Next]_vars => Counted'
<1> SUFFICES ASSUME TraceInv, [Next]_vars PROVE Counted'
  OBVIOUS
<1>0. /\ sequence \in Nat /\ Counted /\ reliability \in Reliability
      /\ reliability.sent_packets \in Nat /\ Results \in Nat
      /\ plan' = plan
  <2>1. plan' = plan
    BY DEF Next, Trace, vars, tracer, StartHop, SendProbe, SendFails, TimeOut, Receive, EndHop,
           Finish, Fail, Network, Answer, Elapse
  <2>2. reliability \in Reliability
    BY DEF TraceInv, CountersOK, Counted
  <2>3. Results \in Nat /\ reliability.sent_packets \in Nat
    BY <2>2 DEF Reliability, Results
  <2> QED
    BY <2>1, <2>2, <2>3 DEF TraceInv, CountersOK, Numbered
<1>1. ASSUME UNCHANGED <<sequence, reliability>>, phase' # "wait" \/ phase = "wait"
      PROVE  Counted'
  BY <1>0, <1>1 DEF Counted, Results
<1>2. CASE UNCHANGED vars
  BY <1>1, <1>2 DEF vars, tracer
<1>3. CASE StartHop
  BY <1>1, <1>3 DEF StartHop
<1>4. CASE SendProbe
  <2>1. /\ sequence' = sequence + 1
        /\ reliability' = [[reliability EXCEPT !.attempted_packets = @ + 1]
                             EXCEPT !.sent_packets = @ + 1]
    BY <1>4 DEF SendProbe, Attempted
  <2>2. /\ reliability' \in Reliability
        /\ reliability'.planned_packets = reliability.planned_packets
        /\ reliability'.attempted_packets = reliability.attempted_packets + 1
        /\ reliability'.sent_packets = reliability.sent_packets + 1
        /\ Results' = Results
    BY <1>0, <2>1, CountUp DEF Results
  <2> QED
    BY <1>0, <2>1, <2>2 DEF Counted
<1>5. CASE SendFails
  <2>1. /\ sequence' = sequence + 1 /\ phase' = "probe"
        /\ reliability' = [[reliability EXCEPT !.attempted_packets = @ + 1]
                             EXCEPT !.local_errors = @ + 1]
    BY <1>5 DEF SendFails, Observe, Attempted
  <2>2. /\ reliability' \in Reliability
        /\ reliability'.planned_packets = reliability.planned_packets
        /\ reliability'.attempted_packets = reliability.attempted_packets + 1
        /\ reliability'.sent_packets = reliability.sent_packets
        /\ reliability'.replies = reliability.replies
        /\ reliability'.timeouts = reliability.timeouts
        /\ reliability'.local_errors = reliability.local_errors + 1
    BY <1>0, <2>1, CountUp
  <2>3. /\ reliability.replies \in Nat /\ reliability.timeouts \in Nat
        /\ reliability.local_errors \in Nat
    BY <1>0 DEF Reliability
  <2>4. Results' = Results + 1
    BY <2>2, <2>3 DEF Results
  <2> QED
    BY <1>0, <2>1, <2>2, <2>4 DEF Counted
<1>6. ASSUME phase = "wait", phase' = "probe", UNCHANGED sequence,
             reliability' \in {[reliability EXCEPT !.timeouts = @ + 1],
                               [reliability EXCEPT !.replies = @ + 1]}
      PROVE  Counted'
  <2>1. /\ reliability' \in Reliability
        /\ reliability'.planned_packets = reliability.planned_packets
        /\ reliability'.attempted_packets = reliability.attempted_packets
        /\ reliability'.sent_packets = reliability.sent_packets
        /\ Results' = Results + 1
    BY <1>0, <1>6, CountUp DEF Results
  <2> QED
    BY <1>0, <1>6, <2>1 DEF Counted
<1>7. CASE TimeOut
  BY <1>6, <1>7 DEF TimeOut, Observe
<1>8. CASE Receive
  BY <1>6, <1>8 DEF Receive, Observe
<1>9. CASE EndHop
  BY <1>1, <1>9 DEF EndHop
<1>10. CASE Finish
  BY <1>1, <1>10 DEF Finish
<1>11. CASE Fail
  BY <1>1, <1>11 DEF Fail
<1>12. CASE Network
  BY <1>1, <1>12 DEF Network, Answer, tracer
<1>13. CASE Elapse
  BY <1>1, <1>13 DEF Elapse, tracer
<1> QED
  BY <1>2, <1>3, <1>4, <1>5, <1>7, <1>8, <1>9, <1>10, <1>11, <1>12, <1>13 DEF Next, Trace

\* Each action keeps WireOK.
LEMMA WireStep == TraceInv /\ [Next]_vars => WireOK'
<1> SUFFICES ASSUME TraceInv, [Next]_vars PROVE WireOK'
  OBVIOUS
<1>0. /\ IsFiniteSet(in_flight) /\ Cardinality(in_flight) \in Nat
      /\ in_flight \subseteq [sequence : 1..sequence, ttl : 1..plan.max_hops]
      /\ \A p \in in_flight : p.ttl <= ttl
      /\ queue \in Seq(Error) /\ Len(queue) \in Nat
      /\ Len(queue) + Cardinality(in_flight) <= reliability.sent_packets
      /\ \A i \in 1..Len(queue) : queue[i].responder = Target => ttl > Len(Path)
      /\ sequence \in Nat /\ ttl \in Nat \ {0} /\ reliability \in Reliability
      /\ reliability.sent_packets \in Nat
      /\ phase \in {"probe", "wait"} => ttl <= plan.max_hops
      /\ plan.max_hops \in Nat
  <2>1. Cardinality(in_flight) \in Nat
    BY FS_CardinalityType DEF TraceInv, WireOK
  <2>2. reliability \in Reliability /\ reliability.sent_packets \in Nat
    BY DEF TraceInv, CountersOK, Counted, Reliability
  <2>3. plan.max_hops \in Nat /\ ttl \in Nat \ {0}
    BY PlanTypes DEF TraceInv, RunOK
  <2> QED
    BY <2>1, <2>2, <2>3 DEF TraceInv, CountersOK, Numbered, WireOK, RunOK
<1>1. ASSUME UNCHANGED <<plan, sequence, in_flight, queue>>,
             reliability'.sent_packets = reliability.sent_packets,
             ttl' \in {ttl, ttl + 1}
      PROVE  WireOK'
  <2>1. ttl' >= ttl /\ ttl' \in Nat /\ Len(Path) \in Nat
    BY <1>0, <1>1, PathAssumption
  <2>2. \A p \in in_flight : p.ttl \in Nat
    BY <1>0
  <2>3. \A p \in in_flight : p.ttl <= ttl'
    BY <1>0, <2>1, <2>2
  <2>4. \A i \in 1..Len(queue) : queue[i].responder = Target => ttl' > Len(Path)
    BY <1>0, <2>1
  <2> QED
    BY <1>0, <1>1, <2>3, <2>4 DEF WireOK
<1>2. CASE UNCHANGED vars
  BY <1>1, <1>2 DEF vars, tracer, network
<1>3. CASE StartHop
  BY <1>1, <1>3 DEF StartHop, network
<1>4. CASE SendProbe
  <2> DEFINE p == [sequence |-> sequence + 1, ttl |-> ttl]
  <2>1. /\ sequence' = sequence + 1 /\ UNCHANGED <<plan, ttl, queue>>
        /\ in_flight' = in_flight \cup {p} /\ ttl <= plan.max_hops
        /\ reliability' = [[reliability EXCEPT !.attempted_packets = @ + 1]
                             EXCEPT !.sent_packets = @ + 1]
    BY <1>0, <1>4 DEF SendProbe, Attempted
  <2>2. reliability'.sent_packets = reliability.sent_packets + 1
    BY <1>0, <2>1, CountUp
  <2>3. p \in [sequence : 1..sequence + 1, ttl : 1..plan.max_hops] /\ p.ttl = ttl
    BY <1>0, <2>1
  <2> HIDE DEF p
  <2>4. in_flight' \subseteq [sequence : 1..sequence + 1, ttl : 1..plan.max_hops]
    <3>1. [sequence : 1..sequence, ttl : 1..plan.max_hops]
            \subseteq [sequence : 1..sequence + 1, ttl : 1..plan.max_hops]
      BY <1>0
    <3> QED
      BY <1>0, <2>1, <2>3, <3>1
  <2>5. /\ IsFiniteSet(in_flight')
        /\ Cardinality(in_flight') <= Cardinality(in_flight) + 1
        /\ Cardinality(in_flight') \in Nat
    <3>1. /\ IsFiniteSet(in_flight \cup {p})
          /\ \/ Cardinality(in_flight \cup {p}) = Cardinality(in_flight)
             \/ Cardinality(in_flight \cup {p}) = Cardinality(in_flight) + 1
      BY <1>0, FS_AddElement
    <3> QED
      BY <1>0, <2>1, <3>1
  <2>6. Len(queue) + Cardinality(in_flight') <= reliability.sent_packets + 1
    BY <1>0, <2>5
  <2>7. \A q \in in_flight' : q.ttl <= ttl
    BY <1>0, <2>1, <2>3
  <2> QED
    BY <1>0, <2>1, <2>2, <2>4, <2>5, <2>6, <2>7 DEF WireOK
<1>5. CASE SendFails
  <2>1. /\ sequence' = sequence + 1 /\ UNCHANGED <<plan, ttl, in_flight, queue>>
        /\ reliability' = [[reliability EXCEPT !.attempted_packets = @ + 1]
                             EXCEPT !.local_errors = @ + 1]
    BY <1>5 DEF SendFails, Attempted, network
  <2>2. reliability'.sent_packets = reliability.sent_packets
    BY <1>0, <2>1, CountUp
  <2>3. in_flight' \subseteq [sequence : 1..sequence + 1, ttl : 1..plan.max_hops]
    <3>1. [sequence : 1..sequence, ttl : 1..plan.max_hops]
            \subseteq [sequence : 1..sequence + 1, ttl : 1..plan.max_hops]
      BY <1>0
    <3> QED
      BY <1>0, <2>1, <3>1
  <2> QED
    BY <1>0, <2>1, <2>2, <2>3 DEF WireOK
<1>6. CASE TimeOut
  <2>1. /\ UNCHANGED <<plan, ttl, sequence, in_flight, queue>>
        /\ reliability' = [reliability EXCEPT !.timeouts = @ + 1]
    BY <1>6 DEF TimeOut, network
  <2>2. reliability'.sent_packets = reliability.sent_packets
    BY <1>0, <2>1, CountUp
  <2> QED
    BY <1>1, <2>1, <2>2
<1>7. CASE Receive
  <2>1. /\ UNCHANGED <<plan, ttl, sequence, in_flight>>
        /\ queue # <<>> /\ queue' = Tail(queue)
        /\ reliability' = [reliability EXCEPT !.replies = @ + 1]
    BY <1>7 DEF Receive
  <2>2. reliability'.sent_packets = reliability.sent_packets
    BY <1>0, <2>1, CountUp
  <2>3. /\ queue' \in Seq(Error) /\ Len(queue') = Len(queue) - 1
        /\ \A i \in 1..Len(queue') : i + 1 \in 1..Len(queue) /\ queue'[i] = queue[i + 1]
    BY <1>0, <2>1
  <2>4. \A i \in 1..Len(queue') : queue'[i].responder = Target => ttl > Len(Path)
    BY <1>0, <2>3
  <2>5. Len(queue') + Cardinality(in_flight) <= reliability.sent_packets
    BY <1>0, <2>3
  <2> QED
    BY <1>0, <2>1, <2>2, <2>3, <2>4, <2>5 DEF WireOK
<1>8. CASE EndHop
  BY <1>1, <1>8 DEF EndHop, network
<1>9. CASE Finish
  BY <1>1, <1>9 DEF Finish, network
<1>10. CASE Fail
  BY <1>1, <1>10 DEF Fail, network
<1>11. CASE Network
  <2>1. PICK p \in in_flight, icmp \in Icmp \cup {"port_unreachable"}, responder \in Address :
          Answer(p, icmp, responder)
    BY <1>11 DEF Network
  <2> DEFINE e == [sequence |-> p.sequence, icmp |-> icmp, responder |-> responder]
  <2>2. /\ UNCHANGED <<plan, ttl, sequence, reliability>>
        /\ in_flight' = in_flight \ {p} /\ queue' = Append(queue, e)
    BY <2>1 DEF Answer, tracer
  <2>3. p.sequence \in Nat /\ p.ttl \in Nat /\ 1 <= p.ttl /\ p.ttl <= ttl
    BY <1>0
  <2>4. responder = Target => ttl > Len(Path)
    <3>1. Len(Path) \in Nat /\ (p.ttl <= Len(Path) => Path[p.ttl] \subseteq Address \ {Target})
      BY <2>3, PathAssumption
    <3>2. responder = Target => ~(p.ttl <= Len(Path))
      BY <2>1, <3>1 DEF Answer
    <3> QED
      BY <1>0, <2>3, <3>1, <3>2
  <2>5. e \in Error /\ e.responder = responder
    BY <2>3 DEF Error
  <2> HIDE DEF e
  <2>6. /\ queue' \in Seq(Error) /\ Len(queue') = Len(queue) + 1
        /\ \A i \in 1..Len(queue') : i <= Len(queue) => i \in 1..Len(queue) /\ queue'[i] = queue[i]
        /\ \A i \in 1..Len(queue') : i > Len(queue) => queue'[i] = e
    BY <1>0, <2>2, <2>5
  <2>7. ASSUME NEW i \in 1..Len(queue'), queue'[i].responder = Target
        PROVE  ttl > Len(Path)
    <3>1. CASE i <= Len(queue)
      BY <1>0, <2>6, <2>7, <3>1
    <3>2. CASE i > Len(queue)
      BY <2>4, <2>5, <2>6, <2>7, <3>2
    <3> QED
      BY <1>0, <3>1, <3>2
  <2>8. IsFiniteSet(in_flight') /\ Cardinality(in_flight') = Cardinality(in_flight) - 1
    BY <1>0, <2>2, FS_RemoveElement
  <2>9. Len(queue') + Cardinality(in_flight') <= reliability.sent_packets
    BY <1>0, <2>6, <2>8
  <2> QED
    BY <1>0, <2>2, <2>6, <2>7, <2>8, <2>9 DEF WireOK
<1>12. CASE Elapse
  BY <1>1, <1>12 DEF Elapse, tracer, network
<1> QED
  BY <1>2, <1>3, <1>4, <1>5, <1>6, <1>7, <1>8, <1>9, <1>10, <1>11, <1>12 DEF Next, Trace

\* The records between the first and the last.
LEMMA MiddleOf ==
  ASSUME NEW s, s \in Seq(Range(s)), Len(s) >= 2
  PROVE  /\ Len(s) - 2 \in Nat /\ DOMAIN Middle(s) = 1..Len(s) - 2
         /\ \A i \in 1..Len(s) - 2 : Middle(s)[i] = s[i + 1]
<1>1. Len(s) \in Nat /\ \A i \in 2..Len(s) - 1 : s[i] \in Range(s)
  BY DEF Range
<1>2. PICK k \in Int : k = Len(s) - 1
  <2>1. Len(s) - 1 \in Int
    BY <1>1
  <2> QED
    BY <2>1
<1>3. /\ SubSeq(s, 2, k) \in Seq(Range(s))
      /\ Len(SubSeq(s, 2, k)) = IF 2 <= k THEN k - 2 + 1 ELSE 0
      /\ \A i \in 1..k - 2 + 1 : SubSeq(s, 2, k)[i] = s[2 + i - 1]
  BY <1>1, <1>2, SubSeqProperties
<1>4. /\ k - 2 + 1 = Len(s) - 2 /\ (~(2 <= k) => Len(s) - 2 = 0) /\ Len(s) - 2 \in Nat
      /\ \A i \in 1..Len(s) - 2 : 2 + i - 1 = i + 1
  BY <1>1, <1>2
<1> QED
  BY <1>2, <1>3, <1>4 DEF Middle

\* The hops of a stream are what its middle records hold.
LEMMA HopsOf ==
  ASSUME NEW s, s \in Seq(Range(s)), Len(s) >= 2
  PROVE  /\ DOMAIN Hops(s) = 1..Len(s) - 2 /\ Len(Hops(s)) = Len(s) - 2
         /\ Hops(s) \in Seq(Range(Hops(s)))
         /\ \A i \in 1..Len(s) - 2 : Hops(s)[i] = s[i + 1].hop
<1> DEFINE n == Len(s) - 2
<1>1. n \in Nat /\ DOMAIN Middle(s) = 1..n /\ \A i \in 1..n : Middle(s)[i] = s[i + 1]
  BY MiddleOf
<1>2. Hops(s) = [i \in 1..n |-> Middle(s)[i].hop]
  BY <1>1 DEF Hops
<1>3. DOMAIN Hops(s) = 1..n /\ \A i \in 1..n : Hops(s)[i] = s[i + 1].hop
  BY <1>1, <1>2
<1>4. Hops(s) \in Seq(Range(Hops(s))) /\ Len(Hops(s)) = n
  <2>1. \A i \in 1..n : Hops(s)[i] \in Range(Hops(s))
    BY <1>3 DEF Range
  <2>2. Hops(s) = [i \in 1..n |-> Hops(s)[i]]
    BY <1>2
  <2> QED
    BY <1>1, <1>3, <2>1, <2>2
<1> QED
  BY <1>3, <1>4

\* What is said of the first hops holds while their records stay.
LEMMA FirstRecordsStay ==
  ASSUME records \in Seq(Range(records)), UNCHANGED plan, NEW n \in Nat, n < Len(records),
         \A i \in 1..Len(records) : records'[i] = records[i]
  PROVE  (AllProbed(n)' <=> AllProbed(n)) /\ (FirstHops(n) => FirstHops(n)')
<1>1. \A d \in 1..n : d + 1 \in 1..Len(records)
  OBVIOUS
<1>2. \A d \in 1..n : records'[d + 1] = records[d + 1]
  BY <1>1
<1>3. AllProbed(n)' <=> AllProbed(n)
  BY <1>2 DEF AllProbed
<1>4. FirstHops(n) => FirstHops(n)'
  BY <1>2 DEF FirstHops, IsHop
<1> QED
  BY <1>3, <1>4

\* A step that leaves the records and what the run concluded from them.
LEMMA StreamStays ==
  ASSUME TraceInv, UNCHANGED <<plan, ttl, records, reliability, destination_reached,
                               duration_exhausted>>,
         elapsed => elapsed'
  PROVE  /\ AtHop => AtHop' /\ UNCHANGED AllProbed(ttl - 1)
         /\ AtFinish => AtFinish'
         /\ AtEnd => AtEnd'
         /\ FirstHops(Len(records) - 2) => FirstHops(Len(records) - 2)'
<1>1. UNCHANGED <<AllProbed(ttl - 1), FirstHops(ttl - 1)>>
  BY DEF AllProbed, FirstHops, IsHop
<1>2. UNCHANGED <<FirstHops(Len(records) - 1), FirstHops(Len(records) - 2)>>
  BY DEF FirstHops, IsHop
<1>3. /\ Concluded(Len(records) - 1) => Concluded(Len(records) - 1)'
      /\ Concluded(Len(records) - 2) => Concluded(Len(records) - 2)'
  BY DEF Concluded, AllProbed
<1>4. AtHop => AtHop'
  BY <1>1 DEF AtHop
<1>5. AtFinish => AtFinish'
  BY <1>2, <1>3 DEF AtFinish
<1>6. AtEnd => AtEnd'
  BY <1>3 DEF AtEnd, stop_reason
<1> QED
  BY <1>1, <1>2, <1>4, <1>5, <1>6

\* A hop's record holds what was observed of it.
LEMMA HopRecord ==
  ASSUME NEW probes \in Seq(Observation), NEW d
  PROVE  LET r == Hop(trace_id, live_hop(trace_id, d, probes))
         IN /\ r.record = "hop" /\ r.trace_id = trace_id
            /\ r.hop.probes = probes /\ r.hop.ttl = d
            /\ Len(probes) \in 1..plan.probes_per_hop => IsHop(r, d)
<1> DEFINE h == live_hop(trace_id, d, probes)
           r == Hop(trace_id, h)
<1>1. h.probes = probes /\ h.ttl = d
  BY DEF live_hop
<1> HIDE DEF h
<1>2. r.hop = h /\ r.record = "hop" /\ r.trace_id = trace_id
  BY DEF Hop
<1> HIDE DEF r
<1>3. r.hop.probes = probes
  BY <1>1, <1>2
<1>4. ASSUME Len(probes) \in 1..plan.probes_per_hop
      PROVE  IsHop(r, d)
  BY <1>3, <1>4 DEF IsHop, r, h
<1> QED
  BY <1>1, <1>2, <1>3, <1>4 DEF r, h

\* EndHop keeps StreamOK.
LEMMA EndHopStream == TraceInv /\ EndHop => StreamOK'
<1> SUFFICES ASSUME TraceInv, EndHop PROVE StreamOK'
  OBVIOUS
<1>1. /\ phase = "probe" /\ UNCHANGED <<plan, destination_reached, elapsed>>
      /\ (MoreProbes => elapsed) /\ duration_exhausted' = (duration_exhausted \/ MoreProbes)
      /\ records' = IF observations = <<>> THEN records
                     ELSE Append(records, Hop(trace_id, live_hop(trace_id, ttl, observations)))
  BY DEF EndHop
<1>2. /\ records \in Seq(Range(records)) /\ InHop /\ Len(records) = ttl
      /\ ~duration_exhausted /\ AllProbed(ttl - 1) /\ FirstHops(ttl - 1)
      /\ destination_reached => observations # <<>> /\ ttl > Len(Path)
      /\ ttl \in Nat \ {0} /\ ttl <= plan.max_hops /\ plan.max_hops \in Nat
      /\ plan.probes_per_hop \in Nat \ {0} /\ observations \in Seq(Observation)
      /\ Len(observations) <= plan.probes_per_hop
      /\ destination_reached \in BOOLEAN
  <2>1. RunOK /\ StreamOK /\ InHop
    BY <1>1 DEF TraceInv, StreamOK
  <2>2. plan.max_hops \in Nat \ {0} /\ plan.probes_per_hop \in Nat \ {0}
    BY <2>1, PlanTypes DEF RunOK
  <2> QED
    BY <1>1, <2>1, <2>2 DEF RunOK, StreamOK, InHop
<1>3. CASE observations = <<>>
  <2>1. MoreProbes
    BY <1>2, <1>3 DEF MoreProbes
  <2>2. /\ records' = records /\ phase' = "finish" /\ ttl' = ttl
        /\ duration_exhausted' /\ elapsed' /\ ~destination_reached'
    <3>1. records' = records
      BY <1>1, <1>3
    <3>2. phase' = "finish" /\ ttl' = ttl
      BY <1>3 DEF EndHop
    <3>3. duration_exhausted' /\ elapsed' /\ ~destination_reached'
      BY <1>1, <1>2, <1>3, <2>1, Zenon
    <3> QED
      BY <3>1, <3>2, <3>3
  <2>3. FirstHops(Len(records) - 1)'
    BY <1>1, <1>2, <2>2 DEF FirstHops, IsHop
  <2>4. \A d \in 1..ttl - 1 : records[d + 1].hop.ttl = d
    <3> SUFFICES ASSUME NEW d \in 1..ttl - 1 PROVE records[d + 1].hop.ttl = d
      OBVIOUS
    <3>1. IsHop(records[d + 1], d)
      BY <1>2 DEF FirstHops
    <3> QED
      BY <3>1, HopRecord DEF IsHop
  <2>5. Concluded(Len(records) - 1)'
    <3>1. ttl - 1 \in 0..plan.max_hops /\ ttl - 1 # plan.max_hops
      BY <1>2
    <3> QED
      BY <1>1, <1>2, <2>2, <2>4, <3>1 DEF Concluded
  <2>6. AtFinish'
    BY <1>2, <2>2, <2>3, <2>5 DEF AtFinish
  <2> QED
    BY <1>2, <2>2, <2>6 DEF StreamOK
<1>4. CASE observations # <<>>
  <2> DEFINE r == Hop(trace_id, live_hop(trace_id, ttl, observations))
  <2>1. Len(observations) \in 1..plan.probes_per_hop
    BY <1>2, <1>4
  <2>2. IsHop(r, ttl) /\ r.hop.probes = observations /\ r.hop.ttl = ttl
    BY <1>2, <2>1, HopRecord
  <2>3. records' = Append(records, r)
    BY <1>1, <1>4
  <2> HIDE DEF r
  <2>4. /\ records' \in Seq(Range(records')) /\ Len(records') = ttl + 1
        /\ records'[ttl + 1] = r /\ \A i \in 1..ttl : records'[i] = records[i]
    BY <1>2, <2>3, AppendRecord
  <2>5. \A d \in 1..ttl - 1 : records'[d + 1] = records[d + 1]
    <3>1. \A d \in 1..ttl - 1 : d + 1 \in 1..ttl
      BY <1>2
    <3> QED
      BY <2>4, <3>1
  <2>6. PICK t : t = records'
    OBVIOUS
  <2>7. \A d \in 1..ttl : IsHop(t[d + 1], d) /\ t[d + 1].hop.ttl = d
    <3> SUFFICES ASSUME NEW d \in 1..ttl PROVE IsHop(t[d + 1], d) /\ t[d + 1].hop.ttl = d
      OBVIOUS
    <3>1. CASE d = ttl
      BY <2>2, <2>4, <2>6, <3>1
    <3>2. CASE d # ttl
      <4>1. d \in 1..ttl - 1
        BY <1>2, <3>2
      <4>2. IsHop(t[d + 1], d)
        BY <1>2, <2>5, <2>6, <4>1 DEF FirstHops
      <4> QED
        BY <4>2, HopRecord DEF IsHop
    <3> QED
      BY <3>1, <3>2
  <2>8. (\A d \in 1..ttl : Len(t[d + 1].hop.probes) = plan.probes_per_hop) <=> ~MoreProbes
    <3>1. \A d \in 1..ttl - 1 : Len(t[d + 1].hop.probes) = plan.probes_per_hop
      BY <1>2, <2>5, <2>6 DEF AllProbed
    <3>2. Len(t[ttl + 1].hop.probes) = Len(observations)
      BY <2>2, <2>4, <2>6
    <3>3. \A d \in 1..ttl : d = ttl \/ d \in 1..ttl - 1
      BY <1>2
    <3>4. ttl \in 1..ttl
      BY <1>2
    <3>5. ~MoreProbes <=> Len(observations) = plan.probes_per_hop
      BY <1>2, <2>1 DEF MoreProbes
    <3> QED
      BY <3>1, <3>2, <3>3, <3>4, <3>5
  <2>9. duration_exhausted' = MoreProbes
    BY <1>1, <1>2 DEF MoreProbes
  <2>10. CASE destination_reached
    <3>1. phase' = "finish" /\ destination_reached'
      BY <1>1, <1>4, <2>10 DEF EndHop
    <3>2. (Len(records) - 1)' = ttl
      BY <1>2, <2>4
    <3>3. FirstHops(Len(records) - 1)'
      BY <1>1, <2>6, <2>7, <3>2 DEF FirstHops, IsHop
    <3>4. ttl \in 0..plan.max_hops /\ ttl > 0 /\ ttl > Len(Path)
      BY <1>2, <2>10
    <3>5. Concluded(Len(records) - 1)'
      <4>1. ttl \in 0..plan.max_hops' /\ \A d \in 1..ttl : records'[d + 1].hop.ttl = d
        BY <1>1, <2>6, <2>7, <3>4
      <4> QED
        BY <3>1, <3>2, <3>4, <4>1 DEF Concluded
    <3>6. AtFinish'
      BY <1>2, <2>4, <3>3, <3>5 DEF AtFinish
    <3> QED
      BY <2>4, <3>1, <3>6 DEF StreamOK
  <2>11. CASE ~destination_reached
    <3>1. phase' = "hop" /\ ttl' = ttl + 1 /\ ~destination_reached'
      BY <1>1, <1>4, <2>11 DEF EndHop
    <3>2. (ttl - 1)' = ttl
      BY <1>2, <3>1
    <3>3. FirstHops(ttl - 1)'
      BY <1>1, <2>6, <2>7, <3>2 DEF FirstHops, IsHop
    <3>4. AllProbed(ttl - 1)' <=> ~MoreProbes
      BY <1>1, <2>6, <2>8, <3>2 DEF AllProbed
    <3>5. AtHop'
      BY <1>1, <2>4, <2>9, <3>1, <3>3, <3>4 DEF AtHop
    <3> QED
      BY <2>4, <3>1, <3>5 DEF StreamOK
  <2> QED
    BY <2>10, <2>11
<1> QED
  BY <1>3, <1>4

\* Each action keeps StreamOK.
LEMMA StreamStep == TraceInv /\ [Next]_vars => StreamOK'
<1> SUFFICES ASSUME TraceInv, [Next]_vars PROVE StreamOK'
  OBVIOUS
<1>0. StreamOK /\ RunOK /\ records \in Seq(Range(records))
  BY DEF TraceInv, StreamOK
<1>1. ASSUME UNCHANGED <<plan, phase, ttl, observations, records, reliability,
                         destination_reached, duration_exhausted>>,
             elapsed => elapsed'
      PROVE  StreamOK'
  <2>1. /\ AtHop => AtHop' /\ UNCHANGED AllProbed(ttl - 1)
        /\ AtFinish => AtFinish'
        /\ AtEnd => AtEnd'
        /\ FirstHops(Len(records) - 2) => FirstHops(Len(records) - 2)'
    BY <1>1, StreamStays
  <2>2. InHop => InHop'
    BY <1>1 DEF InHop, FirstHops, AllProbed, IsHop
  <2> QED
    BY <1>0, <1>1, <2>1, <2>2 DEF StreamOK
<1>2. CASE UNCHANGED vars
  BY <1>1, <1>2 DEF vars, tracer
<1>3. CASE StartHop
  <2>1. /\ phase = "hop" /\ AtHop /\ observations' = <<>>
        /\ UNCHANGED <<plan, ttl, records, destination_reached, elapsed>>
    BY <1>0, <1>3 DEF StartHop, StreamOK
  <2>2. /\ ttl \in Nat \ {0} /\ ttl <= plan.max_hops + 1 /\ plan.max_hops \in Nat
        /\ Len(records) = ttl /\ FirstHops(ttl - 1) /\ ~destination_reached
        /\ duration_exhausted \in BOOLEAN
    BY <1>0, <2>1, PlanTypes DEF RunOK, AtHop
  <2>3. UNCHANGED <<AllProbed(ttl - 1), FirstHops(ttl - 1)>>
    BY <2>1 DEF AllProbed, FirstHops, IsHop
  <2>4. CASE ttl > plan.max_hops \/ elapsed
    <3>1. /\ phase' = "finish"
          /\ duration_exhausted' = (duration_exhausted \/ ttl <= plan.max_hops)
      BY <1>3, <2>4 DEF StartHop
    <3>2. \A d \in 1..ttl - 1 : records[d + 1].hop.ttl = d
      <4> SUFFICES ASSUME NEW d \in 1..ttl - 1 PROVE records[d + 1].hop.ttl = d
        OBVIOUS
      <4>1. IsHop(records[d + 1], d)
        BY <2>2 DEF FirstHops
      <4> QED
        BY <4>1, HopRecord DEF IsHop
    <3>3. /\ ttl - 1 \in 0..plan.max_hops
          /\ ttl <= plan.max_hops => ttl - 1 # plan.max_hops
          /\ ~(ttl <= plan.max_hops) => ttl - 1 = plan.max_hops
      BY <2>2
    <3>4. IF duration_exhausted'
            THEN elapsed /\ ~(ttl - 1 = plan.max_hops /\ AllProbed(ttl - 1))
            ELSE ttl - 1 = plan.max_hops /\ AllProbed(ttl - 1)
      <4>1. CASE duration_exhausted
        BY <2>1, <3>1, <4>1, Zenon DEF AtHop
      <4>2. CASE ~duration_exhausted /\ ttl <= plan.max_hops
        <5>1. elapsed
          BY <2>2, <2>4, <4>2
        <5> QED
          BY <3>1, <3>3, <4>2, <5>1, Zenon
      <4>3. CASE ~duration_exhausted /\ ~(ttl <= plan.max_hops)
        BY <2>1, <3>1, <3>3, <4>3, Zenon DEF AtHop
      <4> QED
        BY <4>1, <4>2, <4>3
    <3>5. Concluded(Len(records) - 1)'
      BY <2>1, <2>2, <2>3, <3>2, <3>3, <3>4 DEF Concluded
    <3>6. AtFinish'
      BY <2>1, <2>2, <2>3, <3>5 DEF AtFinish
    <3> QED
      BY <1>0, <2>1, <3>1, <3>6 DEF StreamOK
  <2>5. CASE ~(ttl > plan.max_hops \/ elapsed)
    <3>1. phase' = "probe" /\ UNCHANGED duration_exhausted
      BY <1>3, <2>5 DEF StartHop
    <3>2. InHop'
      BY <2>1, <2>2, <2>3, <2>5, <3>1 DEF AtHop, InHop
    <3> QED
      BY <1>0, <2>1, <3>1, <3>2 DEF StreamOK
  <2> QED
    BY <2>4, <2>5
<1>4. ASSUME UNCHANGED <<plan, ttl, records, duration_exhausted>>,
             phase \in {"probe", "wait"}, phase' \in {"probe", "wait"},
             destination_reached' => observations' # <<>> /\ ttl > Len(Path)
      PROVE  StreamOK'
  <2>1. UNCHANGED <<AllProbed(ttl - 1), FirstHops(ttl - 1)>>
    BY <1>4 DEF AllProbed, FirstHops, IsHop
  <2>2. InHop'
    BY <1>0, <1>4, <2>1 DEF StreamOK, InHop
  <2> QED
    BY <1>0, <1>4, <2>2 DEF StreamOK
<1>5. destination_reached /\ phase \in {"probe", "wait"} => observations # <<>> /\ ttl > Len(Path)
  BY <1>0 DEF StreamOK, InHop
<1>6. ASSUME NEW e, observations' = Append(observations, e)
      PROVE  observations' # <<>>
  BY <1>0, <1>6 DEF RunOK
<1>7. CASE SendProbe
  BY <1>4, <1>5, <1>7 DEF SendProbe
<1>8. CASE SendFails
  BY <1>4, <1>5, <1>6, <1>8 DEF SendFails, Observe
<1>9. CASE TimeOut
  BY <1>4, <1>5, <1>6, <1>9 DEF TimeOut, Observe
<1>10. CASE Receive
  <2>1. /\ phase = "wait" /\ phase' = "probe" /\ observations' # <<>>
        /\ UNCHANGED <<plan, ttl, records, duration_exhausted>>
    BY <1>6, <1>10 DEF Receive, Observe
  <2>2. ASSUME classify_icmp(Head(queue).icmp, Head(queue).responder) = "destination_reached"
        PROVE  Head(queue).responder = Target
    BY <2>2 DEF classify_icmp
  <2>3. Head(queue).responder = Target => ttl > Len(Path)
    <3>1. queue \in Seq(Error) /\ queue # <<>>
      BY <1>10 DEF TraceInv, WireOK, Receive
    <3>2. Head(queue) = queue[1] /\ 1 \in 1..Len(queue)
      BY <3>1
    <3> QED
      BY <3>2 DEF TraceInv, WireOK
  <2>4. destination_reached' => ttl > Len(Path)
    BY <1>5, <1>10, <2>1, <2>2, <2>3 DEF Receive
  <2> QED
    BY <1>4, <2>1, <2>4
<1>11. CASE EndHop
  BY <1>11, EndHopStream
<1>12. CASE Finish
  <2> DEFINE end == TraceEnd(trace_id, destination_reached, stop_reason, reliability)
  <2>1. /\ phase = "finish" /\ phase' = "ended" /\ AtFinish /\ records' = Append(records, end)
        /\ UNCHANGED <<plan, reliability, destination_reached, duration_exhausted, elapsed>>
    BY <1>0, <1>12 DEF Finish, network, StreamOK
  <2> DEFINE n == Len(records) - 1
  <2>2. n \in Nat /\ n < Len(records) /\ Concluded(n) /\ FirstHops(n)
    BY <1>0, <2>1 DEF AtFinish
  <2> HIDE DEF end
  <2>3. /\ records' \in Seq(Range(records')) /\ Len(records') = Len(records) + 1
        /\ Last(records') = end /\ \A i \in 1..Len(records) : records'[i] = records[i]
    BY <1>0, <2>1, AppendRecord
  <2>4. (Len(records) - 2)' = n /\ Len(records') >= 2
    BY <2>2, <2>3
  <2> HIDE DEF n
  <2>5. PICK m \in Nat : m = n
    BY <2>2
  <2>6. (AllProbed(m)' <=> AllProbed(m)) /\ FirstHops(m)'
    BY <1>0, <2>1, <2>2, <2>3, <2>5, FirstRecordsStay
  <2>7. \A d \in 1..m : records'[d + 1] = records[d + 1]
    <3>1. \A d \in 1..m : d + 1 \in 1..Len(records)
      BY <1>0, <2>2, <2>5
    <3> QED
      BY <2>3, <3>1
  <2>8. Concluded(m)'
    BY <2>1, <2>2, <2>5, <2>6, <2>7 DEF Concluded
  <2>9. FirstHops(Len(records) - 2)' /\ Concluded(Len(records) - 2)'
    BY <2>4, <2>5, <2>6, <2>8
  <2>10. Last(records') = TraceEnd(trace_id, destination_reached, stop_reason, reliability)'
    BY <2>1, <2>3 DEF end, stop_reason
  <2> QED
    BY <2>1, <2>3, <2>4, <2>9, <2>10 DEF StreamOK, AtEnd
<1>13. CASE Fail
  BY <1>0, <1>13 DEF Fail, StreamOK
<1>14. CASE Network
  BY <1>1, <1>14 DEF Network, Answer, tracer
<1>15. CASE Elapse
  BY <1>1, <1>15 DEF Elapse, tracer
<1> QED
  BY <1>2, <1>3, <1>7, <1>8, <1>9, <1>10, <1>11, <1>12, <1>13, <1>14, <1>15 DEF Next, Trace

-----------------------------------------------------------------------------
\* The invariant holds from the start, ...
LEMMA TraceInit == Init => TraceInv
<1> SUFFICES ASSUME Init PROVE TraceInv
  OBVIOUS
<1>1. /\ plan \in ProbePlan /\ plan.max_hops \in Nat \ {0} /\ plan.probes_per_hop \in Nat \ {0}
      /\ plan.max_packets \in Nat \ {0}
  BY PlanTypes DEF Init
<1>2. RunOK
  <2>1. ttl \in 1..plan.max_hops + 1 /\ observations \in Seq(Observation) /\ Len(observations) = 0
    BY <1>1 DEF Init
  <2>2. phase = "hop" /\ phase \in Phases /\ Len(observations) <= plan.probes_per_hop
    BY <1>1, <2>1 DEF Init, Phases
  <2>3. {elapsed, destination_reached, duration_exhausted} \subseteq BOOLEAN
    BY DEF Init
  <2> QED
    BY <1>1, <2>1, <2>2, <2>3 DEF RunOK
<1>3. CountersOK
  <2>1. Due = 0
    BY <1>1 DEF Init, Due
  <2>2. Numbered
    BY <1>1, <2>1 DEF Init, Numbered
  <2>3. Counted
    BY <1>1 DEF Init, Counted, Reliability, Results
  <2> QED
    BY <2>2, <2>3 DEF CountersOK
<1>4. WireOK
  <2>1. IsFiniteSet(in_flight) /\ Cardinality(in_flight) = 0
    BY FS_EmptySet DEF Init
  <2> QED
    BY <2>1 DEF Init, WireOK
<1>5. StreamOK
  <2>1. records \in Seq(Range(records)) /\ Len(records) = 1
    <3>1. records[1] \in Range(records)
      BY DEF Init, Range
    <3> QED
      BY <3>1 DEF Init
  <2>2. ttl = 1 /\ ttl - 1 = 0 /\ AllProbed(0) /\ FirstHops(0)
    BY DEF Init, AllProbed, FirstHops
  <2>3. AtHop
    BY <2>1, <2>2 DEF Init, AtHop
  <2> QED
    BY <2>1, <2>3 DEF Init, StreamOK
<1> QED
  BY <1>2, <1>3, <1>4, <1>5 DEF TraceInv

\* ... through the trace, ...
LEMMA TraceStep == TraceInv /\ [Next]_vars => TraceInv'
BY RunStep, NumberedStep, CountedStep, WireStep, StreamStep DEF TraceInv, CountersOK

\* ... when its stream is taken up, ...
LEMMA TakenUp == TraceInv /\ StartEnrichment => TraceInv'
<1> SUFFICES ASSUME TraceInv, StartEnrichment PROVE TraceInv'
  OBVIOUS
<1>1. /\ phase = "ended" /\ phase' = "enrich"
      /\ UNCHANGED <<plan, ttl, observations, records, sequence, reliability,
                     destination_reached, duration_exhausted, network, elapsed>>
  BY DEF StartEnrichment
<1>2. RunOK'
  BY <1>1 DEF TraceInv, RunOK, Phases
<1>3. Numbered' /\ Counted'
  BY <1>1 DEF TraceInv, CountersOK, Numbered, Counted, Results
<1>4. WireOK'
  BY <1>1 DEF TraceInv, WireOK, network
<1>5. StreamOK'
  <2>1. /\ AtEnd => AtEnd'
        /\ FirstHops(Len(records) - 2) => FirstHops(Len(records) - 2)'
    BY <1>1, StreamStays
  <2> QED
    BY <1>1, <2>1 DEF TraceInv, StreamOK
<1> QED
  BY <1>2, <1>3, <1>4, <1>5 DEF TraceInv, CountersOK

\* ... and when it is written again.  A hop then holds what it did, and its
\* claims; the other records stay.
LEMMA Applied ==
  ASSUME TraceInv, ApplyClaims
  PROVE  /\ records' \in Seq(Range(records')) /\ Len(records') = Len(records)
         /\ Len(records) >= 2 /\ Last(records') = Last(records)
         /\ \A d \in 1..Len(records) - 2 :
              /\ records'[d + 1].hop.ttl = records[d + 1].hop.ttl
              /\ records'[d + 1].hop.probes = records[d + 1].hop.probes
              /\ records'[d + 1].hop.unresolved \cap Fields(records'[d + 1].hop.claims) = {}
<1>1. /\ phase = "enrich" /\ records \in Seq(Range(records)) /\ Len(records) \in Nat
      /\ Len(records) >= 2 /\ FirstHops(Len(records) - 2)
      /\ Last(records) = TraceEnd(trace_id, destination_reached, stop_reason, reliability)
  BY DEF TraceInv, StreamOK, AtEnd, ApplyClaims
<1>2. records' = [i \in 1..Len(records) |->
                    IF records[i].record = "hop"
                      THEN [records[i] EXCEPT !.hop = Enriched(@)] ELSE records[i]]
  BY <1>1 DEF ApplyClaims
<1>3. records' \in Seq(Range(records')) /\ Len(records') = Len(records)
  <2>1. DOMAIN records' = 1..Len(records)
    BY <1>2
  <2>2. \A i \in 1..Len(records) : records'[i] \in Range(records')
    BY <2>1 DEF Range
  <2>3. records' = [i \in 1..Len(records) |-> records'[i]]
    BY <1>2
  <2> QED
    BY <1>1, <2>1, <2>2, <2>3
<1>4. Last(records') = Last(records)
  <2>1. Last(records).record = "trace_end" /\ Last(records) = records[Len(records)]
    BY <1>1 DEF TraceEnd, Last
  <2>2. Len(records) \in 1..Len(records)
    BY <1>1
  <2> QED
    BY <1>2, <1>3, <2>1, <2>2 DEF Last
<1>5. ASSUME NEW d \in 1..Len(records) - 2
      PROVE  /\ records'[d + 1].hop.ttl = records[d + 1].hop.ttl
             /\ records'[d + 1].hop.probes = records[d + 1].hop.probes
             /\ records'[d + 1].hop.unresolved \cap Fields(records'[d + 1].hop.claims) = {}
  <2> DEFINE r == records[d + 1]
             h == live_hop(trace_id, d, r.hop.probes)
  <2>1. d + 1 \in 1..Len(records) /\ IsHop(r, d)
    BY <1>1 DEF FirstHops
  <2>2. r = Hop(trace_id, h)
    BY <2>1 DEF IsHop
  <2> HIDE DEF h
  <2>3. r.record = "hop" /\ r.hop = h /\ [r EXCEPT !.hop = Enriched(@)].hop = Enriched(h)
    BY <2>2 DEF Hop
  <2>4. records'[d + 1].hop = Enriched(h)
    BY <1>2, <2>1, <2>3
  <2>5. PICK all : Enriched(h) = [h EXCEPT !.claims = all, !.unresolved = @ \ Fields(all)]
    BY DEF Enriched
  <2>6. PICK handle, ttl_, probes, cs, fields :
          h = [handle |-> handle, ttl |-> ttl_, probes |-> probes, claims |-> cs,
               unresolved |-> fields]
    BY DEF h, live_hop
  <2>7. /\ Enriched(h).ttl = h.ttl /\ Enriched(h).probes = h.probes
        /\ Enriched(h).claims = all /\ Enriched(h).unresolved = fields \ Fields(all)
    BY <2>5, <2>6
  <2> QED
    BY <2>3, <2>4, <2>7
<1> QED
  BY <1>1, <1>3, <1>4, <1>5

\* What is known of a run does not change when its stream is written again.
LEMMA WrittenAgain == TraceInv /\ ApplyClaims => TraceInv'
<1> SUFFICES ASSUME TraceInv, ApplyClaims PROVE TraceInv'
  OBVIOUS
<1>1. /\ phase = "enrich" /\ phase' = "enriched"
      /\ UNCHANGED <<plan, ttl, observations, sequence, reliability,
                     destination_reached, duration_exhausted, network, elapsed>>
  BY DEF ApplyClaims
<1>2. RunOK'
  BY <1>1 DEF TraceInv, RunOK, Phases
<1>3. Numbered' /\ Counted'
  BY <1>1 DEF TraceInv, CountersOK, Numbered, Counted, Results
<1>4. WireOK'
  BY <1>1 DEF TraceInv, WireOK, network
<1>5. StreamOK'
  <2>1. AtEnd
    BY <1>1 DEF TraceInv, StreamOK
  <2>2. Concluded(Len(records) - 2)'
    BY <1>1, <2>1, Applied DEF AtEnd, Concluded, AllProbed
  <2>3. Last(records') = TraceEnd(trace_id, destination_reached, stop_reason, reliability)'
    BY <1>1, <2>1, Applied DEF AtEnd, stop_reason
  <2> QED
    BY <1>1, <2>2, <2>3, Applied DEF StreamOK, AtEnd
<1> QED
  BY <1>2, <1>3, <1>4, <1>5 DEF TraceInv, CountersOK

\* A step of the enrichment alone leaves the trace as it is.
LEMMA TraceUnchanged == TraceInv /\ UNCHANGED vars => TraceInv'
BY TraceStep

\* TraceInv is an invariant of the trace and of its enrichment.
LEMMA TraceInvariant == EnrichmentSpec => []TraceInv
<1>1. EnrichmentInit => TraceInv
  BY TraceInit DEF EnrichmentInit
<1>2. TraceInv /\ [EnrichmentNext]_allVars => TraceInv'
  BY TraceStep, TakenUp, WrittenAgain, TraceUnchanged DEF EnrichmentNext, Enrich, allVars
<1> QED
  BY <1>1, <1>2, PTL DEF EnrichmentSpec

\* The type of the tracer's state: the counters never exceed the plan, and an
\* answer is always to a probe that was sent.
THEOREM RouteTypeCorrect == EnrichmentSpec => []RouteTypeOK
<1>1. TraceInv => RouteTypeOK
  <2> SUFFICES ASSUME TraceInv PROVE RouteTypeOK
    OBVIOUS
  <2>1. /\ sequence \in Nat /\ sequence <= plan.max_packets /\ plan.max_packets \in Nat
        /\ plan \in ProbePlan /\ ttl \in 1..plan.max_hops + 1
    BY PlanTypes DEF TraceInv, RunOK, CountersOK, Numbered
  <2> DEFINE r == reliability
  <2>2. /\ r \in Reliability /\ r.planned_packets = plan.max_packets
        /\ r.attempted_packets = sequence /\ r.sent_packets <= sequence
        /\ r.replies + r.timeouts + r.local_errors <= sequence
    BY DEF TraceInv, CountersOK, Counted, Results
  <2>3. /\ r = [planned_packets |-> r.planned_packets, attempted_packets |-> r.attempted_packets,
                sent_packets |-> r.sent_packets, replies |-> r.replies,
                timeouts |-> r.timeouts, local_errors |-> r.local_errors]
        /\ r.sent_packets \in Nat /\ r.replies \in Nat /\ r.timeouts \in Nat
        /\ r.local_errors \in Nat
    BY <2>2 DEF Reliability
  <2> HIDE DEF r
  <2>4. /\ r.sent_packets \in 0..sequence /\ r.replies \in 0..sequence
        /\ r.timeouts \in 0..sequence /\ r.local_errors \in 0..sequence
    BY <2>1, <2>2, <2>3
  <2>5. r \in [planned_packets : {plan.max_packets}, attempted_packets : {sequence},
               sent_packets : 0..sequence, replies : 0..sequence,
               timeouts : 0..sequence, local_errors : 0..sequence]
    BY <2>2, <2>3, <2>4
  <2> QED
    BY <2>1, <2>5 DEF r, TraceInv, RunOK, WireOK, RouteTypeOK
<1> QED
  BY <1>1, TraceInvariant, PTL

\* Whatever the network does, the stop reason a footer states is what happened,
\* and the target is never found nearer than it is.
THEOREM StopReasonsAreTrue == EnrichmentSpec => []StopReasonIsTrue
<1>1. TraceInv => StopReasonIsTrue
  <2> SUFFICES ASSUME TraceInv, Written PROVE StopReasonIsTrue
    BY DEF StopReasonIsTrue
  <2> DEFINE n == Len(records) - 2
             hops == Hops(records)
             all_probed == \A i \in DOMAIN hops : Len(hops[i].probes) = plan.probes_per_hop
             reason == Last(records).stop_reason
  <2>1. /\ records \in Seq(Range(records)) /\ Len(records) >= 2 /\ Concluded(n)
        /\ Last(records) = TraceEnd(trace_id, destination_reached, stop_reason, reliability)
    BY DEF TraceInv, StreamOK, AtEnd, Written
  <2>2. n \in Nat
    BY <2>1
  <2>3. /\ DOMAIN hops = 1..n /\ Len(hops) = n /\ \A i \in 1..n : hops[i] = records[i + 1].hop
    BY <2>1, HopsOf
  <2> HIDE DEF hops, n
  <2>4. all_probed <=> AllProbed(n)
    BY <2>3 DEF AllProbed
  <2>5. reason = stop_reason
    BY <2>1 DEF TraceEnd
  <2> HIDE DEF all_probed, reason
  <2>6. n > 0 => Last(hops) = hops[n] /\ hops[n].ttl = n
    BY <2>1, <2>2, <2>3 DEF Last, Concluded
  <2>7. CASE destination_reached
    <3>1. reason = "destination_reached" /\ Last(hops).ttl > Len(Path)
      BY <2>1, <2>5, <2>6, <2>7 DEF stop_reason, Concluded
    <3> QED
      BY <3>1 DEF StopReasonIsTrue, reason, hops
  <2>8. CASE ~destination_reached /\ duration_exhausted
    <3>1. reason = "duration_budget" /\ elapsed /\ ~(n = plan.max_hops /\ AllProbed(n))
      BY <2>1, <2>5, <2>8 DEF stop_reason, Concluded
    <3> QED
      BY <2>3, <2>4, <3>1 DEF StopReasonIsTrue, reason, hops, all_probed
  <2>9. CASE ~destination_reached /\ ~duration_exhausted
    <3>1. reason = "max_hops" /\ n = plan.max_hops /\ AllProbed(n)
      BY <2>1, <2>5, <2>9 DEF stop_reason, Concluded
    <3> QED
      BY <2>3, <2>4, <3>1 DEF StopReasonIsTrue, reason, hops, all_probed
  <2> QED
    BY <2>7, <2>8, <2>9
<1> QED
  BY <1>1, TraceInvariant, PTL

-----------------------------------------------------------------------------
\* What a replay counts.  A probe's place.
LEMMA PlaceOf ==
  ASSUME NEW hops, NEW at
  PROVE  at \in Probes(hops) <=>
           \E i \in DOMAIN hops : \E j \in DOMAIN hops[i].probes : at = <<i, j>>
<1>1. ASSUME at \in Probes(hops)
      PROVE  \E i \in DOMAIN hops : \E j \in DOMAIN hops[i].probes : at = <<i, j>>
  <2>1. PICK i \in DOMAIN hops : at \in {i} \X DOMAIN hops[i].probes
    BY <1>1 DEF Probes
  <2> QED
    BY <2>1
<1>2. ASSUME NEW i \in DOMAIN hops, NEW j \in DOMAIN hops[i].probes, at = <<i, j>>
      PROVE  at \in Probes(hops)
  <2>1. at \in {i} \X DOMAIN hops[i].probes
    BY <1>2
  <2> QED
    BY <2>1 DEF Probes
<1> QED
  BY <1>1, <1>2

\* What is counted depends on the probes only.
LEMMA SameTally ==
  ASSUME NEW a, NEW b, Probes(a) = Probes(b),
         \A at \in Probes(a) : Probe(a, at) = Probe(b, at)
  PROVE  (\A outcomes : Count(a, outcomes) = Count(b, outcomes)) /\ (Observed(a) <=> Observed(b))
<1>1. ASSUME NEW outcomes
      PROVE  Count(a, outcomes) = Count(b, outcomes)
  <2>1. {at \in Probes(a) : Probe(a, at).outcome \in outcomes}
          = {at \in Probes(b) : Probe(b, at).outcome \in outcomes}
    OBVIOUS
  <2> QED
    BY <2>1 DEF Count
<1>2. Observed(a) <=> Observed(b)
  BY DEF Observed
<1> QED
  BY <1>1, <1>2

\* One probe more is counted once, under its outcome.
LEMMA OneMore ==
  ASSUME NEW a, NEW b, NEW p, IsFiniteSet(Probes(a)), p \notin Probes(a),
         Probes(b) = Probes(a) \cup {p}, \A at \in Probes(a) : Probe(a, at) = Probe(b, at)
  PROVE  /\ IsFiniteSet(Probes(b)) /\ Cardinality(Probes(b)) = Cardinality(Probes(a)) + 1
         /\ \A outcomes : Count(b, outcomes) = IF Probe(b, p).outcome \in outcomes
                                                 THEN Count(a, outcomes) + 1
                                                 ELSE Count(a, outcomes)
         /\ Observed(b) <=>
              \/ Observed(a)
              \/ Probe(b, p).outcome = "destination_reached" /\ Probe(b, p).responder = Target
<1>1. IsFiniteSet(Probes(b)) /\ Cardinality(Probes(b)) = Cardinality(Probes(a)) + 1
  BY FS_AddElement
<1>2. ASSUME NEW outcomes
      PROVE  Count(b, outcomes) = IF Probe(b, p).outcome \in outcomes
                                    THEN Count(a, outcomes) + 1 ELSE Count(a, outcomes)
  <2> DEFINE A == {at \in Probes(a) : Probe(a, at).outcome \in outcomes}
             B == {at \in Probes(b) : Probe(b, at).outcome \in outcomes}
  <2>1. IsFiniteSet(A) /\ p \notin A
    BY FS_Subset
  <2>2. Probe(b, p).outcome \in outcomes => B = A \cup {p}
    OBVIOUS
  <2>3. Probe(b, p).outcome \notin outcomes => B = A
    OBVIOUS
  <2> HIDE DEF A, B
  <2>4. Probe(b, p).outcome \in outcomes => Cardinality(B) = Cardinality(A) + 1
    BY <2>1, <2>2, FS_AddElement
  <2>5. Count(a, outcomes) = Cardinality(A) /\ Count(b, outcomes) = Cardinality(B)
    BY DEF Count, A, B
  <2> QED
    BY <2>3, <2>4, <2>5
<1>3. Observed(b) <=>
        \/ Observed(a)
        \/ Probe(b, p).outcome = "destination_reached" /\ Probe(b, p).responder = Target
  BY DEF Observed
<1> QED
  BY <1>1, <1>2, <1>3

\* The same probes are at the same places.
SameProbes(a, b) == Probes(a) = Probes(b) /\ \A at \in Probes(a) : Probe(a, at) = Probe(b, at)

\* Places are those of each hop's probes.
LEMMA SamePlaces ==
  ASSUME NEW a, NEW b, DOMAIN a = DOMAIN b, \A i \in DOMAIN a : a[i].probes = b[i].probes
  PROVE  SameProbes(a, b)
<1>1. \A at : at \in Probes(a) <=> at \in Probes(b)
  BY PlaceOf
<1>2. ASSUME NEW at \in Probes(a)
      PROVE  Probe(a, at) = Probe(b, at)
  <2>1. PICK i \in DOMAIN a : \E j \in DOMAIN a[i].probes : at = <<i, j>>
    BY PlaceOf
  <2> QED
    BY <2>1 DEF Probe
<1> QED
  BY <1>1, <1>2 DEF SameProbes

\* A hop without probes adds none.
LEMMA EmptyHop ==
  ASSUME NEW a, NEW b, NEW k, DOMAIN b = DOMAIN a \cup {k}, k \notin DOMAIN a,
         \A i \in DOMAIN a : a[i].probes = b[i].probes, b[k].probes = <<>>
  PROVE  SameProbes(a, b)
<1>1. DOMAIN b[k].probes = {}
  OBVIOUS
<1>2. \A at : at \in Probes(a) <=> at \in Probes(b)
  BY <1>1, PlaceOf
<1>3. ASSUME NEW at \in Probes(a)
      PROVE  Probe(a, at) = Probe(b, at)
  <2>1. PICK i \in DOMAIN a : \E j \in DOMAIN a[i].probes : at = <<i, j>>
    BY PlaceOf
  <2> QED
    BY <2>1 DEF Probe
<1> QED
  BY <1>2, <1>3 DEF SameProbes

\* One probe more at the end of one hop.
LEMMA ProbeAppended ==
  ASSUME NEW a, NEW b, NEW k \in DOMAIN a, DOMAIN b = DOMAIN a, NEW S, a[k].probes \in Seq(S),
         NEW o \in S, b[k].probes = Append(a[k].probes, o),
         \A i \in DOMAIN a : i # k => a[i].probes = b[i].probes
  PROVE  \E p : /\ p \notin Probes(a) /\ Probes(b) = Probes(a) \cup {p} /\ Probe(b, p) = o
                /\ \A at \in Probes(a) : Probe(a, at) = Probe(b, at)
<1> DEFINE n == Len(a[k].probes)
           p == <<k, n + 1>>
<1>1. /\ n \in Nat /\ DOMAIN a[k].probes = 1..n /\ DOMAIN b[k].probes = 1..n + 1
      /\ b[k].probes[n + 1] = o /\ \A j \in 1..n : b[k].probes[j] = a[k].probes[j]
  OBVIOUS
<1> HIDE DEF n
<1>2. p \notin Probes(a)
  <2>1. n + 1 \notin 1..n
    BY <1>1
  <2> QED
    BY <1>1, <2>1, PlaceOf
<1>3. \A j : j \in 1..n + 1 <=> j \in 1..n \/ j = n + 1
  BY <1>1
<1>4. ASSUME NEW at
      PROVE  at \in Probes(b) <=> at \in Probes(a) \cup {p}
  <2>1. ASSUME at \in Probes(b)
        PROVE  at \in Probes(a) \cup {p}
    <3>1. PICK i \in DOMAIN b : \E j \in DOMAIN b[i].probes : at = <<i, j>>
      BY <2>1, PlaceOf
    <3>2. PICK j \in DOMAIN b[i].probes : at = <<i, j>>
      BY <3>1
    <3>3. CASE i = k
      <4>1. j \in 1..n \/ at = p
        BY <1>1, <1>3, <3>2, <3>3
      <4> QED
        BY <1>1, <3>2, <3>3, <4>1, PlaceOf
    <3>4. CASE i # k
      BY <3>2, <3>4, PlaceOf
    <3> QED
      BY <3>3, <3>4
  <2>2. ASSUME at \in Probes(a)
        PROVE  at \in Probes(b)
    <3>1. PICK i \in DOMAIN a : \E j \in DOMAIN a[i].probes : at = <<i, j>>
      BY <2>2, PlaceOf
    <3>2. PICK j \in DOMAIN a[i].probes : at = <<i, j>>
      BY <3>1
    <3>3. j \in DOMAIN b[i].probes
      BY <1>1, <1>3, <3>2
    <3> QED
      BY <3>2, <3>3, PlaceOf
  <2>3. p \in Probes(b)
    BY <1>1, <1>3, PlaceOf
  <2> QED
    BY <2>1, <2>2, <2>3
<1>5. Probe(b, p) = o
  BY <1>1 DEF Probe
<1>6. ASSUME NEW at \in Probes(a)
      PROVE  Probe(a, at) = Probe(b, at)
  <2>1. PICK i \in DOMAIN a : \E j \in DOMAIN a[i].probes : at = <<i, j>>
    BY PlaceOf
  <2>2. PICK j \in DOMAIN a[i].probes : at = <<i, j>>
    BY <2>1
  <2>3. a[i].probes[j] = b[i].probes[j]
    BY <1>1, <2>2
  <2> QED
    BY <2>2, <2>3 DEF Probe
<1>7. Probes(b) = Probes(a) \cup {p}
  BY <1>4
<1> HIDE DEF p
<1> QED
  BY <1>2, <1>5, <1>6, <1>7

-----------------------------------------------------------------------------
\* The hops recorded.
LEMMA RecordedIs ==
  ASSUME TraceInv, Running
  PROVE  /\ Len(records) \in Nat /\ Len(records) >= 1 /\ Recorded \in Nat
         /\ phase \in {"ended", "enrich", "enriched"} =>
              Recorded = Len(records) - 2 /\ Len(records) >= 2
         /\ phase \notin {"ended", "enrich", "enriched"} => Recorded = Len(records) - 1
         /\ Probing => Recorded = ttl - 1 /\ Len(records) = ttl
<1>1. /\ Len(records) \in Nat /\ ttl \in Nat \ {0}
      /\ phase \in {"hop", "probe", "wait"} => Len(records) = ttl
      /\ phase = "finish" => Len(records) >= 1
      /\ phase \in {"ended", "enrich", "enriched"} => Len(records) >= 2
    BY PlanTypes DEF TraceInv, RunOK, StreamOK, AtHop, InHop, AtFinish, AtEnd
<1>2. phase \in Phases
  BY DEF TraceInv, RunOK
<1> QED
  BY <1>1, <1>2 DEF Recorded, Probing, Phases, Running

\* What was seen, hop by hop.
SeenByHop ==
  /\ DOMAIN Seen = 1..Recorded + (IF Probing THEN 1 ELSE 0)
  /\ \A d \in 1..Recorded : d \in DOMAIN Seen /\ Seen[d] = records[d + 1].hop
  /\ Probing => /\ DOMAIN Seen = 1..Recorded \cup {Recorded + 1}
                /\ Recorded + 1 \notin 1..Recorded
                /\ Seen[Recorded + 1].probes = observations
  /\ ~Probing => DOMAIN Seen = 1..Recorded

LEMMA SeenIs == TraceInv /\ Running => SeenByHop
<1> SUFFICES ASSUME TraceInv, Running PROVE SeenByHop
  OBVIOUS
<1> DEFINE n == Recorded
<1>0. n \in Nat
  BY RecordedIs
<1>1. DOMAIN Seen = 1..n + (IF Probing THEN 1 ELSE 0)
  BY DEF Seen
<1>2. ~Probing => n + (IF Probing THEN 1 ELSE 0) = n
  BY <1>0
<1>3. Probing => n + (IF Probing THEN 1 ELSE 0) = n + 1
  BY <1>0
<1>4. 1..n + 1 = 1..n \cup {n + 1} /\ n + 1 \notin 1..n /\ ~(n + 1 <= n)
  BY <1>0
<1>5. \A d \in 1..n : d \in DOMAIN Seen /\ d <= n
  BY <1>0, <1>1, <1>2, <1>3, <1>4
<1>6. \A d \in 1..n : Seen[d] = records[d + 1].hop
  BY <1>1, <1>5 DEF Seen
<1>7. Probing => n + 1 \in DOMAIN Seen
  BY <1>1, <1>3, <1>4
<1>8. Probing => Seen[n + 1] = [probes |-> observations]
  BY <1>1, <1>4, <1>7 DEF Seen
<1> QED
  BY <1>1, <1>2, <1>3, <1>4, <1>5, <1>6, <1>8 DEF SeenByHop

\* Steps in which no probe's result comes in.
LEMMA TallyKept ==
  ASSUME Tallied, SameProbes(Seen, Seen'),
         UNCHANGED <<reliability, destination_reached>>, phase # "wait", phase' # "wait"
  PROVE  Tallied'
<1> PICK a, b : a = Seen /\ b = Seen'
  OBVIOUS
<1>1. SameProbes(a, b)
  OBVIOUS
<1>2. /\ Probes(b) = Probes(a) /\ (Observed(b) <=> Observed(a))
      /\ \A outcomes : Count(b, outcomes) = Count(a, outcomes)
  BY <1>1, SameTally DEF SameProbes
<1>3. /\ IsFiniteSet(Probes(b)) /\ (destination_reached <=> Observed(b))
      /\ reliability.attempted_packets = Cardinality(Probes(b)) + 0
      /\ reliability.replies = Count(b, Replied)
      /\ reliability.timeouts = Count(b, {"timeout"})
      /\ reliability.local_errors = Count(b, {"local_error"})
  BY <1>2 DEF Tallied
<1> QED
  BY <1>3 DEF Tallied

\* Records that stay where they were are read as they were.
LEMMA StillReads ==
  ASSUME NEW n \in Nat, UNCHANGED plan, records'[1] = records[1],
         \A d \in 1..n : records'[d + 1] = records[d + 1],
         records[1] = TraceStart(trace_id, plan), \A d \in 1..n : ReadsAs(records[d + 1], d)
  PROVE  /\ records'[1] = TraceStart(trace_id, plan')
         /\ \A d \in 1..n : ReadsAs(records[d + 1], d)'
<1>1. \A d \in 1..n : ReadsAs(records[d + 1], d)'
  BY DEF ReadsAs
<1> QED
  BY <1>1

\* The result of a probe comes in, and is counted.
Result(o) ==
  /\ observations' = Append(observations, o)
  /\ reliability.attempted_packets \in Nat
  /\ reliability'.attempted_packets
       = reliability.attempted_packets + (IF phase = "wait" THEN 0 ELSE 1)
  /\ reliability'.replies
       = IF o.outcome \in Replied THEN reliability.replies + 1 ELSE reliability.replies
  /\ reliability'.timeouts
       = IF o.outcome = "timeout" THEN reliability.timeouts + 1 ELSE reliability.timeouts
  /\ reliability'.local_errors
       = IF o.outcome = "local_error" THEN reliability.local_errors + 1
                                     ELSE reliability.local_errors
  /\ destination_reached' <=>
       destination_reached \/ (o.outcome = "destination_reached" /\ o.responder = Target)

LEMMA ResultTallied ==
  ASSUME TraceInv, TraceInv', ReplayInv, Running, Probing, phase' = "probe",
         UNCHANGED <<plan, ttl, records>>, NEW o \in Observation, Result(o)
  PROVE  ReplayInv'
<1>1. Probing' /\ Running' /\ Recorded' = Recorded /\ Recorded \in Nat
  BY RecordedIs DEF Probing, Recorded, Running
<1>2. PICK a, b, k : a = Seen /\ b = Seen' /\ k = Recorded + 1
  OBVIOUS
<1>3. /\ DOMAIN a = 1..Recorded \cup {k} /\ k \notin 1..Recorded
      /\ a[k].probes = observations
      /\ \A d \in 1..Recorded : a[d] = records[d + 1].hop
  BY <1>2, SeenIs DEF SeenByHop
<1>4. /\ DOMAIN b = 1..Recorded \cup {k} /\ b[k].probes = Append(observations, o)
      /\ \A d \in 1..Recorded : b[d] = records[d + 1].hop
  <2>1. SeenByHop'
    BY <1>1, SeenIs, PTL
  <2> QED
    BY <1>1, <1>2, <2>1 DEF SeenByHop, Result
<1>5. PICK p : /\ p \notin Probes(a) /\ Probes(b) = Probes(a) \cup {p} /\ Probe(b, p) = o
               /\ \A at \in Probes(a) : Probe(a, at) = Probe(b, at)
  <2>1. observations \in Seq(Observation)
    BY DEF TraceInv, RunOK
  <2>2. /\ k \in DOMAIN a /\ DOMAIN b = DOMAIN a /\ a[k].probes \in Seq(Observation)
        /\ b[k].probes = Append(a[k].probes, o)
        /\ \A i \in DOMAIN a : i # k => a[i].probes = b[i].probes
    BY <1>3, <1>4, <2>1
  <2> QED
    BY <2>2, ProbeAppended
<1>6. Tallied
  BY DEF ReplayInv
<1>7. IsFiniteSet(Probes(a)) /\ Cardinality(Probes(a)) \in Nat
  BY <1>2, <1>6, FS_CardinalityType DEF Tallied
<1>8. /\ IsFiniteSet(Probes(b)) /\ Cardinality(Probes(b)) = Cardinality(Probes(a)) + 1
      /\ \A outcomes : Count(b, outcomes) = IF o.outcome \in outcomes
                                              THEN Count(a, outcomes) + 1 ELSE Count(a, outcomes)
      /\ Observed(b) <=> \/ Observed(a)
                         \/ o.outcome = "destination_reached" /\ o.responder = Target
  <2>1. /\ IsFiniteSet(Probes(b)) /\ Cardinality(Probes(b)) = Cardinality(Probes(a)) + 1
        /\ \A outcomes : Count(b, outcomes) = IF Probe(b, p).outcome \in outcomes
                                                THEN Count(a, outcomes) + 1
                                                ELSE Count(a, outcomes)
        /\ Observed(b) <=>
             \/ Observed(a)
             \/ Probe(b, p).outcome = "destination_reached" /\ Probe(b, p).responder = Target
    BY <1>5, <1>7, OneMore
  <2> QED
    BY <1>5, <2>1
<1>9. reliability'.attempted_packets = Cardinality(Probes(b)) + 0
  <2>1. reliability.attempted_packets
          = Cardinality(Probes(a)) + (IF phase = "wait" THEN 1 ELSE 0)
    BY <1>2, <1>6 DEF Tallied
  <2> QED
    BY <1>7, <1>8, <2>1 DEF Result
<1>10. /\ reliability'.replies = Count(b, Replied)
       /\ reliability'.timeouts = Count(b, {"timeout"})
       /\ reliability'.local_errors = Count(b, {"local_error"})
  <2>1. /\ reliability.replies = Count(a, Replied)
        /\ reliability.timeouts = Count(a, {"timeout"})
        /\ reliability.local_errors = Count(a, {"local_error"})
    BY <1>2, <1>6 DEF Tallied
  <2>2. /\ o.outcome \in {"timeout"} <=> o.outcome = "timeout"
        /\ o.outcome \in {"local_error"} <=> o.outcome = "local_error"
    OBVIOUS
  <2> QED
    BY <1>8, <2>1, <2>2 DEF Result
<1>11. destination_reached' <=> Observed(b)
  BY <1>2, <1>6, <1>8 DEF Tallied, Result
<1>12. Tallied'
  BY <1>2, <1>8, <1>9, <1>10, <1>11 DEF Tallied
<1>13. /\ records'[1] = TraceStart(trace_id, plan')
       /\ \A d \in 1..Recorded' : ReadsAs(records[d + 1], d)'
  BY <1>1, StillReads DEF ReplayInv
<1> QED
  BY <1>12, <1>13 DEF ReplayInv

\* What the results' counters become.
LEMMA OneResult ==
  ASSUME NEW r \in Reliability
  PROVE  /\ LET q == [[r EXCEPT !.attempted_packets = @ + 1] EXCEPT !.local_errors = @ + 1]
            IN /\ q.attempted_packets = r.attempted_packets + 1
               /\ q.replies = r.replies /\ q.timeouts = r.timeouts
               /\ q.local_errors = r.local_errors + 1
         /\ LET q == [r EXCEPT !.timeouts = @ + 1]
            IN /\ q.attempted_packets = r.attempted_packets + 0
               /\ q.replies = r.replies /\ q.timeouts = r.timeouts + 1
               /\ q.local_errors = r.local_errors
         /\ LET q == [r EXCEPT !.replies = @ + 1]
            IN /\ q.attempted_packets = r.attempted_packets + 0
               /\ q.replies = r.replies + 1 /\ q.timeouts = r.timeouts
               /\ q.local_errors = r.local_errors
<1>1. /\ r = [planned_packets |-> r.planned_packets, attempted_packets |-> r.attempted_packets,
              sent_packets |-> r.sent_packets, replies |-> r.replies,
              timeouts |-> r.timeouts, local_errors |-> r.local_errors]
      /\ r.attempted_packets \in Nat
  BY DEF Reliability
<1>2. LET q == [r EXCEPT !.timeouts = @ + 1]
      IN /\ q.attempted_packets = r.attempted_packets + 0
         /\ q.replies = r.replies /\ q.timeouts = r.timeouts + 1
         /\ q.local_errors = r.local_errors
  BY <1>1
<1>3. LET q == [r EXCEPT !.replies = @ + 1]
      IN /\ q.attempted_packets = r.attempted_packets + 0
         /\ q.replies = r.replies + 1 /\ q.timeouts = r.timeouts
         /\ q.local_errors = r.local_errors
  BY <1>1
<1> DEFINE one == [r EXCEPT !.attempted_packets = @ + 1]
<1>4. one = [planned_packets |-> r.planned_packets,
             attempted_packets |-> r.attempted_packets + 1,
             sent_packets |-> r.sent_packets, replies |-> r.replies,
             timeouts |-> r.timeouts, local_errors |-> r.local_errors]
  BY <1>1
<1> HIDE DEF one
<1>5. LET q == [one EXCEPT !.local_errors = @ + 1]
      IN /\ q.attempted_packets = r.attempted_packets + 1
         /\ q.replies = r.replies /\ q.timeouts = r.timeouts
         /\ q.local_errors = r.local_errors + 1
  BY <1>4
<1> QED
  BY <1>2, <1>3, <1>5 DEF one

\* The three ways a probe ends.
LEMMA ResultStep ==
  ASSUME TraceInv, TraceInv', ReplayInv, Running, SendFails \/ TimeOut \/ Receive
  PROVE  ReplayInv'
<1>0. /\ reliability \in Reliability /\ reliability.attempted_packets \in Nat
      /\ sequence \in Nat
  BY DEF TraceInv, CountersOK, Counted, Numbered, Reliability
<1>1. ASSUME NEW outcome \in ProbeOutcome, NEW responder \in Address \cup {None}, sequence' \in Nat
      PROVE  LET o == ProbeObservation(sequence', outcome, responder)
             IN o \in Observation /\ o.outcome = outcome /\ o.responder = responder
  BY <1>1 DEF ProbeObservation, Observation
<1>2. CASE SendFails
  <2> DEFINE o == ProbeObservation(sequence', "local_error", None)
  <2>1. /\ phase = "probe" /\ phase' = "probe" /\ sequence' = sequence + 1
        /\ observations' = Append(observations, o)
        /\ UNCHANGED <<plan, ttl, records, destination_reached>>
        /\ reliability' = [[reliability EXCEPT !.attempted_packets = @ + 1]
                             EXCEPT !.local_errors = @ + 1]
    BY <1>2 DEF SendFails, Observe, Attempted
  <2>2. o \in Observation /\ o.outcome = "local_error"
    <3>1. "local_error" \in ProbeOutcome /\ sequence' \in Nat
      BY <1>0, <2>1 DEF ProbeOutcome
    <3> QED
      BY <1>1, <3>1
  <2> HIDE DEF o
  <2>3. Result(o)
    BY <1>0, <2>1, <2>2, OneResult DEF Result, Replied
  <2> QED
    BY <2>1, <2>2, <2>3, ResultTallied DEF Probing
<1>3. CASE TimeOut
  <2> DEFINE o == ProbeObservation(sequence', "timeout", None)
  <2>1. /\ phase = "wait" /\ phase' = "probe" /\ sequence' = sequence
        /\ observations' = Append(observations, o)
        /\ UNCHANGED <<plan, ttl, records, destination_reached>>
        /\ reliability' = [reliability EXCEPT !.timeouts = @ + 1]
    BY <1>3 DEF TimeOut, Observe
  <2>2. o \in Observation /\ o.outcome = "timeout"
    <3>1. "timeout" \in ProbeOutcome /\ sequence' \in Nat
      BY <1>0, <2>1 DEF ProbeOutcome
    <3> QED
      BY <1>1, <3>1
  <2> HIDE DEF o
  <2>3. Result(o)
    BY <1>0, <2>1, <2>2, OneResult DEF Result, Replied
  <2> QED
    BY <2>1, <2>2, <2>3, ResultTallied DEF Probing
<1>4. CASE Receive
  <2> DEFINE e == Head(queue)
             c == classify_icmp(e.icmp, e.responder)
             o == ProbeObservation(sequence', c, e.responder)
  <2>1. e.responder \in Address
    <3>1. e \in Error
      BY <1>4 DEF TraceInv, WireOK, Receive
    <3> QED
      BY <3>1 DEF Error
  <2>2. /\ c \in Replied /\ c \in ProbeOutcome /\ c \notin {"timeout", "local_error"}
        /\ c = "destination_reached" => e.responder = Target
    BY DEF classify_icmp, Replied, ProbeOutcome
  <2>3. /\ phase = "wait" /\ phase' = "probe" /\ sequence' = sequence
        /\ observations' = Append(observations, o)
        /\ UNCHANGED <<plan, ttl, records>>
        /\ destination_reached' = (destination_reached \/ c = "destination_reached")
        /\ reliability' = [reliability EXCEPT !.replies = @ + 1]
    BY <1>4 DEF Receive, Observe
  <2> HIDE DEF e, c
  <2>4. o \in Observation /\ o.outcome = c /\ o.responder = e.responder
    <3>1. e.responder \in Address \cup {None} /\ sequence' \in Nat
      BY <1>0, <2>1, <2>3
    <3> QED
      BY <1>1, <2>2, <3>1
  <2> HIDE DEF o
  <2>5. destination_reached' <=>
          destination_reached \/ (o.outcome = "destination_reached" /\ o.responder = Target)
    BY <2>2, <2>3, <2>4
  <2>6. Result(o)
    BY <1>0, <2>2, <2>3, <2>4, <2>5, OneResult DEF Result
  <2> QED
    BY <2>3, <2>4, <2>6, ResultTallied DEF Probing
<1> QED
  BY <1>2, <1>3, <1>4

\* A hop begins, or none does: no probe has been made in it.
LEMMA StartTallied ==
  ASSUME TraceInv, TraceInv', ReplayInv, Running, StartHop
  PROVE  ReplayInv'
<1>1. /\ phase = "hop" /\ phase' \in {"finish", "probe"} /\ observations' = <<>>
      /\ UNCHANGED <<plan, ttl, records, reliability, destination_reached>>
  BY DEF StartHop
<1>2. /\ ~Probing /\ Running' /\ Recorded' = Recorded /\ Recorded \in Nat
      /\ Probing' <=> phase' = "probe"
  BY <1>1, RecordedIs DEF Probing, Running, Recorded
<1>3. SeenByHop /\ SeenByHop'
  BY <1>2, SeenIs, PTL
<1>4. PICK a, b : a = Seen /\ b = Seen'
  OBVIOUS
<1>5. DOMAIN a = 1..Recorded /\ \A d \in 1..Recorded : a[d] = records[d + 1].hop
  BY <1>2, <1>3, <1>4 DEF SeenByHop
<1>6. /\ \A d \in 1..Recorded : b[d] = records[d + 1].hop
      /\ ~Probing' => DOMAIN b = 1..Recorded
      /\ Probing' => /\ DOMAIN b = 1..Recorded \cup {Recorded + 1}
                     /\ Recorded + 1 \notin 1..Recorded /\ b[Recorded + 1].probes = <<>>
  BY <1>1, <1>2, <1>3, <1>4 DEF SeenByHop
<1>7. SameProbes(a, b)
  <2>1. CASE Probing'
    <3> PICK k : k = Recorded + 1
      OBVIOUS
    <3>1. /\ DOMAIN b = DOMAIN a \cup {k} /\ k \notin DOMAIN a
          /\ \A i \in DOMAIN a : a[i].probes = b[i].probes
          /\ b[k].probes = <<>>
      BY <1>5, <1>6, <2>1
    <3> QED
      BY <3>1, EmptyHop
  <2>2. CASE ~Probing'
    <3>1. DOMAIN a = DOMAIN b /\ \A i \in DOMAIN a : a[i].probes = b[i].probes
      BY <1>5, <1>6, <2>2
    <3> QED
      BY <3>1, SamePlaces
  <2> QED
    BY <2>1, <2>2
<1>8. Tallied'
  BY <1>1, <1>2, <1>4, <1>7, TallyKept DEF ReplayInv
<1>9. /\ records'[1] = TraceStart(trace_id, plan')
      /\ \A d \in 1..Recorded' : ReadsAs(records[d + 1], d)'
  BY <1>1, <1>2, StillReads DEF ReplayInv
<1> QED
  BY <1>8, <1>9 DEF ReplayInv

\* A probe is sent: it is counted before it has a result.
LEMMA SendTallied ==
  ASSUME TraceInv, ReplayInv, Running, SendProbe
  PROVE  ReplayInv'
<1>1. /\ phase = "probe" /\ phase' = "wait"
      /\ UNCHANGED <<plan, records, observations, destination_reached>>
      /\ reliability' = [[reliability EXCEPT !.attempted_packets = @ + 1]
                           EXCEPT !.sent_packets = @ + 1]
  BY DEF SendProbe, Attempted
<1>2. /\ Probing /\ Probing' /\ Running' /\ Recorded' = Recorded /\ Recorded \in Nat
  BY <1>1, RecordedIs DEF Probing, Running, Recorded
<1>3. Seen' = Seen
  BY <1>1, <1>2 DEF Seen
<1>4. /\ reliability'.attempted_packets = reliability.attempted_packets + 1
      /\ reliability'.replies = reliability.replies
      /\ reliability'.timeouts = reliability.timeouts
      /\ reliability'.local_errors = reliability.local_errors
  <2>1. reliability \in Reliability
    BY DEF TraceInv, CountersOK, Counted
  <2> QED
    BY <1>1, <2>1, CountUp
<1>5. Tallied'
  <2>1. Tallied
    BY DEF ReplayInv
  <2>2. Cardinality(Probes(Seen)) \in Nat
    BY <2>1, FS_CardinalityType DEF Tallied
  <2>3. reliability'.attempted_packets = Cardinality(Probes(Seen)) + 1
    BY <1>1, <1>4, <2>1, <2>2 DEF Tallied
  <2> QED
    BY <1>1, <1>3, <1>4, <2>1, <2>3 DEF Tallied
<1>6. /\ records'[1] = TraceStart(trace_id, plan')
      /\ \A d \in 1..Recorded' : ReadsAs(records[d + 1], d)'
  BY <1>1, <1>2, StillReads DEF ReplayInv
<1> QED
  BY <1>5, <1>6 DEF ReplayInv

\* A hop ends: its record holds what was observed of it, and a hop that was not
\* probed leaves none.
LEMMA EndTallied ==
  ASSUME TraceInv, TraceInv', ReplayInv, Running, EndHop
  PROVE  ReplayInv'
<1>1. /\ phase = "probe" /\ phase' \in {"finish", "hop"}
      /\ UNCHANGED <<plan, observations, reliability, destination_reached>>
      /\ records' = IF observations = <<>> THEN records
                     ELSE Append(records, Hop(trace_id, live_hop(trace_id, ttl, observations)))
  BY DEF EndHop
<1>2. /\ Probing /\ ~Probing' /\ Running' /\ Recorded \in Nat /\ Recorded = ttl - 1
      /\ Len(records) = ttl /\ Recorded' = Len(records') - 1
      /\ records \in Seq(Range(records)) /\ observations \in Seq(Observation)
      /\ Len(observations) <= plan.probes_per_hop /\ ttl \in Nat
  <2>1. /\ records \in Seq(Range(records)) /\ observations \in Seq(Observation)
        /\ Len(observations) <= plan.probes_per_hop /\ ttl \in Nat
    BY PlanTypes DEF TraceInv, StreamOK, RunOK
  <2>2. Probing /\ ~Probing' /\ Running' /\ Recorded' = Len(records') - 1
    BY <1>1 DEF Probing, Running, Recorded
  <2> QED
    BY <2>1, <2>2, RecordedIs
<1>3. SeenByHop /\ SeenByHop'
  BY <1>2, SeenIs, PTL
<1>4. PICK a, b, n : a = Seen /\ b = Seen' /\ n = Recorded
  OBVIOUS
<1>5. /\ DOMAIN a = 1..n \cup {n + 1} /\ n + 1 \notin 1..n
      /\ a[n + 1].probes = observations
      /\ \A d \in 1..n : a[d] = records[d + 1].hop
  BY <1>2, <1>3, <1>4 DEF SeenByHop
<1>6. DOMAIN b = 1..Recorded' /\ \A d \in 1..Recorded' : b[d] = records'[d + 1].hop
  BY <1>2, <1>3, <1>4 DEF SeenByHop
<1>7. /\ n \in Nat /\ records[1] = TraceStart(trace_id, plan)
      /\ \A d \in 1..n : ReadsAs(records[d + 1], d)
  BY <1>2, <1>4 DEF ReplayInv
<1>8. CASE observations = <<>>
  <2>1. records' = records /\ Recorded' = n
    BY <1>1, <1>2, <1>4, <1>8
  <2> PICK k : k = n + 1
    OBVIOUS
  <2>2. /\ DOMAIN a = DOMAIN b \cup {k} /\ k \notin DOMAIN b
        /\ \A i \in DOMAIN b : b[i].probes = a[i].probes
        /\ a[k].probes = <<>>
    BY <1>5, <1>6, <1>8, <2>1
  <2>3. SameProbes(b, a)
    BY <2>2, EmptyHop
  <2>4. SameProbes(a, b)
    BY <2>3 DEF SameProbes
  <2>5. Tallied'
    BY <1>1, <1>4, <2>4, TallyKept DEF ReplayInv, Running
  <2>6. /\ records'[1] = TraceStart(trace_id, plan')
        /\ \A d \in 1..Recorded' : ReadsAs(records[d + 1], d)'
    BY <1>1, <1>7, <2>1, StillReads
  <2> QED
    BY <2>5, <2>6 DEF ReplayInv
<1>9. CASE observations # <<>>
  <2> DEFINE h == live_hop(trace_id, ttl, observations)
             r == Hop(trace_id, h)
  <2>1. r.hop.probes = observations /\ ReadsAs(r, ttl)
    <3>1. /\ h.probes = observations /\ h.ttl = ttl
          /\ h.handle = hop_handle(trace_id, ttl, observations)
      BY DEF live_hop
    <3> HIDE DEF h
    <3>2. r.hop = h /\ r.record = "hop" /\ r.trace_id = trace_id
      BY DEF Hop
    <3> HIDE DEF r
    <3>3. Len(observations) \in 1..plan.probes_per_hop
      <4>1. Len(observations) \in Nat /\ Len(observations) # 0
        BY <1>2, <1>9
      <4>2. plan.probes_per_hop \in Nat
        BY PlanTypes DEF TraceInv, RunOK
      <4> QED
        BY <1>2, <4>1, <4>2
    <3> QED
      BY <1>2, <3>1, <3>2, <3>3 DEF ReadsAs
  <2>2. records' = Append(records, r)
    BY <1>1, <1>9
  <2> HIDE DEF r
  <2>3. /\ Len(records') = ttl + 1
        /\ records'[ttl + 1] = r /\ \A i \in 1..ttl : records'[i] = records[i]
    BY <1>2, <2>2, AppendRecord
  <2>4. Recorded' = n + 1 /\ ttl = n + 1 /\ 1 \in 1..ttl
    BY <1>2, <1>4, <2>3
  <2>5. \A d \in 1..n : d + 1 \in 1..ttl /\ records'[d + 1] = records[d + 1]
    <3>1. \A d \in 1..n : d + 1 \in 1..ttl
      BY <1>7, <2>4
    <3> QED
      BY <2>3, <3>1
  <2>6. 1..n + 1 = 1..n \cup {n + 1}
    BY <1>7
  <2>7. /\ DOMAIN b = DOMAIN a
        /\ \A i \in DOMAIN a : a[i].probes = b[i].probes
    <3>1. DOMAIN b = DOMAIN a
      BY <1>5, <1>6, <2>4, <2>6
    <3>2. b[n + 1].probes = observations
      BY <1>6, <2>1, <2>3, <2>4, <2>6
    <3>3. \A i \in 1..n : b[i] = a[i]
      BY <1>5, <1>6, <2>4, <2>5, <2>6
    <3> QED
      BY <1>5, <3>1, <3>2, <3>3
  <2>8. SameProbes(a, b)
    BY <2>7, SamePlaces
  <2>9. Tallied'
    BY <1>1, <1>4, <2>8, TallyKept DEF ReplayInv, Running
  <2>10. /\ records'[1] = TraceStart(trace_id, plan')
         /\ \A d \in 1..n : ReadsAs(records[d + 1], d)'
    BY <1>1, <1>7, <2>3, <2>4, <2>5, StillReads
  <2>11. ReadsAs(r, ttl) => ReadsAs(records[(n + 1) + 1], n + 1)'
    <3>1. ttl = n + 1 /\ records'[(n + 1) + 1] = r /\ plan' = plan
      BY <1>1, <2>3, <2>4
    <3> QED
      BY <3>1 DEF ReadsAs
  <2>12. \A d \in 1..n + 1 : ReadsAs(records[d + 1], d)'
    BY <2>1, <2>6, <2>10, <2>11
  <2> QED
    BY <2>4, <2>9, <2>10, <2>12 DEF ReplayInv
<1> QED
  BY <1>8, <1>9

\* Steps that add no hop and rewrite no record.
LEMMA RecordsRead ==
  ASSUME TraceInv, TraceInv', ReplayInv, Running, Running', ~Probing, ~Probing',
         UNCHANGED <<plan, reliability, destination_reached>>, Recorded' = Recorded,
         \A i \in 1..Len(records) : records'[i] = records[i]
  PROVE  ReplayInv'
<1>1. SeenByHop /\ SeenByHop'
  BY SeenIs, PTL
<1>2. /\ Recorded \in Nat /\ 1 \in 1..Len(records)
      /\ \A d \in 1..Recorded : d + 1 \in 1..Len(records)
  <2>1. /\ Len(records) \in Nat /\ Len(records) >= 1 /\ Recorded \in Nat
        /\ Recorded <= Len(records) - 1
    BY RecordedIs
  <2> QED
    BY <2>1
<1>3. records'[1] = records[1] /\ \A d \in 1..Recorded : records'[d + 1] = records[d + 1]
  BY <1>2
<1> PICK a, b : a = Seen /\ b = Seen'
  OBVIOUS
<1>4. DOMAIN a = 1..Recorded /\ \A d \in 1..Recorded : a[d] = records[d + 1].hop
  BY <1>1 DEF SeenByHop
<1>5. DOMAIN b = 1..Recorded /\ \A d \in 1..Recorded : b[d] = records[d + 1].hop
  BY <1>1, <1>3 DEF SeenByHop
<1>6. DOMAIN a = DOMAIN b /\ \A i \in DOMAIN a : a[i].probes = b[i].probes
  BY <1>4, <1>5
<1>7. SameProbes(a, b)
  BY <1>6, SamePlaces
<1>8. Tallied'
  <2>1. phase # "wait" /\ phase' # "wait"
    BY DEF Probing
  <2> QED
    BY <1>7, <2>1, TallyKept DEF ReplayInv
<1>9. /\ records'[1] = TraceStart(trace_id, plan')
      /\ \A d \in 1..Recorded' : ReadsAs(records[d + 1], d)'
  BY <1>2, <1>3, StillReads DEF ReplayInv
<1> QED
  BY <1>8, <1>9 DEF ReplayInv

\* The invariant holds from the start, ...
LEMMA ReplayInit == Init => ReplayInv
<1> SUFFICES ASSUME Init PROVE ReplayInv
  OBVIOUS
<1>1. Recorded = 0 /\ ~Probing /\ records[1] = TraceStart(trace_id, plan)
  BY DEF Init, Recorded, Probing
<1>2. \A d \in 1..Recorded : ReadsAs(records[d + 1], d)
  BY <1>1
<1>3. DOMAIN Seen = {}
  BY <1>1 DEF Seen
<1>4. Probes(Seen) = {}
  BY <1>3 DEF Probes
<1>5. \A outcomes : Count(Seen, outcomes) = 0
  <2>1. \A outcomes : {at \in Probes(Seen) : Probe(Seen, at).outcome \in outcomes} = {}
    BY <1>4
  <2> QED
    BY <2>1, FS_EmptySet DEF Count
<1>6. ~Observed(Seen)
  BY <1>4 DEF Observed
<1>7. Tallied
  BY <1>4, <1>5, <1>6, FS_EmptySet DEF Init, Tallied
<1> QED
  BY <1>1, <1>2, <1>7 DEF ReplayInv

\* ... through the trace, ...
LEMMA ReplayStep == TraceInv /\ ReplayInv /\ [Next]_vars => ReplayInv'
<1> SUFFICES ASSUME TraceInv, ReplayInv, [Next]_vars PROVE ReplayInv'
  OBVIOUS
<1>0. TraceInv'
  BY TraceStep
<1>1. ASSUME UNCHANGED <<plan, phase, observations, records, reliability, destination_reached>>
      PROVE  ReplayInv'
  <2>1. Recorded' = Recorded /\ Probing' = Probing /\ Running' = Running
    BY <1>1 DEF Recorded, Probing, Running
  <2>2. Seen' = Seen
    BY <1>1, <2>1 DEF Seen
  <2>3. Tallied => Tallied'
    BY <1>1, <2>2 DEF Tallied
  <2>4. (\A d \in 1..Recorded : ReadsAs(records[d + 1], d))
          => \A d \in 1..Recorded' : ReadsAs(records[d + 1], d)'
    BY <1>1, <2>1 DEF ReadsAs
  <2> QED
    BY <1>1, <2>1, <2>3, <2>4 DEF ReplayInv
<1>2. CASE UNCHANGED vars
  BY <1>1, <1>2 DEF vars, tracer
<1>3. CASE StartHop
  BY <1>0, <1>3, StartTallied DEF StartHop, Running
<1>4. CASE SendProbe
  BY <1>4, SendTallied DEF SendProbe, Running
<1>5. CASE SendFails \/ TimeOut \/ Receive
  <2>1. Running
    BY <1>5 DEF SendFails, TimeOut, Receive, Running
  <2> QED
    BY <1>0, <1>5, <2>1, ResultStep
<1>6. CASE EndHop
  BY <1>0, <1>6, EndTallied DEF EndHop, Running
<1>7. CASE Finish
  <2>1. /\ phase = "finish" /\ phase' = "ended"
        /\ UNCHANGED <<plan, reliability, destination_reached>>
        /\ records' = Append(records,
                             TraceEnd(trace_id, destination_reached, stop_reason, reliability))
    BY <1>7 DEF Finish, network
  <2>2. Running /\ Running' /\ ~Probing /\ ~Probing'
    BY <2>1 DEF Running, Probing
  <2>3. /\ Len(records') = Len(records) + 1 /\ Len(records) \in Nat
        /\ \A i \in 1..Len(records) : records'[i] = records[i]
    <3>1. records \in Seq(Range(records))
      BY DEF TraceInv, StreamOK
    <3> QED
      BY <2>1, <3>1, AppendRecord
  <2>4. Recorded' = Recorded
    BY <2>1, <2>3 DEF Recorded
  <2> QED
    BY <1>0, <2>1, <2>2, <2>3, <2>4, RecordsRead
<1>8. CASE Fail
  BY <1>8 DEF Fail, ReplayInv, Running
<1>9. CASE Network
  BY <1>1, <1>9 DEF Network, Answer, tracer
<1>10. CASE Elapse
  BY <1>1, <1>10 DEF Elapse, tracer
<1> QED
  BY <1>2, <1>3, <1>4, <1>5, <1>6, <1>7, <1>8, <1>9, <1>10 DEF Next, Trace

\* ... when its stream is taken up, ...
LEMMA ReplayTakenUp == TraceInv /\ ReplayInv /\ StartEnrichment => ReplayInv'
<1> SUFFICES ASSUME TraceInv, ReplayInv, StartEnrichment PROVE ReplayInv'
  OBVIOUS
<1>1. /\ phase = "ended" /\ phase' = "enrich"
      /\ UNCHANGED <<plan, records, reliability, destination_reached>>
  BY DEF StartEnrichment
<1>2. TraceInv' /\ Running /\ Running' /\ ~Probing /\ ~Probing' /\ Recorded' = Recorded
  BY <1>1, TakenUp DEF Running, Probing, Recorded
<1> QED
  BY <1>1, <1>2, RecordsRead

\* ... and when it is written again: a hop keeps what a replay reads of it.
LEMMA ReplayWrittenAgain == TraceInv /\ ReplayInv /\ ApplyClaims => ReplayInv'
<1> SUFFICES ASSUME TraceInv, ReplayInv, ApplyClaims PROVE ReplayInv'
  OBVIOUS
<1>1. /\ phase = "enrich" /\ phase' = "enriched"
      /\ UNCHANGED <<plan, reliability, destination_reached>>
      /\ records' = [i \in DOMAIN records |->
                       IF records[i].record = "hop"
                         THEN [records[i] EXCEPT !.hop = Enriched(@)] ELSE records[i]]
  BY DEF ApplyClaims
<1>2. /\ TraceInv' /\ Running /\ Running' /\ ~Probing /\ ~Probing'
      /\ Recorded = Len(records) - 2 /\ Len(records) >= 2 /\ Len(records) \in Nat
      /\ Recorded' = Len(records') - 2 /\ Len(records') = Len(records)
      /\ records \in Seq(Range(records)) /\ FirstHops(Len(records) - 2)
  <2>1. Running /\ Running' /\ ~Probing /\ ~Probing'
    BY <1>1 DEF Running, Probing
  <2>2. TraceInv' /\ Len(records') = Len(records)
    BY WrittenAgain, Applied
  <2>3. records \in Seq(Range(records)) /\ FirstHops(Len(records) - 2)
    BY <1>1 DEF TraceInv, StreamOK
  <2>4. Recorded' = Len(records') - 2
    BY <1>1 DEF Recorded
  <2> QED
    BY <1>1, <2>1, <2>2, <2>3, <2>4, RecordedIs
<1>3. /\ DOMAIN records = 1..Len(records) /\ 1 \in 1..Len(records)
      /\ \A d \in 1..Recorded : d + 1 \in 1..Len(records)
  BY <1>2
<1>4. records'[1] = TraceStart(trace_id, plan')
  <2>1. records[1] = TraceStart(trace_id, plan) /\ records[1].record # "hop"
    BY <1>2 DEF ReplayInv, TraceStart
  <2> QED
    BY <1>1, <1>3, <2>1
<1>5. ASSUME NEW d \in 1..Recorded
      PROVE  ReadsAs(records[d + 1], d)' /\ records'[d + 1].hop.probes = records[d + 1].hop.probes
  <2> DEFINE r == records[d + 1]
             h == live_hop(trace_id, d, r.hop.probes)
  <2>1. IsHop(r, d) /\ ReadsAs(r, d)
    BY <1>2 DEF FirstHops, ReplayInv
  <2>2. r = Hop(trace_id, h)
    BY <2>1 DEF IsHop
  <2>3. PICK handle, ttl_, probes, cs, fields :
          h = [handle |-> handle, ttl |-> ttl_, probes |-> probes, claims |-> cs,
               unresolved |-> fields]
    BY DEF live_hop
  <2> HIDE DEF h
  <2>4. PICK all : Enriched(h) = [h EXCEPT !.claims = all, !.unresolved = @ \ Fields(all)]
    BY DEF Enriched
  <2>5. /\ Enriched(h).ttl = h.ttl /\ Enriched(h).probes = h.probes
        /\ Enriched(h).handle = h.handle
    BY <2>3, <2>4
  <2>6. /\ r.record = "hop" /\ r.hop = h /\ [r EXCEPT !.hop = Enriched(@)].hop = Enriched(h)
        /\ [r EXCEPT !.hop = Enriched(@)].record = r.record
        /\ [r EXCEPT !.hop = Enriched(@)].trace_id = r.trace_id
    BY <2>2 DEF Hop
  <2>7. records'[d + 1] = [r EXCEPT !.hop = Enriched(@)]
    BY <1>1, <1>3, <2>6
  <2>8. /\ records'[d + 1].hop = Enriched(h) /\ records'[d + 1].record = r.record
        /\ records'[d + 1].trace_id = r.trace_id
    BY <2>6, <2>7
  <2> QED
    BY <1>1, <2>1, <2>5, <2>6, <2>8 DEF ReadsAs
<1>6. SeenByHop /\ SeenByHop'
  BY <1>2, SeenIs, PTL
<1> PICK a, b : a = Seen /\ b = Seen'
  OBVIOUS
<1>7. DOMAIN a = 1..Recorded /\ \A d \in 1..Recorded : a[d] = records[d + 1].hop
  BY <1>2, <1>6 DEF SeenByHop
<1>8. DOMAIN b = 1..Recorded /\ \A d \in 1..Recorded : b[d] = records'[d + 1].hop
  BY <1>2, <1>6 DEF SeenByHop
<1>9. DOMAIN a = DOMAIN b /\ \A i \in DOMAIN a : a[i].probes = b[i].probes
  BY <1>5, <1>7, <1>8
<1>10. SameProbes(a, b)
  BY <1>9, SamePlaces
<1>11. Tallied'
  BY <1>1, <1>2, <1>10, TallyKept DEF ReplayInv
<1>12. \A d \in 1..Recorded' : ReadsAs(records[d + 1], d)'
  BY <1>2, <1>5
<1> QED
  BY <1>4, <1>11, <1>12 DEF ReplayInv, ReadsAs

-----------------------------------------------------------------------------
\* What a stream that replays looks like, record by record.
LEMMA ReplaysMeans ==
  ASSUME NEW t, t \in Seq(Range(t)), Replays(t)
  PROVE  /\ Len(t) >= 2 /\ Len(t) \in Nat
         /\ t[1].record = "trace_start" /\ t[Len(t)].record = "trace_end"
         /\ \A k \in 2..Len(t) - 1 : t[k].record = "hop"
         /\ \A k \in 2..Len(t) - 2 : t[k + 1].hop.ttl > t[k].hop.ttl
         /\ t[Len(t)].reliability.attempted_packets = Cardinality(Probes(Hops(t)))
<1>1. Framed(t) /\ Len(t) >= 2 /\ Len(t) \in Nat /\ Last(t) = t[Len(t)]
  BY DEF Replays, Framed, Last
<1> DEFINE n == Len(t) - 2
<1>2. /\ n \in Nat /\ DOMAIN Middle(t) = 1..n
      /\ \A i \in 1..n : Middle(t)[i] = t[i + 1]
  BY <1>1, MiddleOf
<1>3. DOMAIN Hops(t) = 1..n /\ \A i \in 1..n : Hops(t)[i] = t[i + 1].hop
  BY <1>1, HopsOf
<1>4. t[1].record = "trace_start" /\ t[Len(t)].record = "trace_end"
  BY <1>1 DEF Framed
<1>5. ASSUME NEW k \in 2..Len(t) - 1
      PROVE  t[k].record = "hop"
  <2>1. k - 1 \in 1..n /\ (k - 1) + 1 = k
    BY <1>1
  <2>2. Middle(t)[k - 1] = t[k]
    BY <1>2, <2>1
  <2>3. Middle(t)[k - 1].record = "hop"
    BY <1>1, <1>2, <2>1 DEF Framed
  <2> QED
    BY <2>2, <2>3
<1>6. ASSUME NEW k \in 2..Len(t) - 2
      PROVE  t[k + 1].hop.ttl > t[k].hop.ttl
  <2>1. k \in 1..n /\ k # 1 /\ k - 1 \in 1..n /\ (k - 1) + 1 = k
    BY <1>1
  <2>2. Hops(t)[k] = t[k + 1].hop /\ Hops(t)[k - 1] = t[k].hop
    BY <1>3, <2>1
  <2>3. ValidHop(t[1].trace_id, t[1].plan, Hops(t)[k], Hops(t)[k - 1].ttl)
    BY <1>3, <2>1 DEF Replays
  <2> QED
    BY <2>2, <2>3 DEF ValidHop
<1>7. t[Len(t)].reliability.attempted_packets = Cardinality(Probes(Hops(t)))
  BY <1>1 DEF Replays, CountersAgree
<1> QED
  BY <1>1, <1>4, <1>5, <1>6, <1>7

\* A sequence's elements, and those of two joined.
LEMMA OwnRange ==
  ASSUME NEW S, NEW t \in Seq(S)
  PROVE  t \in Seq(Range(t))
<1>1. \A k \in 1..Len(t) : t[k] \in Range(t)
  BY DEF Range
<1> QED
  BY <1>1

LEMMA Joined ==
  ASSUME NEW S, NEW u \in Seq(S), NEW v \in Seq(S)
  PROVE  /\ u \o v \in Seq(S) /\ Len(u \o v) = Len(u) + Len(v)
         /\ Len(u) \in Nat /\ Len(v) \in Nat
         /\ \A k \in 1..Len(u) : (u \o v)[k] = u[k]
         /\ \A k \in 1..Len(v) : (u \o v)[Len(u) + k] = v[k]
OBVIOUS

\* A sequence without one of its elements, ...
LEMMA Removed ==
  ASSUME NEW s, s \in Seq(Range(s)), NEW i \in 1..Len(s)
  PROVE  LET t == RemoveAt(s, i)
         IN /\ t \in Seq(Range(t)) /\ Len(t) = Len(s) - 1
            /\ \A k \in 1..Len(s) - 1 : t[k] = IF k < i THEN s[k] ELSE s[k + 1]
<1> DEFINE u == SubSeq(s, 1, i - 1)
           v == SubSeq(s, i + 1, Len(s))
           t == u \o v
<1>1. Len(s) \in Nat /\ i \in Nat /\ i >= 1 /\ i <= Len(s) /\ \A k \in 1..Len(s) : s[k] \in Range(s)
  BY DEF Range
<1>2. /\ u \in Seq(Range(s)) /\ Len(u) = i - 1
      /\ \A k \in 1..i - 1 : u[k] = s[k]
  BY <1>1
<1>3. /\ v \in Seq(Range(s)) /\ Len(v) = Len(s) - i
      /\ \A k \in 1..Len(s) - i : v[k] = s[i + k]
  BY <1>1
<1> HIDE DEF u, v
<1>4. /\ t \in Seq(Range(s)) /\ Len(t) = Len(s) - 1
      /\ \A k \in 1..Len(u) : t[k] = u[k]
      /\ \A k \in 1..Len(v) : t[Len(u) + k] = v[k]
  <2>1. Len(u) + Len(v) = Len(s) - 1
    BY <1>1, <1>2, <1>3
  <2>2. t \in Seq(Range(s)) /\ Len(t) = Len(u) + Len(v)
    BY <1>2, <1>3, Joined
  <2>3. \A k \in 1..Len(u) : t[k] = u[k]
    BY <1>2, <1>3, Joined
  <2>4. \A k \in 1..Len(v) : t[Len(u) + k] = v[k]
    BY <1>2, <1>3, Joined
  <2> QED
    BY <2>1, <2>2, <2>3, <2>4
<1> HIDE DEF t
<1>5. ASSUME NEW k \in 1..Len(s) - 1
      PROVE  t[k] = IF k < i THEN s[k] ELSE s[k + 1]
  <2>1. CASE k < i
    <3>1. k \in 1..i - 1 /\ t[k] = u[k]
      BY <1>1, <1>2, <1>4, <2>1
    <3> QED
      BY <1>2, <2>1, <3>1
  <2>2. CASE ~(k < i)
    <3>1. /\ k - (i - 1) \in 1..Len(s) - i /\ i + (k - (i - 1)) = k + 1
          /\ Len(u) + (k - (i - 1)) = k
      BY <1>1, <1>2, <2>2
    <3>2. t[k] = v[k - (i - 1)]
      BY <1>3, <1>4, <3>1
    <3> QED
      BY <1>3, <2>2, <3>1, <3>2
  <2> QED
    BY <2>1, <2>2
<1>6. t \in Seq(Range(t))
  BY <1>4, OwnRange
<1>7. t = RemoveAt(s, i)
  BY DEF RemoveAt, t, u, v
<1> QED
  BY <1>4, <1>5, <1>6, <1>7

\* ... with one of them twice, ...
LEMMA Doubled ==
  ASSUME NEW s, s \in Seq(Range(s)), NEW i \in 1..Len(s)
  PROVE  LET t == InsertAt(s, i, s[i])
         IN /\ t \in Seq(Range(t)) /\ Len(t) = Len(s) + 1
            /\ \A k \in 1..Len(s) + 1 : t[k] = IF k <= i THEN s[k] ELSE s[k - 1]
<1> DEFINE u == SubSeq(s, 1, i - 1)
           e == <<s[i]>>
           v == SubSeq(s, i, Len(s))
           w == u \o e
           t == w \o v
<1>1. Len(s) \in Nat /\ i \in Nat /\ i >= 1 /\ i <= Len(s) /\ \A k \in 1..Len(s) : s[k] \in Range(s)
  BY DEF Range
<1>2. /\ u \in Seq(Range(s)) /\ Len(u) = i - 1
      /\ \A k \in 1..i - 1 : u[k] = s[k]
  BY <1>1
<1>3. /\ v \in Seq(Range(s)) /\ Len(v) = Len(s) - i + 1
      /\ \A k \in 1..Len(s) - i + 1 : v[k] = s[i + k - 1]
  BY <1>1
<1>4. e \in Seq(Range(s)) /\ Len(e) = 1 /\ e[1] = s[i]
  BY <1>1
<1> HIDE DEF u, v, e
<1>5. /\ w \in Seq(Range(s)) /\ Len(w) = i
      /\ \A k \in 1..i : w[k] = s[k]
  <2>1. /\ w \in Seq(Range(s)) /\ Len(w) = i
        /\ \A k \in 1..Len(u) : w[k] = u[k]
        /\ \A k \in 1..Len(e) : w[Len(u) + k] = e[k]
    <3>1. Len(u) + Len(e) = i
      BY <1>1, <1>2, <1>4
    <3>2. w \in Seq(Range(s)) /\ Len(w) = Len(u) + Len(e)
      BY <1>2, <1>4, Joined
    <3>3. \A k \in 1..Len(u) : w[k] = u[k]
      BY <1>2, <1>4, Joined
    <3>4. \A k \in 1..Len(e) : w[Len(u) + k] = e[k]
      BY <1>2, <1>4, Joined
    <3> QED
      BY <3>1, <3>2, <3>3, <3>4
  <2> HIDE DEF w
  <2>2. ASSUME NEW k \in 1..i PROVE w[k] = s[k]
    <3>1. CASE k < i
      <4>1. k \in 1..i - 1 /\ w[k] = u[k]
        BY <1>1, <1>2, <2>1, <3>1
      <4> QED
        BY <1>2, <4>1
    <3>2. CASE k = i
      <4>1. Len(u) + 1 = k /\ 1 \in 1..Len(e)
        BY <1>1, <1>2, <1>4, <3>2
      <4>2. w[k] = e[1]
        BY <2>1, <4>1
      <4> QED
        BY <1>4, <3>2, <4>2
    <3>3. k < i \/ k = i
      BY <1>1
    <3> QED
      BY <3>1, <3>2, <3>3
  <2> QED
    BY <2>1, <2>2
<1> HIDE DEF w
<1>6. /\ t \in Seq(Range(s)) /\ Len(t) = Len(s) + 1
      /\ \A k \in 1..Len(w) : t[k] = w[k]
      /\ \A k \in 1..Len(v) : t[Len(w) + k] = v[k]
  <2>1. Len(w) + Len(v) = Len(s) + 1
    BY <1>1, <1>3, <1>5
  <2>2. t \in Seq(Range(s)) /\ Len(t) = Len(w) + Len(v)
    BY <1>3, <1>5, Joined
  <2>3. \A k \in 1..Len(w) : t[k] = w[k]
    BY <1>3, <1>5, Joined
  <2>4. \A k \in 1..Len(v) : t[Len(w) + k] = v[k]
    BY <1>3, <1>5, Joined
  <2> QED
    BY <2>1, <2>2, <2>3, <2>4
<1> HIDE DEF t
<1>7. ASSUME NEW k \in 1..Len(s) + 1
      PROVE  t[k] = IF k <= i THEN s[k] ELSE s[k - 1]
  <2>1. CASE k <= i
    <3>1. k \in 1..i /\ t[k] = w[k]
      BY <1>1, <1>5, <1>6, <2>1
    <3> QED
      BY <1>5, <2>1, <3>1
  <2>2. CASE ~(k <= i)
    <3>1. k - i \in 1..Len(s) - i + 1 /\ i + (k - i) - 1 = k - 1 /\ Len(w) + (k - i) = k
      BY <1>1, <1>5, <2>2
    <3>2. t[k] = v[k - i]
      BY <1>3, <1>6, <3>1
    <3> QED
      BY <1>3, <2>2, <3>1, <3>2
  <2> QED
    BY <2>1, <2>2
<1>8. t \in Seq(Range(t))
  BY <1>6, OwnRange
<1>9. t = InsertAt(s, i, s[i])
  BY DEF InsertAt, u, v, e, w, t
<1> QED
  BY <1>6, <1>7, <1>8, <1>9

\* ... and with two of them exchanged.
LEMMA Swapped ==
  ASSUME NEW s, s \in Seq(Range(s)), NEW i \in 1..Len(s), NEW j \in 1..Len(s), i # j,
         NEW t, t = Swap(s, i, j) \/ t = Swap(s, j, i)
  PROVE  /\ t \in Seq(Range(t)) /\ Len(t) = Len(s)
         /\ t[i] = s[j] /\ t[j] = s[i]
         /\ \A k \in 1..Len(s) : k # i /\ k # j => t[k] = s[k]
<1>1. Len(s) \in Nat /\ DOMAIN s = 1..Len(s) /\ \A k \in 1..Len(s) : s[k] \in Range(s)
  BY DEF Range
<1>2. t = [k \in 1..Len(s) |-> IF k = j THEN s[i] ELSE IF k = i THEN s[j] ELSE s[k]]
  <2>1. CASE t = Swap(s, i, j)
    BY <1>1, <2>1 DEF Swap
  <2>2. CASE t = Swap(s, j, i)
    BY <1>1, <2>2 DEF Swap
  <2> QED
    BY <2>1, <2>2
<1>3. t \in Seq(Range(s)) /\ Len(t) = Len(s) /\ DOMAIN t = 1..Len(s)
  BY <1>1, <1>2
<1>4. t[i] = s[j] /\ t[j] = s[i] /\ \A k \in 1..Len(s) : k # i /\ k # j => t[k] = s[k]
  BY <1>2
<1>5. t \in Seq(Range(t))
  BY <1>3, OwnRange
<1> QED
  BY <1>3, <1>4, <1>5

-----------------------------------------------------------------------------
\* A stream that is written, record by record.
LEMMA WrittenIs ==
  ASSUME TraceInv, ReplayInv, Written
  PROVE  /\ records \in Seq(Range(records)) /\ Len(records) \in Nat /\ Len(records) >= 2
         /\ records[1] = TraceStart(trace_id, plan)
         /\ records[Len(records)]
              = TraceEnd(trace_id, destination_reached, stop_reason, reliability)
         /\ \A d \in 1..Len(records) - 2 : ReadsAs(records[d + 1], d)
         /\ SameProbes(Hops(records), Seen)
<1>1. /\ phase \in {"ended", "enriched"} /\ Running /\ ~Probing
      /\ Recorded = Len(records) - 2 /\ Len(records) >= 2 /\ Len(records) \in Nat
  BY RecordedIs DEF Written, Running, Probing
<1>2. /\ records \in Seq(Range(records))
      /\ Last(records) = TraceEnd(trace_id, destination_reached, stop_reason, reliability)
  BY <1>1 DEF TraceInv, StreamOK, AtEnd
<1>3. DOMAIN Seen = 1..Recorded /\ \A d \in 1..Recorded : Seen[d] = records[d + 1].hop
  BY <1>1, SeenIs DEF SeenByHop
<1>4. /\ DOMAIN Hops(records) = 1..Recorded
      /\ \A d \in 1..Recorded : Hops(records)[d] = records[d + 1].hop
  BY <1>1, <1>2, HopsOf
<1> PICK a, b : a = Hops(records) /\ b = Seen
  OBVIOUS
<1>5. DOMAIN a = DOMAIN b /\ \A i \in DOMAIN a : a[i].probes = b[i].probes
  BY <1>3, <1>4
<1>6. SameProbes(a, b)
  BY <1>5, SamePlaces
<1> QED
  BY <1>1, <1>2, <1>6 DEF ReplayInv, Last

\* What such a stream holds at each place.
LEMMA PlacesAre ==
  ASSUME TraceInv, ReplayInv, Written
  PROVE  /\ records[1].record = "trace_start" /\ records[1].plan = plan
         /\ records[Len(records)].record = "trace_end"
         /\ records[Len(records)].reliability = reliability
         /\ \A k \in 2..Len(records) - 1 : ReadsAs(records[k], k - 1)
         /\ \A k \in 1..Len(records) : /\ records[k].trace_id = trace_id
                                       /\ records[k].record = "trace_start" => k = 1
                                       /\ records[k].record = "trace_end" => k = Len(records)
<1>1. /\ records[1].record = "trace_start" /\ records[1].trace_id = trace_id
      /\ records[1].plan = plan
  BY WrittenIs DEF TraceStart
<1>2. /\ records[Len(records)].record = "trace_end"
      /\ records[Len(records)].trace_id = trace_id
      /\ records[Len(records)].reliability = reliability
  BY WrittenIs DEF TraceEnd
<1>3. ASSUME NEW k \in 2..Len(records) - 1
      PROVE  ReadsAs(records[k], k - 1)
  <2>1. k - 1 \in 1..Len(records) - 2 /\ (k - 1) + 1 = k
    BY WrittenIs
  <2> QED
    BY <2>1, WrittenIs
<1>4. \A k \in 1..Len(records) : k = 1 \/ k = Len(records) \/ k \in 2..Len(records) - 1
  BY WrittenIs
<1>5. \A k \in 2..Len(records) - 1 : records[k].record = "hop" /\ records[k].trace_id = trace_id
  BY <1>3 DEF ReadsAs
<1> QED
  BY <1>1, <1>2, <1>3, <1>4, <1>5

\* A written stream replays.
LEMMA ItReplays == TraceInv /\ ReplayInv /\ Written => Replays(records)
<1> SUFFICES ASSUME TraceInv, ReplayInv, Written PROVE Replays(records)
  OBVIOUS
<1> DEFINE n == Len(records) - 2
           hops == Hops(records)
<1>1. /\ n \in Nat /\ Len(records) \in Nat /\ Len(records) >= 2
      /\ records \in Seq(Range(records)) /\ Last(records) = records[Len(records)]
  BY WrittenIs DEF Last
<1>2. /\ DOMAIN Middle(records) = 1..n
      /\ \A i \in 1..n : Middle(records)[i] = records[i + 1]
  BY <1>1, MiddleOf
<1>3. DOMAIN hops = 1..n /\ \A i \in 1..n : hops[i] = records[i + 1].hop
  BY <1>1, HopsOf
<1>4. Framed(records)
  <2>1. \A i \in DOMAIN Middle(records) : Middle(records)[i].record = "hop"
    BY <1>2, WrittenIs DEF ReadsAs
  <2>2. \A r \in Range(records) : r.trace_id = records[1].trace_id
    <3>1. DOMAIN records = 1..Len(records) /\ 1 \in 1..Len(records)
      BY <1>1
    <3> QED
      BY <3>1, PlacesAre DEF Range
  <2> QED
    BY <1>1, <2>1, <2>2, PlacesAre DEF Framed
<1>5. ASSUME NEW i \in DOMAIN hops
      PROVE  ValidHop(records[1].trace_id, records[1].plan, hops[i],
                      IF i = 1 THEN 0 ELSE hops[i - 1].ttl)
  <2>1. i \in 1..n /\ ReadsAs(records[i + 1], i) /\ hops[i] = records[i + 1].hop
    BY <1>3, WrittenIs
  <2>2. /\ hops[i].ttl = i /\ Len(hops[i].probes) \in 1..plan.probes_per_hop
        /\ hops[i].handle = hop_handle(trace_id, hops[i].ttl, hops[i].probes)
    BY <2>1 DEF ReadsAs
  <2>3. records[1].trace_id = trace_id /\ records[1].plan = plan
    <3>1. 1 \in 1..Len(records)
      BY <1>1
    <3> QED
      BY <3>1, PlacesAre
  <2>4. n <= plan.max_hops /\ plan.max_hops \in Nat
    <3>1. Concluded(n)
      BY DEF TraceInv, StreamOK, AtEnd, Written
    <3>2. plan.max_hops \in Nat
      BY PlanTypes DEF TraceInv, RunOK
    <3> QED
      BY <3>1, <3>2 DEF Concluded
  <2>5. i # 1 => hops[i - 1].ttl = i - 1
    <3> SUFFICES ASSUME i # 1 PROVE hops[i - 1].ttl = i - 1
      OBVIOUS
    <3>1. i - 1 \in 1..n
      BY <1>1, <2>1
    <3> QED
      BY <1>3, <3>1, WrittenIs DEF ReadsAs
  <2>6. i > (IF i = 1 THEN 0 ELSE hops[i - 1].ttl) /\ i <= plan.max_hops
    BY <1>1, <2>1, <2>4, <2>5
  <2> QED
    BY <2>2, <2>3, <2>6 DEF ValidHop
<1>6. CountersAgree(records[1].plan, hops, Last(records))
  <2> PICK e : e = Last(records)
    OBVIOUS
  <2>1. /\ e.reliability = reliability /\ e.destination_reached = destination_reached
        /\ records[1].plan = plan
    BY <1>1, WrittenIs, PlacesAre DEF TraceEnd
  <2>2. /\ Probes(hops) = Probes(Seen) /\ (Observed(hops) <=> Observed(Seen))
        /\ \A outcomes : Count(hops, outcomes) = Count(Seen, outcomes)
    BY WrittenIs, SameTally DEF SameProbes
  <2>3. /\ Tallied /\ phase # "wait"
    BY DEF ReplayInv, Written, Running
  <2>4. /\ reliability.planned_packets = plan.max_packets
        /\ reliability.sent_packets <= reliability.attempted_packets
    BY DEF TraceInv, CountersOK, Counted
  <2>5. reliability.attempted_packets = Cardinality(Probes(hops))
    <3>1. Cardinality(Probes(Seen)) \in Nat
      BY <2>3, FS_CardinalityType DEF Tallied
    <3> QED
      BY <2>2, <2>3, <3>1 DEF Tallied
  <2>6. e.destination_reached <=> Observed(hops)
    BY <2>1, <2>2, <2>3 DEF Tallied
  <2>7. /\ reliability.replies = Count(hops, Replied)
        /\ reliability.timeouts = Count(hops, {"timeout"})
        /\ reliability.local_errors = Count(hops, {"local_error"})
    BY <2>2, <2>3 DEF Tallied
  <2> QED
    BY <2>1, <2>4, <2>5, <2>6, <2>7 DEF CountersAgree
<1> QED
  BY <1>4, <1>5, <1>6 DEF Replays

\* A hop left out leaves fewer probes than were counted.
LEMMA FewerProbes ==
  ASSUME NEW a, NEW b, NEW n \in Nat, NEW k \in 1..n, DOMAIN a = 1..n, DOMAIN b = 1..n - 1,
         \A d \in 1..n - 1 : b[d] = IF d < k THEN a[d] ELSE a[d + 1],
         IsFiniteSet(Probes(a)), a[k].probes \in Seq(Observation), Len(a[k].probes) >= 1
  PROVE  Cardinality(Probes(b)) # Cardinality(Probes(a))
<1> DEFINE hole == <<k, 1>>
           S == Probes(a) \ {hole}
           From(d) == IF d < k THEN d ELSE d + 1
           f == [at \in Probes(b) |-> <<From(at[1]), at[2]>>]
<1>1. hole \in Probes(a)
  <2>1. 1 \in DOMAIN a[k].probes
    OBVIOUS
  <2> QED
    BY <2>1, PlaceOf
<1>2. /\ IsFiniteSet(S) /\ Cardinality(S) = Cardinality(Probes(a)) - 1
      /\ Cardinality(Probes(a)) \in Nat
  BY <1>1, FS_RemoveElement, FS_CardinalityType
<1>3. \A d \in 1..n - 1 : From(d) \in 1..n /\ From(d) # k /\ b[d] = a[From(d)]
  OBVIOUS
<1>4. \A d, c \in 1..n - 1 : From(d) = From(c) => d = c
  OBVIOUS
<1> HIDE DEF From
<1>5. ASSUME NEW at \in Probes(b)
      PROVE  at[1] \in 1..n - 1 /\ at = <<at[1], at[2]>> /\ f[at] \in S
  <2>1. PICK i \in DOMAIN b : \E j \in DOMAIN b[i].probes : at = <<i, j>>
    BY PlaceOf
  <2>2. PICK j \in DOMAIN b[i].probes : at = <<i, j>>
    BY <2>1
  <2>3. f[at] = <<From(i), j>>
    BY <2>2
  <2>4. <<From(i), j>> \in Probes(a)
    BY <1>3, <2>2, PlaceOf
  <2>5. <<From(i), j>> # hole
    BY <1>3
  <2> QED
    BY <2>2, <2>3, <2>4, <2>5
<1>6. f \in Injection(Probes(b), S)
  <2>1. f \in [Probes(b) -> S]
    BY <1>5
  <2>2. ASSUME NEW x \in Probes(b), NEW y \in Probes(b), f[x] = f[y]
        PROVE  x = y
    <3>1. From(x[1]) = From(y[1]) /\ x[2] = y[2]
      BY <2>2
    <3> QED
      BY <1>4, <1>5, <3>1
  <2> HIDE DEF f
  <2> QED
    BY <2>1, <2>2 DEF Injection, IsInjective
<1> HIDE DEF S, f
<1>7. IsFiniteSet(Probes(b)) /\ Cardinality(Probes(b)) <= Cardinality(S)
  BY <1>2, <1>6, FS_Injection
<1>8. Cardinality(Probes(b)) \in Nat
  BY <1>7, FS_CardinalityType
<1> QED
  BY <1>2, <1>7, <1>8

\* A written stream without one of its records does not replay.
LEMMA NotRemoved ==
  ASSUME TraceInv, ReplayInv, Written, NEW i \in 1..Len(records),
         Replays(RemoveAt(records, i))
  PROVE  FALSE
<1> PICK s, t, n : s = records /\ t = RemoveAt(records, i) /\ n = Len(records) - 2
  OBVIOUS
<1>1. /\ s \in Seq(Range(s)) /\ Len(s) = n + 2 /\ n \in Nat /\ i \in 1..n + 2
      /\ s[1].record = "trace_start" /\ s[n + 2].record = "trace_end"
      /\ \A k \in 2..n + 1 : ReadsAs(s[k], k - 1)
  BY WrittenIs, PlacesAre
<1>2. /\ t \in Seq(Range(t)) /\ Len(t) = n + 1
      /\ \A k \in 1..n + 1 : t[k] = IF k < i THEN s[k] ELSE s[k + 1]
  <2>1. Len(s) - 1 = n + 1
    BY <1>1
  <2> QED
    BY <1>1, <2>1, Removed
<1>3. /\ n >= 1 /\ t[1].record = "trace_start" /\ t[n + 1].record = "trace_end"
      /\ t[n + 1].reliability.attempted_packets = Cardinality(Probes(Hops(t)))
      /\ Replays(t)
  BY <1>1, <1>2, ReplaysMeans
<1>4. \A k \in 2..n + 1 : s[k].record = "hop"
  BY <1>1 DEF ReadsAs
<1>5. i # 1
  <2> SUFFICES ASSUME i = 1 PROVE FALSE
    OBVIOUS
  <2>1. t[1] = s[2] /\ 2 \in 2..n + 1
    BY <1>1, <1>2, <1>3
  <2> QED
    BY <1>3, <1>4, <2>1
<1>6. i # n + 2
  <2> SUFFICES ASSUME i = n + 2 PROVE FALSE
    OBVIOUS
  <2>1. t[n + 1] = s[n + 1] /\ n + 1 \in 2..n + 1
    BY <1>1, <1>2, <1>3
  <2> QED
    BY <1>3, <1>4, <2>1
<1>7. PICK k \in 1..n : i = k + 1
  <2>1. i - 1 \in 1..n /\ i = (i - 1) + 1
    BY <1>1, <1>5, <1>6
  <2> QED
    BY <2>1
<1> PICK a, b : a = Hops(s) /\ b = Hops(t)
  OBVIOUS
<1>8. DOMAIN a = 1..n /\ \A d \in 1..n : a[d] = s[d + 1].hop
  <2>1. Len(s) - 2 = n /\ Len(s) >= 2
    BY <1>1
  <2> QED
    BY <1>1, <2>1, HopsOf
<1>9. DOMAIN b = 1..n - 1 /\ \A d \in 1..n - 1 : b[d] = t[d + 1].hop
  <2>1. Len(t) - 2 = n - 1 /\ Len(t) >= 2
    BY <1>1, <1>2, <1>3
  <2> QED
    BY <1>2, <2>1, HopsOf
<1>10. \A d \in 1..n - 1 : b[d] = IF d < k THEN a[d] ELSE a[d + 1]
  <2> SUFFICES ASSUME NEW d \in 1..n - 1 PROVE b[d] = IF d < k THEN a[d] ELSE a[d + 1]
    OBVIOUS
  <2>1. d + 1 \in 1..n + 1 /\ d \in 1..n /\ d + 1 \in 1..n /\ (d + 1 < i <=> d < k)
    BY <1>1, <1>7
  <2>2. t[d + 1] = IF d < k THEN s[d + 1] ELSE s[(d + 1) + 1]
    BY <1>2, <2>1
  <2> QED
    BY <1>8, <1>9, <2>1, <2>2
<1>11. a[k].probes \in Seq(Observation) /\ Len(a[k].probes) >= 1
  <2>1. k + 1 \in 2..n + 1 /\ (k + 1) - 1 = k
    BY <1>1, <1>7
  <2>2. ReadsAs(s[k + 1], k)
    BY <1>1, <2>1
  <2>3. plan.probes_per_hop \in Nat
    BY PlanTypes DEF TraceInv, RunOK
  <2> QED
    BY <1>8, <2>2, <2>3 DEF ReadsAs
<1>12. IsFiniteSet(Probes(a)) /\ reliability.attempted_packets = Cardinality(Probes(a))
  <2>1. Probes(a) = Probes(Seen) /\ Tallied /\ phase # "wait"
    BY WrittenIs DEF SameProbes, ReplayInv, Written, Running
  <2>2. Cardinality(Probes(Seen)) \in Nat
    BY <2>1, FS_CardinalityType DEF Tallied
  <2> QED
    BY <2>1, <2>2 DEF Tallied
<1>13. t[n + 1].reliability = reliability
  <2>1. ~(n + 1 < i)  /\ n + 1 \in 1..n + 1 /\ (n + 1) + 1 = n + 2
    BY <1>1, <1>7
  <2>2. s[n + 2].reliability = reliability
    BY <1>1, PlacesAre
  <2> QED
    BY <1>2, <2>1, <2>2
<1>14. Cardinality(Probes(b)) # Cardinality(Probes(a))
  <2>1. n \in Nat /\ DOMAIN a = 1..n /\ DOMAIN b = 1..n - 1 /\ IsFiniteSet(Probes(a))
    BY <1>1, <1>8, <1>9, <1>12
  <2> QED
    BY <1>10, <1>11, <2>1, FewerProbes
<1> QED
  BY <1>3, <1>12, <1>13, <1>14

\* Nor does one that holds a record twice.
LEMMA NotDoubled ==
  ASSUME TraceInv, ReplayInv, Written, NEW i \in 1..Len(records),
         Replays(InsertAt(records, i, records[i]))
  PROVE  FALSE
<1> PICK s, t, m : s = records /\ t = InsertAt(records, i, records[i]) /\ m = Len(records)
  OBVIOUS
<1>1. /\ s \in Seq(Range(s)) /\ Len(s) = m /\ m \in Nat /\ m >= 2 /\ i \in 1..m
      /\ s[1].record = "trace_start" /\ s[m].record = "trace_end"
      /\ \A k \in 2..m - 1 : ReadsAs(s[k], k - 1)
  BY WrittenIs, PlacesAre
<1>2. /\ t \in Seq(Range(t)) /\ Len(t) = m + 1
      /\ \A k \in 1..m + 1 : t[k] = IF k <= i THEN s[k] ELSE s[k - 1]
  <2>1. i \in 1..Len(s) /\ s \in Seq(Range(s)) /\ t = InsertAt(s, i, s[i])
    BY <1>1
  <2>2. /\ t \in Seq(Range(t)) /\ Len(t) = Len(s) + 1
        /\ \A k \in 1..Len(s) + 1 : t[k] = IF k <= i THEN s[k] ELSE s[k - 1]
    BY <2>1, Doubled
  <2> QED
    BY <1>1, <2>2
<1>3. t[i] = s[i] /\ t[i + 1] = s[i]
  <2>1. /\ i \in 1..m + 1 /\ i <= i /\ i + 1 \in 1..m + 1 /\ ~(i + 1 <= i)
        /\ (i + 1) - 1 = i
    BY <1>1
  <2> QED
    BY <1>2, <2>1
<1>4. /\ \A k \in 2..m : t[k].record = "hop"
      /\ \A k \in 2..m - 1 : t[k + 1].hop.ttl > t[k].hop.ttl
  <2>1. Len(t) - 1 = m /\ Len(t) - 2 = m - 1 /\ Replays(t)
    BY <1>1, <1>2
  <2>2. /\ \A k \in 2..Len(t) - 1 : t[k].record = "hop"
        /\ \A k \in 2..Len(t) - 2 : t[k + 1].hop.ttl > t[k].hop.ttl
    BY <1>2, <2>1, ReplaysMeans
  <2> QED
    BY <2>1, <2>2
<1>5. CASE i = 1
  BY <1>1, <1>3, <1>4, <1>5
<1>6. CASE i = m
  BY <1>1, <1>3, <1>4, <1>6
<1>7. CASE i # 1 /\ i # m
  <2>1. i \in 2..m - 1
    BY <1>1, <1>7
  <2>2. s[i].hop.ttl = i - 1 /\ i - 1 \in Int
    BY <1>1, <2>1 DEF ReadsAs
  <2>3. s[i].hop.ttl > s[i].hop.ttl
    BY <1>3, <1>4, <2>1
  <2> QED
    BY <2>2, <2>3
<1> QED
  BY <1>5, <1>6, <1>7

\* Nor one in which two records are exchanged.
LEMMA NotSwapped ==
  ASSUME TraceInv, ReplayInv, Written, NEW i \in 1..Len(records), NEW j \in 1..Len(records),
         i < j, NEW t, t = Swap(records, i, j) \/ t = Swap(records, j, i), Replays(t)
  PROVE  FALSE
<1> PICK s, m : s = records /\ m = Len(records)
  OBVIOUS
<1>1. /\ s \in Seq(Range(s)) /\ Len(s) = m /\ m \in Nat /\ m >= 2 /\ i \in 1..m /\ j \in 1..m
      /\ \A k \in 1..m : /\ s[k].record = "trace_start" => k = 1
                         /\ s[k].record = "trace_end" => k = m
      /\ \A k \in 2..m - 1 : ReadsAs(s[k], k - 1)
  BY WrittenIs, PlacesAre
<1>2. /\ t \in Seq(Range(t)) /\ Len(t) = m
      /\ t[i] = s[j] /\ t[j] = s[i]
      /\ \A k \in 1..m : k # i /\ k # j => t[k] = s[k]
  <2>1. /\ i # j /\ i \in 1..Len(s) /\ j \in 1..Len(s) /\ s \in Seq(Range(s))
        /\ t = Swap(s, i, j) \/ t = Swap(s, j, i)
    BY <1>1
  <2>2. /\ t \in Seq(Range(t)) /\ Len(t) = Len(s)
        /\ t[i] = s[j] /\ t[j] = s[i]
        /\ \A k \in 1..Len(s) : k # i /\ k # j => t[k] = s[k]
    BY <2>1, Swapped
  <2> QED
    BY <1>1, <2>2
<1>3. /\ t[1].record = "trace_start" /\ t[m].record = "trace_end"
      /\ \A k \in 2..m - 2 : t[k + 1].hop.ttl > t[k].hop.ttl
  <2>1. /\ t[1].record = "trace_start" /\ t[Len(t)].record = "trace_end"
        /\ \A k \in 2..Len(t) - 2 : t[k + 1].hop.ttl > t[k].hop.ttl
    BY <1>2, ReplaysMeans
  <2> QED
    BY <1>2, <2>1
<1>4. i # 1 /\ j # m
  BY <1>1, <1>2, <1>3
<1>5. i \in 2..m - 2 /\ i + 1 \in 2..m - 1 /\ j \in 2..m - 1
  BY <1>1, <1>4
<1>6. s[j].hop.ttl = j - 1 /\ s[i].hop.ttl = i - 1 /\ s[i + 1].hop.ttl = i
  <2>1. (i + 1) - 1 = i
    BY <1>1
  <2> QED
    BY <1>1, <1>5, <2>1 DEF ReadsAs
<1>7. t[i + 1].hop.ttl <= i
  <2>1. CASE j = i + 1
    BY <1>1, <1>2, <1>6, <2>1
  <2>2. CASE j # i + 1
    <3>1. i + 1 \in 1..m /\ i + 1 # i
      BY <1>1, <1>5
    <3>2. t[i + 1] = s[i + 1]
      BY <1>2, <2>2, <3>1
    <3> QED
      BY <1>1, <1>6, <3>2
  <2> QED
    BY <2>1, <2>2
<1>8. t[i + 1].hop.ttl > j - 1
  BY <1>2, <1>3, <1>5, <1>6
<1>9. t[i + 1].hop.ttl \in Int
  <2>1. t[i + 1] = s[i + 1] \/ t[i + 1] = s[i]
    BY <1>1, <1>2, <1>5
  <2> QED
    BY <1>1, <1>6, <2>1
<1> QED
  BY <1>1, <1>7, <1>8, <1>9

\* Whatever the network did and whatever was learnt of the addresses since, the
\* stream that is written replays, and no stream in which one of its records is
\* lost, doubled or out of place does.
THEOREM ReplaysAsWritten == EnrichmentSpec => []ReplaysExactlyWhatWasWritten
<1>1. EnrichmentInit => TraceInv /\ ReplayInv
  BY TraceInit, ReplayInit DEF EnrichmentInit
<1>2. TraceInv /\ ReplayInv /\ [EnrichmentNext]_allVars => (TraceInv /\ ReplayInv)'
  <2>1. TraceInv /\ ReplayInv /\ UNCHANGED vars => ReplayInv'
    BY ReplayStep
  <2> QED
    BY <2>1, TraceStep, TakenUp, WrittenAgain, TraceUnchanged, ReplayStep, ReplayTakenUp,
       ReplayWrittenAgain DEF EnrichmentNext, Enrich, allVars
<1>3. TraceInv /\ ReplayInv => ReplaysExactlyWhatWasWritten
  <2> SUFFICES ASSUME TraceInv, ReplayInv, Written PROVE ReplaysExactlyWhatWasWritten
    BY DEF ReplaysExactlyWhatWasWritten
  <2>1. DOMAIN records = 1..Len(records)
    BY WrittenIs
  <2>2. \A i \in DOMAIN records :
          ~Replays(RemoveAt(records, i)) /\ ~Replays(InsertAt(records, i, records[i]))
    BY <2>1, NotRemoved, NotDoubled
  <2>3. ASSUME NEW i \in DOMAIN records, NEW j \in DOMAIN records, i # j
        PROVE  ~Replays(Swap(records, i, j))
    <3>1. i \in 1..Len(records) /\ j \in 1..Len(records) /\ (i < j \/ j < i)
      BY <2>1, <2>3
    <3> QED
      BY <3>1, NotSwapped
  <2> QED
    BY <2>2, <2>3, ItReplays DEF ReplaysExactlyWhatWasWritten
<1> QED
  BY <1>1, <1>2, <1>3, PTL DEF EnrichmentSpec

-----------------------------------------------------------------------------
\* A request within the budgets is counted.
LEMMA RequestCounted ==
  ASSUME Budgeted, ~OutOfBudget, NEW outcome, Requested(outcome)
  PROVE  /\ Budgeted' /\ (GaveUp => GaveUp') /\ (Excused => Excused')
         /\ report.lookups_failed > 0 => report'.lookups_failed > 0
         /\ outcome # "ok" => Excused' /\ report'.lookups_failed > 0
         /\ outcome = "late" => GaveUp'
<1> DEFINE r == report
           s == IF outcome = "ok" THEN 1 ELSE 0
           f == IF outcome = "ok" THEN 0 ELSE 1
<1>1. /\ r = [lookups_attempted |-> r.lookups_attempted, lookups_succeeded |-> r.lookups_succeeded,
              lookups_failed |-> r.lookups_failed,
              lookup_budget_exhausted |-> r.lookup_budget_exhausted,
              duration_exhausted |-> r.duration_exhausted]
      /\ r.lookups_attempted \in Nat /\ r.lookups_succeeded \in Nat /\ r.lookups_failed \in Nat
      /\ r.lookup_budget_exhausted \in BOOLEAN /\ r.duration_exhausted \in BOOLEAN
  BY DEF Budgeted, Requests
<1>2. /\ r.lookups_attempted < MaxLookups /\ MaxLookups \in Nat
      /\ r.lookups_attempted = r.lookups_succeeded + r.lookups_failed
  BY <1>1, EnrichmentAssumption DEF Budgeted, OutOfBudget
<1>3. /\ report' = [report EXCEPT
           !.lookups_attempted = @ + 1,
           !.lookups_succeeded = IF outcome = "ok" THEN @ + 1 ELSE @,
           !.lookups_failed = IF outcome = "ok" THEN @ ELSE @ + 1,
           !.duration_exhausted = @ \/ outcome = "late"]
      /\ expired' = (expired \/ outcome = "late")
  BY DEF Requested
<1>4. /\ report'.lookups_attempted = r.lookups_attempted + 1
      /\ report'.lookups_succeeded = r.lookups_succeeded + s
      /\ report'.lookups_failed = r.lookups_failed + f
      /\ report'.lookup_budget_exhausted = r.lookup_budget_exhausted
      /\ report'.duration_exhausted = (r.duration_exhausted \/ outcome = "late")
      /\ report' = [lookups_attempted |-> report'.lookups_attempted,
                    lookups_succeeded |-> report'.lookups_succeeded,
                    lookups_failed |-> report'.lookups_failed,
                    lookup_budget_exhausted |-> report'.lookup_budget_exhausted,
                    duration_exhausted |-> report'.duration_exhausted]
  <2>1. report' = [lookups_attempted |-> r.lookups_attempted + 1,
                   lookups_succeeded |-> IF outcome = "ok" THEN r.lookups_succeeded + 1
                                         ELSE r.lookups_succeeded,
                   lookups_failed |-> IF outcome = "ok" THEN r.lookups_failed
                                      ELSE r.lookups_failed + 1,
                   lookup_budget_exhausted |-> r.lookup_budget_exhausted,
                   duration_exhausted |-> (r.duration_exhausted \/ outcome = "late")]
    <3>1. PICK a, b, c, d, e :
            r = [lookups_attempted |-> a, lookups_succeeded |-> b, lookups_failed |-> c,
                 lookup_budget_exhausted |-> d, duration_exhausted |-> e]
      BY <1>1
    <3>2. PICK late : late = (e \/ outcome = "late")
      OBVIOUS
    <3>3. /\ a = r.lookups_attempted /\ b = r.lookups_succeeded /\ c = r.lookups_failed
          /\ d = r.lookup_budget_exhausted /\ e = r.duration_exhausted
      BY <3>1
    <3>4. report' = [lookups_attempted |-> a + 1,
                     lookups_succeeded |-> IF outcome = "ok" THEN b + 1 ELSE b,
                     lookups_failed |-> IF outcome = "ok" THEN c ELSE c + 1,
                     lookup_budget_exhausted |-> d, duration_exhausted |-> late]
      BY <1>3, <3>1, <3>2
    <3> HIDE DEF r
    <3> QED
      BY <3>2, <3>3, <3>4
  <2>2. r.lookups_succeeded + 0 = r.lookups_succeeded /\ r.lookups_failed + 0 = r.lookups_failed
    BY <1>1
  <2> HIDE DEF r
  <2> QED
    BY <2>1, <2>2
<1>5. s \in Nat /\ f \in Nat /\ s + f = 1 /\ (outcome # "ok" => f = 1)
  OBVIOUS
<1> HIDE DEF r, s, f
<1>6. /\ report'.lookups_attempted \in Nat /\ report'.lookups_succeeded \in Nat
      /\ report'.lookups_failed \in Nat
      /\ report'.lookups_attempted <= MaxLookups
      /\ report'.lookups_attempted = report'.lookups_succeeded + report'.lookups_failed
      /\ r.lookups_failed > 0 => report'.lookups_failed > 0
      /\ outcome # "ok" => report'.lookups_failed > 0
  BY <1>1, <1>2, <1>4, <1>5
<1>7. report' \in Requests
  <2>1. report'.lookup_budget_exhausted \in BOOLEAN /\ report'.duration_exhausted \in BOOLEAN
    BY <1>1, <1>4
  <2> QED
    BY <1>4, <1>6, <2>1 DEF Requests
<1>8. Budgeted'
  BY <1>3, <1>6, <1>7 DEF Budgeted
<1>9. (GaveUp => GaveUp') /\ (outcome = "late" => GaveUp')
  BY <1>4 DEF GaveUp, r
<1> QED
  BY <1>6, <1>8, <1>9 DEF Excused, r

\* What is left undone for want of a budget is reported.
LEMMA GivenUp ==
  ASSUME Budgeted, OutOfBudget, report' = Exhausted, UNCHANGED expired
  PROVE  /\ Budgeted' /\ GaveUp' /\ Excused'
         /\ report'.lookups_failed = report.lookups_failed
<1>1. /\ report = [lookups_attempted |-> report.lookups_attempted,
                   lookups_succeeded |-> report.lookups_succeeded,
                   lookups_failed |-> report.lookups_failed,
                   lookup_budget_exhausted |-> report.lookup_budget_exhausted,
                   duration_exhausted |-> report.duration_exhausted]
      /\ report.lookups_attempted \in Nat /\ report.lookups_succeeded \in Nat
      /\ report.lookups_failed \in Nat
      /\ expired \in BOOLEAN
  BY DEF Budgeted, Requests
<1> DEFINE spent == report.lookups_attempted >= MaxLookups
<1>2. spent \in BOOLEAN /\ (spent \/ expired)
  BY DEF OutOfBudget
<1> HIDE DEF spent
<1>3. report' = [report EXCEPT !.lookup_budget_exhausted = spent, !.duration_exhausted = expired]
  BY DEF Exhausted, spent
<1>4. report' = [lookups_attempted |-> report.lookups_attempted,
                 lookups_succeeded |-> report.lookups_succeeded,
                 lookups_failed |-> report.lookups_failed,
                 lookup_budget_exhausted |-> spent,
                 duration_exhausted |-> expired]
  BY <1>1, <1>3
<1>5. Budgeted'
  BY <1>1, <1>2, <1>4 DEF Budgeted, Requests
<1>6. GaveUp'
  BY <1>2, <1>4 DEF GaveUp
<1> QED
  BY <1>4, <1>5, <1>6 DEF Excused

\* What was decided stays so.
LEMMA StillDecided ==
  ASSUME Excused => Excused', NEW claim_set, NEW left, OriginsDecided(claim_set, left)
  PROVE  OriginsDecided(claim_set, left)'
BY DEF OriginsDecided

\* A verdict on the next origin, or an excuse, decides it.
LEMMA NextDecided ==
  ASSUME NEW claim_set, NEW left \in Seq(Asn), left # <<>>, OriginsDecided(claim_set, left),
         Excused => Excused', NEW found, found = None => Excused',
         NEW verdicts, verdicts = {Claim("rpki_state", <<Head(left), v>>) : v \in {found} \ {None}}
  PROVE  OriginsDecided(claim_set \cup verdicts, Tail(left))'
<1>1. \A c \in verdicts : c.field # "origin_asn"
  BY DEF Claim
<1>2. found # None => \E v \in verdicts : v.field = "rpki_state" /\ v.value[1] = Head(left)
  <2> SUFFICES ASSUME found # None
               PROVE  \E v \in verdicts : v.field = "rpki_state" /\ v.value[1] = Head(left)
    OBVIOUS
  <2> DEFINE v == Claim("rpki_state", <<Head(left), found>>)
  <2>1. v \in verdicts
    OBVIOUS
  <2>2. v.field = "rpki_state" /\ v.value[1] = Head(left)
    BY DEF Claim
  <2> QED
    BY <2>1, <2>2
<1>3. \A asn \in Range(left) : asn = Head(left) \/ asn \in Range(Tail(left))
  <2> SUFFICES ASSUME NEW i \in DOMAIN left
               PROVE  left[i] = Head(left) \/ left[i] \in Range(Tail(left))
    BY DEF Range
  <2>1. CASE i = 1
    BY <2>1
  <2>2. CASE i # 1
    <3>1. i - 1 \in DOMAIN Tail(left) /\ Tail(left)[i - 1] = left[i]
      BY <2>2
    <3> QED
      BY <3>1 DEF Range
  <2> QED
    BY <2>1, <2>2
<1>4. SUFFICES ASSUME NEW c \in claim_set, c.field = "origin_asn", NEW asn \in Range(c.value)
               PROVE  \/ asn \in Range(Tail(left)) \/ Excused'
                      \/ \E v \in claim_set \cup verdicts : v.field = "rpki_state" /\ v.value[1] = asn
  BY <1>1 DEF OriginsDecided
<1>5. CASE asn \in Range(left)
  BY <1>2, <1>3, <1>5
<1>6. CASE asn \notin Range(left)
  BY <1>4, <1>6 DEF OriginsDecided
<1> QED
  BY <1>5, <1>6

\* The origins left are an answer's.
LEMMA OriginsLeft ==
  ASSUME NEW answer \in [prefix : Prefix \cup {None}, asns : Seq(Asn)], NEW left \in Seq(Asn)
  PROVE  /\ [answer EXCEPT !.asns = left] \in [prefix : Prefix \cup {None}, asns : Seq(Asn)]
         /\ [answer EXCEPT !.asns = left].asns = left
OBVIOUS

\* What was filed stays decided, ...
LEMMA FiledStay ==
  ASSUME \A a \in DOMAIN claims_by_address : OriginsDecided(claims_by_address[a], <<>>),
         Excused => Excused', UNCHANGED claims_by_address
  PROVE  (\A a \in DOMAIN claims_by_address : OriginsDecided(claims_by_address[a], <<>>))'
<1> SUFFICES ASSUME NEW a \in DOMAIN claims_by_address
             PROVE  OriginsDecided(claims_by_address[a], <<>>)'
  OBVIOUS
<1>1. PICK filed : filed = claims_by_address[a]
  OBVIOUS
<1>2. OriginsDecided(filed, <<>>)'
  BY <1>1, StillDecided
<1> QED
  BY <1>1, <1>2

\* ... and so does what is being learnt.
LEMMA LearntStays ==
  ASSUME address # None =>
           /\ info \in [prefix : Prefix \cup {None}, asns : Seq(Asn)]
           /\ OriginsDecided(claims, info.asns),
         Excused => Excused', UNCHANGED <<address, info, claims>>
  PROVE  (address # None =>
           /\ info \in [prefix : Prefix \cup {None}, asns : Seq(Asn)]
           /\ OriginsDecided(claims, info.asns))'
<1> SUFFICES ASSUME address # None PROVE OriginsDecided(claims, info.asns)'
  OBVIOUS
<1>1. PICK cs, left : cs = claims /\ left = info.asns
  OBVIOUS
<1>2. OriginsDecided(cs, left)'
  BY <1>1, StillDecided
<1> QED
  BY <1>1, <1>2

\* No address is lost on its way from the list to the file.
LEMMA AddressesStay ==
  ASSUME AddressesOK, phase = "enrich", UNCHANGED vars, GaveUp => GaveUp',
         \A a \in Address :
           a \in todo \/ a = address \/ a \in DOMAIN claims_by_address =>
             \/ a \in todo' \/ a = address' \/ a \in DOMAIN claims_by_address'
             \/ GaveUp'
  PROVE  AddressesOK'
<1>1. UNCHANGED <<phase, records>>
  BY DEF vars, tracer
<1>2. Answered' = Answered
  BY <1>1 DEF Answered
<1>3. ASSUME NEW a \in Answered \cap Public
      PROVE  \/ a \in todo' \/ a = address' \/ a \in DOMAIN claims_by_address' \/ GaveUp'
  <2>1. a \in Address
    BY RouteAssumption
  <2>2. a \in todo \/ a = address \/ a \in DOMAIN claims_by_address \/ GaveUp
    BY DEF AddressesOK
  <2> QED
    BY <2>1, <2>2
<1> QED
  BY <1>1, <1>2, <1>3 DEF AddressesOK

\* The steps of an enrichment keep its invariant.
LEMMA LookUpsStep ==
  ASSUME EnrichmentInv, phase = "enrich", LookUps, UNCHANGED vars
  PROVE  EnrichmentInv'
<1> DEFINE Learnt == address # None =>
                       /\ info \in [prefix : Prefix \cup {None}, asns : Seq(Asn)]
                       /\ OriginsDecided(claims, info.asns)
           Filed == \A a \in DOMAIN claims_by_address :
                      OriginsDecided(claims_by_address[a], <<>>)
           Verdicts == \A o \in DOMAIN rpki_by_origin :
                         rpki_by_origin[o] = None => report.lookups_failed > 0
<1>0. Budgeted /\ Learnt /\ Filed /\ Verdicts /\ AddressesOK
  BY DEF EnrichmentInv, ClaimsOK
<1>1. SUFFICES Budgeted' /\ Learnt' /\ Filed' /\ Verdicts' /\ AddressesOK'
  BY DEF EnrichmentInv, ClaimsOK
<1>2. ASSUME NEW a \in todo, NEW outcome \in Outcome, NEW answer \in NetworkInfo,
             LookUp(a, outcome, answer)
      PROVE  Budgeted' /\ Learnt' /\ Filed' /\ Verdicts' /\ AddressesOK'
  <2>1. /\ address = None /\ ~OutOfBudget /\ Requested(outcome)
        /\ address' = a /\ todo' = todo \ {a}
        /\ UNCHANGED <<claims_by_address, rpki_by_origin>>
    BY <1>2 DEF LookUp
  <2>2. /\ Budgeted' /\ (GaveUp => GaveUp') /\ (Excused => Excused')
        /\ report.lookups_failed > 0 => report'.lookups_failed > 0
    BY <1>0, <2>1, RequestCounted
  <2>3. Learnt'
    <3>1. CASE outcome = "ok" /\ answer.prefix # None
      <4>1. /\ claims' = {Claim("network_prefix", answer.prefix)} \cup
                           (IF answer.asns = <<>> THEN {} ELSE {Claim("origin_asn", answer.asns)})
            /\ info' = answer
        BY <1>2, <3>1 DEF LookUp
      <4>2. info' \in [prefix : Prefix \cup {None}, asns : Seq(Asn)]
        BY <4>1, EnrichmentAssumption
      <4>3. \A c \in claims' : c.field = "origin_asn" => c.value = info'.asns
        BY <4>1 DEF Claim
      <4>4. OriginsDecided(claims, info.asns)'
        BY <4>3 DEF OriginsDecided
      <4> QED
        BY <4>2, <4>4
    <3>2. CASE ~(outcome = "ok" /\ answer.prefix # None)
      <4>1. claims' = {} /\ info' = [prefix |-> None, asns |-> <<>>]
        BY <1>2, <3>2 DEF LookUp
      <4>2. OriginsDecided(claims, info.asns)'
        BY <4>1 DEF OriginsDecided
      <4>3. info' \in [prefix : Prefix \cup {None}, asns : Seq(Asn)]
        BY <4>1
      <4> QED
        BY <4>2, <4>3
    <3> QED
      BY <3>1, <3>2
  <2>4. Filed'
    BY <1>0, <2>1, <2>2, FiledStay
  <2>5. Verdicts'
    BY <1>0, <2>1, <2>2
  <2>6. AddressesOK'
    <3>1. None \notin Address
      BY RouteAssumption
    <3> QED
      BY <1>0, <2>1, <2>2, <3>1, AddressesStay
  <2> QED
    BY <2>2, <2>3, <2>4, <2>5, <2>6
<1>3. ASSUME Validating
      PROVE  /\ info \in [prefix : Prefix \cup {None}, asns : Seq(Asn)]
             /\ OriginsDecided(claims, info.asns) /\ info.asns # <<>>
             /\ Origin[1] = Head(info.asns)
  BY <1>0, <1>3 DEF Validating, Origin
<1>4. ASSUME NEW outcome \in Outcome, NEW status \in RpkiStatus, Validate(outcome, status)
      PROVE  Budgeted' /\ Learnt' /\ Filed' /\ Verdicts' /\ AddressesOK'
  <2> DEFINE found == IF outcome = "ok" THEN status ELSE None
  <2>1. /\ Validating /\ ~OutOfBudget /\ Requested(outcome)
        /\ rpki_by_origin' = Inserted(rpki_by_origin, Origin, found)
        /\ claims' = claims \cup {Claim("rpki_state", <<Origin[1], v>>) : v \in {found} \ {None}}
        /\ info' = [info EXCEPT !.asns = IF outcome = "late" THEN <<>> ELSE Tail(@)]
        /\ UNCHANGED <<todo, address, claims_by_address>>
    BY <1>4 DEF Validate, Validated
  <2>2. /\ Budgeted' /\ (GaveUp => GaveUp') /\ (Excused => Excused')
        /\ report.lookups_failed > 0 => report'.lookups_failed > 0
        /\ outcome # "ok" => Excused' /\ report'.lookups_failed > 0
        /\ outcome = "late" => GaveUp'
    BY <1>0, <2>1, RequestCounted
  <2>3. found = None => outcome # "ok"
    BY EnrichmentAssumption
  <2> HIDE DEF found
  <2>4. Learnt'
    <3>1. PICK cs, left, vs :
            /\ cs = claims /\ left = info.asns
            /\ vs = {Claim("rpki_state", <<Head(left), v>>) : v \in {found} \ {None}}
      OBVIOUS
    <3>2. /\ left \in Seq(Asn) /\ left # <<>> /\ OriginsDecided(cs, left)
          /\ Origin[1] = Head(left)
      BY <1>3, <2>1, <3>1
    <3>3. claims' = cs \cup vs
      BY <2>1, <3>1, <3>2
    <3>4. PICK rest \in Seq(Asn) : rest = IF outcome = "late" THEN <<>> ELSE Tail(left)
      <4>1. Tail(left) \in Seq(Asn) /\ <<>> \in Seq(Asn)
        BY <3>2
      <4> QED
        BY <4>1
    <3>5. info' \in [prefix : Prefix \cup {None}, asns : Seq(Asn)] /\ info'.asns = rest
      <4>1. info' = [info EXCEPT !.asns = rest]
        BY <2>1, <3>1, <3>4
      <4> QED
        BY <1>3, <2>1, <4>1, OriginsLeft
    <3>6. CASE outcome = "late"
      <4>1. Excused'
        BY <2>2, <3>6
      <4>2. OriginsDecided(claims, info.asns)'
        BY <4>1 DEF OriginsDecided
      <4> QED
        BY <3>5, <4>2
    <3>7. CASE outcome # "late"
      <4>1. PICK verdict : verdict = found
        OBVIOUS
      <4>2. verdict = None => Excused'
        BY <2>2, <2>3, <4>1
      <4>3. OriginsDecided(cs \cup vs, Tail(left))'
        BY <2>2, <3>1, <3>2, <4>1, <4>2, NextDecided
      <4>4. OriginsDecided(claims, info.asns)'
        BY <3>3, <3>4, <3>5, <3>7, <4>3
      <4> QED
        BY <3>5, <4>4
    <3> QED
      BY <3>6, <3>7
  <2>5. Filed'
    BY <1>0, <2>1, <2>2, FiledStay
  <2>6. Verdicts'
    <3> SUFFICES ASSUME NEW o \in DOMAIN rpki_by_origin', rpki_by_origin'[o] = None
                 PROVE  report'.lookups_failed > 0
      OBVIOUS
    <3>1. /\ o = Origin => rpki_by_origin'[o] = found
          /\ o # Origin => o \in DOMAIN rpki_by_origin /\ rpki_by_origin'[o] = rpki_by_origin[o]
      BY <2>1 DEF Inserted
    <3> QED
      BY <1>0, <2>2, <2>3, <3>1
  <2>7. AddressesOK'
    BY <1>0, <2>1, <2>2, AddressesStay
  <2> QED
    BY <2>2, <2>4, <2>5, <2>6, <2>7
<1>5. CASE Recall
  <2>1. /\ Validating /\ Origin \in DOMAIN rpki_by_origin
        /\ claims' = claims \cup {Claim("rpki_state", <<Origin[1], v>>) :
                                   v \in {rpki_by_origin[Origin]} \ {None}}
        /\ info' = [info EXCEPT !.asns = Tail(@)]
        /\ UNCHANGED <<todo, address, claims_by_address, rpki_by_origin, report, expired>>
    BY <1>5 DEF Recall, Validated
  <2>2. Budgeted' /\ UNCHANGED <<GaveUp, Excused>>
    BY <1>0, <2>1 DEF Budgeted, GaveUp, Excused
  <2>3. Learnt'
    <3>1. PICK cs, left, found, vs :
            /\ cs = claims /\ left = info.asns /\ found = rpki_by_origin[Origin]
            /\ vs = {Claim("rpki_state", <<Head(left), v>>) : v \in {found} \ {None}}
      OBVIOUS
    <3>2. /\ left \in Seq(Asn) /\ left # <<>> /\ OriginsDecided(cs, left)
          /\ Origin[1] = Head(left)
      BY <1>3, <2>1, <3>1
    <3>3. claims' = cs \cup vs
      BY <2>1, <3>1, <3>2
    <3>4. info' \in [prefix : Prefix \cup {None}, asns : Seq(Asn)] /\ info'.asns = Tail(left)
      <4>1. PICK rest \in Seq(Asn) : rest = Tail(left)
        <5>1. Tail(left) \in Seq(Asn)
          BY <3>2
        <5> QED
          BY <5>1
      <4>2. info' = [info EXCEPT !.asns = rest]
        BY <2>1, <3>1, <4>1
      <4> QED
        BY <1>3, <2>1, <4>1, <4>2, OriginsLeft
    <3>5. found = None => Excused'
      BY <1>0, <2>1, <2>2, <3>1 DEF Excused
    <3>6. OriginsDecided(cs \cup vs, Tail(left))'
      BY <2>2, <3>1, <3>2, <3>5, NextDecided
    <3>7. OriginsDecided(claims, info.asns)'
      BY <3>3, <3>4, <3>6
    <3> QED
      BY <3>4, <3>7
  <2>4. Filed'
    BY <1>0, <2>1, <2>2, FiledStay
  <2>5. AddressesOK'
    BY <1>0, <2>1, <2>2, AddressesStay
  <2> QED
    BY <1>0, <2>1, <2>2, <2>3, <2>4, <2>5
<1>6. CASE GiveUpOrigins
  <2>1. /\ Validating /\ OutOfBudget /\ report' = Exhausted
        /\ info' = [info EXCEPT !.asns = <<>>]
        /\ UNCHANGED <<todo, address, claims, claims_by_address, rpki_by_origin, expired>>
    BY <1>6 DEF GiveUpOrigins
  <2>2. /\ Budgeted' /\ GaveUp' /\ Excused'
        /\ report'.lookups_failed = report.lookups_failed
    BY <1>0, <2>1, GivenUp
  <2>3. Learnt'
    <3>1. info' \in [prefix : Prefix \cup {None}, asns : Seq(Asn)]
      <4>1. <<>> \in Seq(Asn)
        OBVIOUS
      <4> QED
        BY <1>3, <2>1, <4>1, OriginsLeft
    <3>2. OriginsDecided(claims, info.asns)'
      BY <2>2 DEF OriginsDecided
    <3> QED
      BY <3>1, <3>2
  <2>4. Filed'
    BY <1>0, <2>1, <2>2, FiledStay
  <2>5. AddressesOK'
    BY <1>0, <2>1, <2>2, AddressesStay
  <2> QED
    BY <1>0, <2>1, <2>2, <2>3, <2>4, <2>5
<1>7. CASE FileClaims
  <2> DEFINE learnt == IF claims = {} THEN {Claim("routing_metadata", None)} ELSE claims
  <2>1. /\ address # None /\ info.asns = <<>>
        /\ claims_by_address' = Inserted(claims_by_address, address, learnt)
        /\ address' = None /\ UNCHANGED <<todo, rpki_by_origin, report, expired>>
    BY <1>7 DEF FileClaims
  <2>2. Budgeted' /\ UNCHANGED <<GaveUp, Excused>>
    BY <1>0, <2>1 DEF Budgeted, GaveUp, Excused
  <2>3. OriginsDecided(learnt, <<>>)
    <3>1. CASE claims = {}
      BY <3>1 DEF OriginsDecided, Claim
    <3>2. CASE claims # {}
      BY <1>0, <2>1, <3>2
    <3> QED
      BY <3>1, <3>2
  <2> HIDE DEF learnt
  <2>4. /\ DOMAIN claims_by_address' = {address} \cup DOMAIN claims_by_address
        /\ claims_by_address'[address] = learnt
        /\ \A a \in DOMAIN claims_by_address :
             a # address => claims_by_address'[a] = claims_by_address[a]
    BY <2>1 DEF Inserted
  <2>5. Filed'
    <3> SUFFICES ASSUME NEW a \in DOMAIN claims_by_address'
                 PROVE  OriginsDecided(claims_by_address[a], <<>>)'
      OBVIOUS
    <3>1. PICK filed : filed = claims_by_address'[a]
      OBVIOUS
    <3>2. OriginsDecided(filed, <<>>)
      BY <1>0, <2>3, <2>4, <3>1
    <3>3. OriginsDecided(filed, <<>>)'
      BY <2>2, <3>2, StillDecided
    <3> QED
      BY <3>1, <3>3
  <2>6. AddressesOK'
    BY <1>0, <2>1, <2>2, <2>4, AddressesStay
  <2> QED
    BY <1>0, <2>1, <2>2, <2>5, <2>6
<1>8. CASE GiveUpAddresses
  <2>1. /\ OutOfBudget /\ report' = Exhausted
        /\ UNCHANGED <<address, info, claims, claims_by_address, rpki_by_origin, expired>>
    BY <1>8 DEF GiveUpAddresses
  <2>2. /\ Budgeted' /\ GaveUp' /\ Excused'
        /\ report'.lookups_failed = report.lookups_failed
    BY <1>0, <2>1, GivenUp
  <2>3. Learnt'
    BY <1>0, <2>1, <2>2, LearntStays
  <2>4. Filed'
    BY <1>0, <2>1, <2>2, FiledStay
  <2>5. AddressesOK'
    BY <1>0, <2>2, AddressesStay
  <2> QED
    BY <1>0, <2>1, <2>2, <2>3, <2>4, <2>5
<1> QED
  BY <1>2, <1>4, <1>5, <1>6, <1>7, <1>8 DEF LookUps

\* ApplyClaims ends with nothing left to look up, and resolves what it can.
LEMMA ApplyStep ==
  ASSUME TraceInv, EnrichmentInv, ApplyClaims
  PROVE  EnrichmentInv'
<1>1. /\ phase = "enrich" /\ phase' = "enriched" /\ address = None /\ todo = {}
      /\ UNCHANGED <<todo, address, info, claims, claims_by_address, rpki_by_origin, report, expired>>
  BY DEF ApplyClaims, enrichment
<1>2. UNCHANGED <<GaveUp, Excused>>
  BY <1>1 DEF GaveUp, Excused
<1>3. Budgeted' /\ ClaimsOK'
  BY <1>1, <1>2, FiledStay DEF EnrichmentInv, Budgeted, ClaimsOK
<1> DEFINE n == Len(records) - 2
<1>4. /\ records \in Seq(Range(records)) /\ Len(records) >= 2
      /\ records' \in Seq(Range(records')) /\ Len(records') = Len(records)
      /\ \A i \in 1..n :
           /\ records'[i + 1].hop.probes = records[i + 1].hop.probes
           /\ records'[i + 1].hop.unresolved \cap Fields(records'[i + 1].hop.claims) = {}
  BY Applied DEF TraceInv, StreamOK
<1>5. PICK before, after : before = Hops(records) /\ after = Hops(records')
  OBVIOUS
<1>6. /\ DOMAIN before = 1..n /\ DOMAIN after = 1..n
      /\ \A i \in 1..n : before[i] = records[i + 1].hop /\ after[i] = records'[i + 1].hop
  BY <1>4, <1>5, HopsOf
<1>7. \A i \in 1..n : after[i].probes = before[i].probes
                    /\ after[i].unresolved \cap Fields(after[i].claims) = {}
  BY <1>4, <1>6
<1> HIDE DEF n
<1>8. Answered' = Answered
  <2>1. {Responders(hop.probes) : hop \in Range(before)}
          = {Responders(hop.probes) : hop \in Range(after)}
    BY <1>6, <1>7 DEF Range
  <2> QED
    BY <1>5, <2>1 DEF Answered
<1>9. AddressesOK'
  <2>1. \A a \in Answered \cap Public : a \in DOMAIN claims_by_address \/ GaveUp
    <3>1. None \notin Public
      BY RouteAssumption
    <3> QED
      BY <1>1, <3>1 DEF EnrichmentInv, AddressesOK
  <2>2. \A i \in DOMAIN after : after[i].unresolved \cap Fields(after[i].claims) = {}
    BY <1>6, <1>7
  <2> QED
    BY <1>1, <1>2, <1>5, <1>8, <2>1, <2>2 DEF AddressesOK
<1> QED
  BY <1>3, <1>9 DEF EnrichmentInv

\* Every step keeps EnrichmentInv.
LEMMA EnrichmentStep == TraceInv /\ EnrichmentInv /\ [EnrichmentNext]_allVars => EnrichmentInv'
<1> SUFFICES ASSUME TraceInv, EnrichmentInv, [EnrichmentNext]_allVars PROVE EnrichmentInv'
  OBVIOUS
<1>1. ASSUME UNCHANGED <<todo, address, info, claims, claims_by_address, rpki_by_origin, report>>,
             expired' \in BOOLEAN
      PROVE  Budgeted' /\ ClaimsOK' /\ UNCHANGED GaveUp
  <2>1. UNCHANGED <<GaveUp, Excused>>
    BY <1>1 DEF GaveUp, Excused
  <2>2. ClaimsOK'
    BY <1>1, <2>1, FiledStay, LearntStays DEF EnrichmentInv, ClaimsOK
  <2> QED
    BY <1>1, <2>1, <2>2 DEF EnrichmentInv, Budgeted
<1>2. ASSUME UNCHANGED <<todo, address, info, claims, claims_by_address, rpki_by_origin, report>>,
             expired' \in BOOLEAN,
             \/ phase' \notin {"enrich", "enriched"}
             \/ UNCHANGED <<phase, records>>
      PROVE  EnrichmentInv'
  <2>1. Budgeted' /\ ClaimsOK' /\ UNCHANGED GaveUp
    BY <1>1, <1>2
  <2>2. CASE phase' \notin {"enrich", "enriched"}
    BY <2>1, <2>2 DEF EnrichmentInv, AddressesOK
  <2>3. CASE UNCHANGED <<phase, records>>
    <3>1. UNCHANGED <<Answered, Hops(records)>>
      BY <2>3 DEF Answered
    <3>2. AddressesOK'
      BY <1>2, <2>1, <2>3, <3>1 DEF EnrichmentInv, AddressesOK
    <3> QED
      BY <2>1, <3>2 DEF EnrichmentInv
  <2> QED
    BY <1>2, <2>2, <2>3
<1>3. expired \in BOOLEAN
  BY DEF EnrichmentInv, Budgeted
<1>4. CASE UNCHANGED allVars
  BY <1>2, <1>3, <1>4 DEF allVars, vars, tracer, enrichment
<1>5. CASE Next /\ UNCHANGED enrichment
  <2>1. \/ phase' \notin {"enrich", "enriched"}
        \/ UNCHANGED <<phase, records>>
    BY <1>5 DEF Next, Trace, StartHop, SendProbe, SendFails, TimeOut, Receive, EndHop, Observe,
                Finish, Fail, Network, Answer, Elapse, tracer
  <2> QED
    BY <1>2, <1>3, <1>5, <2>1 DEF enrichment
<1>6. CASE StartEnrichment
  <2>1. /\ phase' = "enrich" /\ todo' = Answered \cap Public
        /\ UNCHANGED <<records, address, info, claims, claims_by_address, rpki_by_origin,
                       report, expired>>
    BY <1>6 DEF StartEnrichment
  <2>2. UNCHANGED <<GaveUp, Excused, Answered>>
    BY <2>1 DEF GaveUp, Excused, Answered
  <2>3. Budgeted' /\ ClaimsOK'
    BY <2>1, <2>2, FiledStay, LearntStays DEF EnrichmentInv, Budgeted, ClaimsOK
  <2>4. AddressesOK'
    BY <2>1, <2>2 DEF AddressesOK
  <2> QED
    BY <2>3, <2>4 DEF EnrichmentInv
<1>7. CASE Enrich
  BY <1>7, ApplyStep, LookUpsStep DEF Enrich
<1>8. CASE phase = "enrich" /\ Expire /\ UNCHANGED vars
  BY <1>2, <1>8 DEF Expire, vars, tracer
<1> QED
  BY <1>4, <1>5, <1>6, <1>7, <1>8 DEF EnrichmentNext

\* An enriched stream accounts for whatever it lacks: with a budget it gave up
\* for, or with a request that failed.
THEOREM GapsAccountedFor == EnrichmentSpec => []EnrichmentAccountsForGaps
<1>1. EnrichmentInit => EnrichmentInv
  <2> SUFFICES ASSUME EnrichmentInit PROVE EnrichmentInv
    OBVIOUS
  <2>1. Budgeted
    <3>1. /\ report = [lookups_attempted |-> 0, lookups_succeeded |-> 0, lookups_failed |-> 0,
                       lookup_budget_exhausted |-> FALSE, duration_exhausted |-> FALSE]
          /\ expired = FALSE
      BY DEF EnrichmentInit
    <3>2. report \in Requests
      BY <3>1 DEF Requests
    <3>3. 0 <= MaxLookups
      BY EnrichmentAssumption
    <3>4. /\ report.lookups_attempted = 0 /\ report.lookups_succeeded = 0
          /\ report.lookups_failed = 0 /\ expired \in BOOLEAN
      BY <3>1
    <3> QED
      BY <3>2, <3>3, <3>4 DEF Budgeted
  <2>2. ClaimsOK
    BY DEF EnrichmentInit, ClaimsOK
  <2>3. AddressesOK
    BY DEF EnrichmentInit, Init, AddressesOK
  <2> QED
    BY <2>1, <2>2, <2>3 DEF EnrichmentInv
<1>2. TraceInv /\ EnrichmentInv => EnrichmentAccountsForGaps
  <2> SUFFICES ASSUME TraceInv, EnrichmentInv PROVE EnrichmentAccountsForGaps
    OBVIOUS
  <2>1. /\ report.lookups_attempted <= MaxLookups
        /\ report.lookups_attempted = report.lookups_succeeded + report.lookups_failed
    BY DEF EnrichmentInv, Budgeted
  <2>2. SUFFICES ASSUME phase = "enriched"
                 PROVE
          /\ \A a \in Answered \cap Public : a \in DOMAIN claims_by_address \/ GaveUp
          /\ \A a \in DOMAIN claims_by_address :
               \A asns \in {c.value : c \in {d \in claims_by_address[a] : d.field = "origin_asn"}} :
                 \A asn \in Range(asns) :
                   \/ \E c \in claims_by_address[a] : c.field = "rpki_state" /\ c.value[1] = asn
                   \/ GaveUp \/ report.lookups_failed > 0
          /\ \A hop \in Range(Hops(records)) : hop.unresolved \cap Fields(hop.claims) = {}
    BY <2>1 DEF EnrichmentAccountsForGaps, GaveUp
  <2>3. \A a \in Answered \cap Public : a \in DOMAIN claims_by_address \/ GaveUp
    <3>1. None \notin Public
      BY RouteAssumption
    <3> QED
      BY <2>2, <3>1 DEF EnrichmentInv, AddressesOK
  <2>4. ASSUME NEW a \in DOMAIN claims_by_address, NEW c \in claims_by_address[a],
               c.field = "origin_asn", NEW asn \in Range(c.value)
        PROVE  \/ \E v \in claims_by_address[a] : v.field = "rpki_state" /\ v.value[1] = asn
               \/ GaveUp \/ report.lookups_failed > 0
    <3>1. asn \notin Range(<<>>)
      BY DEF Range
    <3>2. OriginsDecided(claims_by_address[a], <<>>)
      BY DEF EnrichmentInv, ClaimsOK
    <3> QED
      BY <2>4, <3>1, <3>2 DEF OriginsDecided, Excused
  <2>5. \A hop \in Range(Hops(records)) : hop.unresolved \cap Fields(hop.claims) = {}
    BY <2>2 DEF EnrichmentInv, AddressesOK, Range
  <2> QED
    BY <2>3, <2>4, <2>5
<1> QED
  BY <1>1, <1>2, EnrichmentStep, TraceInvariant, PTL DEF EnrichmentSpec
=============================================================================
