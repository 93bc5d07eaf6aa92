----------------------------- MODULE RouteStream -----------------------------
(***************************************************************************)
(* Streams of skbx-route (crates/skbx-route): the records of one route     *)
(* observation, and `replay` and `explain`, which read them back.          *)
(*                                                                         *)
(* A stream is a sequence of records.  A hop's handle is a hash of the     *)
(* trace's identity, the TTL and the observations: here, that tuple.       *)
(* Times, ICMP codes and error numbers are left out.                       *)
(***************************************************************************)
EXTENDS Integers, Sequences, FiniteSets, SequencesExt, FiniteSetsExt

CONSTANTS
  Address,             \* who may answer a probe
  Target,              \* the resolved address of the plan's target
  Public,              \* the addresses is_public_routable holds of
  MAX_HOPS,
  MAX_PROBES_PER_HOP,
  MAX_PACKETS,
  None                 \* no address, no answer

ASSUME RouteAssumption ==
  /\ Target \in Address
  /\ Public \subseteq Address
  /\ None \notin Address
  /\ MAX_HOPS \in Nat \ {0} /\ MAX_PROBES_PER_HOP \in Nat \ {0} /\ MAX_PACKETS \in Nat \ {0}

\* The plans bounded_udp accepts.
ProbePlan ==
  {plan \in [max_hops : 1..MAX_HOPS, probes_per_hop : 1..MAX_PROBES_PER_HOP,
             max_packets : 1..MAX_PACKETS] :
     plan.max_packets = plan.max_hops * plan.probes_per_hop}

ProbeOutcome ==
  {"time_exceeded", "destination_reached", "unreachable", "other_icmp", "timeout",
   "local_error"}

ProbeObservation(sequence, outcome, responder) ==
  [sequence |-> sequence, outcome |-> outcome, responder |-> responder]

StopReason == {"destination_reached", "max_hops", "duration_budget"}

UNKNOWN_DOSSIER_FIELDS ==
  {"reverse_dns", "network_prefix", "origin_asn", "organization", "rpki_state",
   "location_hint", "mpls_labels", "remote_forwarding_decision"}

-----------------------------------------------------------------------------
\* Writing records.

hop_handle(trace_id, ttl, probes) == <<trace_id, ttl, probes>>

Responders(probes) == {p.responder : p \in Range(probes)} \ {None}

\* The dossier of a hop just observed.
live_hop(trace_id, ttl, probes) ==
  [handle |-> hop_handle(trace_id, ttl, probes), ttl |-> ttl, probes |-> probes,
   claims |-> IF Responders(probes) = {}
                THEN {[field |-> "response", value |-> None]}
                ELSE [field : {"response_address"}, value : Responders(probes)],
   unresolved |-> UNKNOWN_DOSSIER_FIELDS]

TraceStart(trace_id, plan) ==
  [record |-> "trace_start", trace_id |-> trace_id, plan |-> plan, target_ip |-> Target]

Hop(trace_id, hop) == [record |-> "hop", trace_id |-> trace_id, hop |-> hop]

TraceEnd(trace_id, destination_reached, stop_reason, reliability) ==
  [record |-> "trace_end", trace_id |-> trace_id, destination_reached |-> destination_reached,
   stop_reason |-> stop_reason, reliability |-> reliability]

-----------------------------------------------------------------------------
\* Reading them back.

\* The records between the first and the last, and the hops they hold.
Middle(records) == SubSeq(records, 2, Len(records) - 1)
Hops(records) == [i \in DOMAIN Middle(records) |-> Middle(records)[i].hop]

\* The probes of all hops, by their places.
Probes(hops) == UNION {{i} \X DOMAIN hops[i].probes : i \in DOMAIN hops}
Probe(hops, at) == hops[at[1]].probes[at[2]]
Count(hops, outcomes) ==
  Cardinality({at \in Probes(hops) : Probe(hops, at).outcome \in outcomes})

\* The target answered one of them.
Observed(hops) ==
  \E at \in Probes(hops) : /\ Probe(hops, at).outcome = "destination_reached"
                           /\ Probe(hops, at).responder = Target

Replied == ProbeOutcome \ {"timeout", "local_error"}

ValidHop(trace_id, plan, hop, previous_ttl) ==
  /\ hop.ttl > previous_ttl /\ hop.ttl <= plan.max_hops
  /\ Len(hop.probes) \in 1..plan.probes_per_hop
  /\ hop.handle = hop_handle(trace_id, hop.ttl, hop.probes)

Framed(records) ==
  /\ Len(records) >= 2
  /\ records[1].record = "trace_start"
  /\ Last(records).record = "trace_end"
  /\ \A i \in DOMAIN Middle(records) : Middle(records)[i].record = "hop"
  /\ \A r \in Range(records) : r.trace_id = records[1].trace_id

CountersAgree(plan, hops, end) ==
  /\ end.reliability.planned_packets = plan.max_packets
  /\ end.reliability.attempted_packets = Cardinality(Probes(hops))
  /\ end.reliability.replies = Count(hops, Replied)
  /\ end.reliability.timeouts = Count(hops, {"timeout"})
  /\ end.reliability.local_errors = Count(hops, {"local_error"})
  /\ end.reliability.sent_packets <= end.reliability.attempted_packets
  /\ end.destination_reached <=> Observed(hops)

\* `replay` accepts the stream.
Replays(records) ==
  /\ Framed(records)
  /\ LET hops == Hops(records)
     IN /\ \A i \in DOMAIN hops :
             ValidHop(records[1].trace_id, records[1].plan, hops[i],
                      IF i = 1 THEN 0 ELSE hops[i - 1].ttl)
        /\ CountersAgree(records[1].plan, hops, Last(records))

\* What it then says.
ReplaySummary(records) ==
  LET hops == Hops(records)
  IN [target_ip |-> records[1].target_ip,
      hops |-> Len(hops),
      responsive_hops |->
        Cardinality({i \in DOMAIN hops :
                       \E p \in Range(hops[i].probes) : p.outcome # "timeout"}),
      destination_reached |-> Last(records).destination_reached,
      stop_reason |-> Last(records).stop_reason,
      reliability |-> Last(records).reliability,
      route_handle |-> [i \in DOMAIN hops |-> hops[i].handle]]

\* `explain`: the first hop with the handle, whatever else the stream holds.
explain(records, handle) ==
  LET found == {i \in DOMAIN records :
                  records[i].record = "hop" /\ records[i].hop.handle = handle}
  IN IF records[1].record = "trace_start" /\ found # {} THEN records[Min(found)].hop ELSE None
=============================================================================
