------------------------------ MODULE RouteTrace ------------------------------
(***************************************************************************)
(* trace_udp: probes with growing TTL on one connected socket, whose error *)
(* queue receives the ICMP answers.                                        *)
(*                                                                         *)
(* The code waits for one answer at a time and takes whatever the queue    *)
(* gives it; the network may answer late, out of order, or not at all.     *)
(***************************************************************************)
EXTENDS RouteStream

CONSTANTS
  Path,  \* the routers that may answer at each distance short of the target
  Icmp   \* the ICMP errors a router may send

ASSUME PathAssumption ==
  /\ Path \in Seq(SUBSET (Address \ {Target}))
  /\ Icmp \subseteq {"time_exceeded", "port_unreachable", "unreachable", "other"}

VARIABLES
  plan,
  phase,               \* where trace_udp is
  ttl,
  observations,        \* those of the current hop
  records,
  sequence,            \* the last probe's number
  reliability,         \* the counters of the footer
  destination_reached,
  duration_exhausted,
  elapsed,             \* the run's duration is over
  in_flight,           \* probes that may still be answered
  queue                \* the socket's error queue

network == <<in_flight, queue>>
tracer == <<plan, phase, ttl, observations, records, sequence, reliability,
            destination_reached, duration_exhausted>>
vars == <<tracer, network, elapsed>>

\* The identity of the only trace there is.
trace_id == "trace"

-----------------------------------------------------------------------------
Init ==
  /\ plan \in ProbePlan
  /\ phase = "hop"
  /\ ttl = 1
  /\ observations = <<>>
  /\ records = <<TraceStart(trace_id, plan)>>
  /\ sequence = 0
  /\ reliability = [planned_packets |-> plan.max_packets, attempted_packets |-> 0,
                    sent_packets |-> 0, replies |-> 0, timeouts |-> 0, local_errors |-> 0]
  /\ destination_reached = FALSE
  /\ duration_exhausted = FALSE
  /\ elapsed = FALSE
  /\ in_flight = {}
  /\ queue = <<>>

StartHop ==
  /\ phase = "hop"
  /\ IF ttl > plan.max_hops \/ elapsed
       THEN /\ phase' = "finish"
            /\ duration_exhausted' = (duration_exhausted \/ ttl <= plan.max_hops)
       ELSE phase' = "probe" /\ UNCHANGED duration_exhausted
  /\ observations' = <<>>
  /\ UNCHANGED <<plan, ttl, records, sequence, reliability, destination_reached,
                 network, elapsed>>

\* The current probe's result.
Observe(outcome, responder) ==
  /\ observations' = Append(observations, ProbeObservation(sequence', outcome, responder))
  /\ phase' = "probe"

MoreProbes == Len(observations) < plan.probes_per_hop

Attempted == [reliability EXCEPT !.attempted_packets = @ + 1]

SendProbe ==
  /\ phase = "probe" /\ MoreProbes /\ ~elapsed
  /\ sequence' = sequence + 1
  /\ in_flight' = in_flight \cup {[sequence |-> sequence + 1, ttl |-> ttl]}
  /\ reliability' = [Attempted EXCEPT !.sent_packets = @ + 1]
  /\ phase' = "wait"
  /\ UNCHANGED <<plan, ttl, observations, records, destination_reached, duration_exhausted,
                 queue, elapsed>>

SendFails ==
  /\ phase = "probe" /\ MoreProbes /\ ~elapsed
  /\ sequence' = sequence + 1
  /\ reliability' = [Attempted EXCEPT !.local_errors = @ + 1]
  /\ Observe("local_error", None)
  /\ UNCHANGED <<plan, ttl, records, destination_reached, duration_exhausted,
                 network, elapsed>>

\* A mutant: poll waits as long as an answer may come.
PollWaits == queue = <<>> /\ in_flight = {}

\* poll returns 0 after its timeout: nothing is in the queue.
PollTimesOut == queue = <<>>

TimeOut ==
  /\ phase = "wait" /\ PollTimesOut
  /\ reliability' = [reliability EXCEPT !.timeouts = @ + 1]
  /\ UNCHANGED sequence
  /\ Observe("timeout", None)
  /\ UNCHANGED <<plan, ttl, records, destination_reached, duration_exhausted,
                 network, elapsed>>

\* A mutant: whoever says that the port is unreachable is the target.
classify_port(icmp, responder) ==
  CASE icmp = "time_exceeded" -> "time_exceeded"
    [] icmp = "port_unreachable" -> "destination_reached"
    [] icmp = "unreachable" -> "unreachable"
    [] OTHER -> "other_icmp"

classify_icmp(icmp, responder) ==
  CASE icmp = "time_exceeded" -> "time_exceeded"
    [] icmp = "port_unreachable" /\ responder = Target -> "destination_reached"
    [] icmp \in {"port_unreachable", "unreachable"} -> "unreachable"
    [] OTHER -> "other_icmp"

\* recvmsg on the error queue.
Receive ==
  /\ phase = "wait" /\ queue # <<>>
  /\ LET error == Head(queue)
         outcome == classify_icmp(error.icmp, error.responder)
     IN /\ UNCHANGED sequence
        /\ Observe(outcome, error.responder)
        /\ destination_reached' = (destination_reached \/ outcome = "destination_reached")
  /\ queue' = Tail(queue)
  /\ reliability' = [reliability EXCEPT !.replies = @ + 1]
  /\ UNCHANGED <<plan, ttl, records, duration_exhausted, in_flight, elapsed>>

EndHop ==
  /\ phase = "probe" /\ (MoreProbes => elapsed)
  /\ duration_exhausted' = (duration_exhausted \/ MoreProbes)
  /\ records' = IF observations = <<>>
                  THEN records
                  ELSE Append(records, Hop(trace_id, live_hop(trace_id, ttl, observations)))
  /\ IF observations = <<>> \/ destination_reached
       THEN phase' = "finish" /\ UNCHANGED ttl
       ELSE phase' = "hop" /\ ttl' = ttl + 1
  /\ UNCHANGED <<plan, observations, sequence, reliability, destination_reached,
                 network, elapsed>>

\* A mutant: the last hop was reached, if not probed to its end.
stop_reason_by_hop ==
  IF destination_reached THEN "destination_reached"
  ELSE IF ttl > plan.max_hops THEN "max_hops"
  ELSE "duration_budget"

stop_reason ==
  IF destination_reached THEN "destination_reached"
  ELSE IF duration_exhausted THEN "duration_budget"
  ELSE "max_hops"

Finish ==
  /\ phase = "finish"
  /\ records' = Append(records, TraceEnd(trace_id, destination_reached, stop_reason, reliability))
  /\ phase' = "ended"
  /\ UNCHANGED <<plan, ttl, observations, sequence, reliability, destination_reached,
                 duration_exhausted, network, elapsed>>

\* set_ttl, poll or recvmsg returns an error, which ends the run without records.
Fail ==
  /\ phase \in {"hop", "wait"}
  /\ phase' = "failed"
  /\ UNCHANGED <<plan, ttl, observations, records, sequence, reliability, destination_reached,
                 duration_exhausted, network, elapsed>>

-----------------------------------------------------------------------------
\* The network, and the clock.

Stopped == phase \in {"ended", "failed"}

\* A router, or the target, answers a probe; or nobody ever does.
Answer(probe, icmp, responder) ==
  /\ ~Stopped
  /\ IF probe.ttl <= Len(Path)
       THEN icmp \in Icmp /\ responder \in Path[probe.ttl]
       ELSE icmp = "port_unreachable" /\ responder = Target
  /\ in_flight' = in_flight \ {probe}
  /\ queue' = Append(queue, [sequence |-> probe.sequence, icmp |-> icmp,
                             responder |-> responder])
  /\ UNCHANGED <<tracer, elapsed>>

Elapse ==
  /\ ~Stopped /\ ~elapsed
  /\ elapsed' = TRUE
  /\ UNCHANGED <<tracer, network>>

Trace ==
  StartHop \/ SendProbe \/ SendFails \/ TimeOut \/ Receive \/ EndHop \/ Finish

Network ==
  \E probe \in in_flight, icmp \in Icmp \cup {"port_unreachable"}, responder \in Address :
    Answer(probe, icmp, responder)

Next == Trace \/ Fail \/ Network \/ Elapse

Spec == Init /\ [][Next]_vars /\ WF_vars(Trace)

-----------------------------------------------------------------------------
RouteTypeOK ==
  /\ plan \in ProbePlan
  /\ ttl \in 1..plan.max_hops + 1
  /\ sequence \in 0..plan.max_packets
  /\ reliability \in [planned_packets : {plan.max_packets}, attempted_packets : {sequence},
                      sent_packets : 0..sequence, replies : 0..sequence,
                      timeouts : 0..sequence, local_errors : 0..sequence]
  /\ Len(observations) <= plan.probes_per_hop
  /\ in_flight \subseteq [sequence : 1..sequence, ttl : 1..plan.max_hops]
  /\ Len(queue) + Cardinality(in_flight) <= reliability.sent_packets

Swap(s, i, j) == [s EXCEPT ![i] = s[j], ![j] = s[i]]

\* A stream has been written: by this module, or by one that takes it up.
Written == phase \in {"ended", "enriched"}

\* Whatever the network did, `replay` accepts the stream trace_udp wrote, and
\* no stream in which one record of it is lost, doubled or out of place.  The
\* counters are kept twice: by trace_udp, event by event, and by `replay`,
\* from the hops.
ReplaysExactlyWhatWasWritten ==
  Written =>
    /\ Replays(records)
    /\ \A i \in DOMAIN records :
         ~Replays(RemoveAt(records, i)) /\ ~Replays(InsertAt(records, i, records[i]))
    /\ \A i, j \in DOMAIN records : i # j => ~Replays(Swap(records, i, j))

\* The footer's stop reason is what happened, and late answers never make the
\* path look shorter than it is: a recorded answer was to this probe or to an
\* earlier one, so the target is found at its distance or beyond.
StopReasonIsTrue ==
  Written =>
    LET hops == Hops(records)
        all_probed == \A i \in DOMAIN hops : Len(hops[i].probes) = plan.probes_per_hop
    IN CASE Last(records).stop_reason = "max_hops" -> Len(hops) = plan.max_hops /\ all_probed
         [] Last(records).stop_reason = "duration_budget" ->
              elapsed /\ ~(Len(hops) = plan.max_hops /\ all_probed)
         [] Last(records).stop_reason = "destination_reached" -> Last(hops).ttl > Len(Path)

\* The run ends, whatever the network does: every wait has a timeout.
RunEnds == <>Stopped
=============================================================================
