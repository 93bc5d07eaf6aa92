------------------------------ MODULE TraceFile ------------------------------
(***************************************************************************)
(* `skbx replay` reads one file: what a writer puts there, or that with a  *)
(* field wrong in some record, or with records repeated, out of place,     *)
(* torn or missing.                                                        *)
(***************************************************************************)
EXTENDS TraceReplay

CONSTANT
  Family  \* the files: each family says what their records may hold

FamilyType ==
  [schema : SUBSET Schema, capture_id : SUBSET Capture, route_cache_entries : SUBSET Nat,
   first_seq : SUBSET Nat, skb : SUBSET (Skb \cup {None}), address : SUBSET Skb,
   function : SUBSET Function, faulty : BOOLEAN]

ASSUME FamilyAssumption == Family \subseteq FamilyType

\* The records of the contract, and a line that is none of them.
StartRecord ==
  [type : {"capture_start"}, schema : Schema, capture_id : Capture, route_cache_entries : Nat,
   segment : {None} \cup [index : Nat, first_seq : Nat]]

EventRecord ==
  [type : {"event"}, schema : Schema, capture_id : Capture, valid : BOOLEAN, seq : Nat,
   skb : Skb, identity : Skb \cup {None}, function : Function,
   match_origin : {"filter", "association"}]

SegmentEndRecord == [index : Nat, first_seq : Nat, next_seq : {None} \cup Nat]

EndRecord ==
  [type : {"capture_end"}, schema : Schema, capture_id : Capture, events : Nat,
   complete : BOOLEAN, lossless : BOOLEAN, segment : {None} \cup SegmentEndRecord,
   stop_reason : {"duration", "rotation"}]

Malformed == [type |-> "malformed"]

\* Option's None is no value of the others.
ASSUME NoneAssumption ==
  None \notin Nat \cup [index : Nat, first_seq : Nat] \cup SegmentEndRecord
             \cup StartRecord \cup EndRecord


VARIABLES
  family,  \* the file's family, chosen at the start
  stream,  \* the records read so far
  reader   \* replay's local variables

vars == <<family, stream, reader>>

-----------------------------------------------------------------------------
\* The records.

Start ==
  [type : {"capture_start"}, schema : family.schema, capture_id : family.capture_id,
   route_cache_entries : family.route_cache_entries,
   segment : {None} \cup [index : {0, 1}, first_seq : family.first_seq]]

\* The events that carry a sequence number.
Event(capture_id, seq) ==
  [type : {"event"}, schema : {CONTRACT_VERSION}, capture_id : {capture_id}, valid : {TRUE},
   seq : {seq}, skb : family.address, identity : family.skb, function : family.function,
   match_origin : {"filter", "association"}]

\* A record with another value in a field.
Altered(records, field, values) ==
  {[r EXCEPT ![field] = x] : r \in records, x \in values}

NextSeq == first_seq(reader.start) + reader.observed_events

\* Events that may follow a start.
Events ==
  LET due == Event(reader.start.capture_id, NextSeq)
  IN due \cup
     IF family.faulty
       THEN UNION {Altered(due, "schema", family.schema),
                   Altered(due, "capture_id", family.capture_id),
                   Altered(due, "valid", {FALSE}),
                   Altered(due, "seq", 0..NextSeq + 1)}
       ELSE {}

SegmentEnd(start) ==
  IF start.segment = None
    THEN {None}
    ELSE [index : {start.segment.index}, first_seq : {start.segment.first_seq},
          next_seq : {None, NextSeq}]

\* Footers that may follow a start.
Ends ==
  LET due == [type : {"capture_end"}, schema : {CONTRACT_VERSION},
              capture_id : {reader.start.capture_id}, events : {reader.observed_events},
              complete : {TRUE}, lossless : {TRUE},
              segment : SegmentEnd(reader.start), stop_reason : {"duration"}]
      segments == [index : {0, 1}, first_seq : family.first_seq,
                   next_seq : {None, NextSeq, NextSeq + 1}]
  IN IF ~family.faulty
       THEN due
       ELSE UNION {Altered(due, "schema", family.schema),
                   Altered(due, "capture_id", family.capture_id),
                   Altered(due, "events", 0..reader.observed_events + 1),
                   Altered(Altered(due, "complete", BOOLEAN), "lossless", BOOLEAN),
                   Altered(Altered(due, "segment", {None} \cup segments),
                           "stop_reason", {"duration", "rotation"})}

Records ==
  IF reader.start = None
    THEN Start \cup
         IF family.faulty
           THEN {Malformed} \cup UNION {Event(c, 0) : c \in family.capture_id}
           ELSE {}
    ELSE Events \cup (IF reader.end = None THEN Ends ELSE {}) \cup
         IF family.faulty THEN {Malformed} \cup Range(stream) ELSE {}

-----------------------------------------------------------------------------
Init ==
  /\ family \in Family
  /\ stream = <<>>
  /\ reader = NewReader

Read(record) ==
  /\ reader.status = "reading"
  /\ stream' = Append(stream, record)
  /\ reader' = ReadRecord(reader, record)
  /\ UNCHANGED family

EndOfFile ==
  /\ reader.status = "reading"
  /\ reader' = Conclude(reader)
  /\ UNCHANGED <<family, stream>>

Next == EndOfFile \/ \E record \in Records : Read(record)

Spec == Init /\ [][Next]_vars

-----------------------------------------------------------------------------
\* Where the records of a type stand in the file.
At(type) == {i \in DOMAIN stream : stream[i].type = type}

ReplayTypeOK ==
  /\ reader.status \in {"reading", "accepted", "rejected"}
  /\ reader.start = None \/ reader.start \in Range(stream)
  /\ reader.end = None \/ reader.end \in Range(stream)
  /\ reader.observed_events \in 0..MAX_REPLAY_EVENTS

\* What a footer must say of a capture of n events.
FooterAgrees(start, end, n) ==
  /\ end.schema = CONTRACT_VERSION
  /\ end.capture_id = start.capture_id
  /\ end.events = n
  /\ ~end.lossless => ~end.complete
  /\ IF start.segment = None
       THEN end.segment = None
       ELSE end.segment = [index |-> start.segment.index, first_seq |-> start.segment.first_seq,
                           next_seq |-> IF end.stop_reason = "rotation"
                                          THEN start.segment.first_seq + n ELSE None]

\* A trace: one header, events numbered without a gap, and at most one footer,
\* which agrees with both.
WellFormed ==
  LET n == Cardinality(At("event"))
  IN /\ At("malformed") = {}
     /\ At("capture_start") = {1}
     /\ stream[1].schema = CONTRACT_VERSION
     /\ n <= MAX_REPLAY_EVENTS
     /\ \A i \in At("event") :
          /\ validate_event(stream[i], stream[1])
          /\ stream[i].seq = first_seq(stream[1]) + i - 2
     /\ At("capture_end") \subseteq {Len(stream)}
     /\ \A i \in At("capture_end") : FooterAgrees(stream[1], stream[i], n)

\* The single pass, which sees each record once and judges some only at the end,
\* accepts exactly the traces: nothing is accepted that a reader with the whole
\* file would refuse, nor refused that it would accept.
AcceptsExactlyTraces ==
  reader.status # "reading" => (reader.status = "accepted" <=> WellFormed)

-----------------------------------------------------------------------------
\* Routes.

\* Where a packet's completed routes stand among all of them, and whether one
\* is open.
Completed(id) ==
  {i \in DOMAIN reader.completed_routes : reader.completed_routes[i].skb = id}

IsOpen(id) == reader.start # None /\ id \in Map!Keys(reader.routes)

\* Every route of one packet that the summary would hold.
RoutesOf(id) ==
  {reader.completed_routes[i].route : i \in Completed(id)} \cup
  (IF IsOpen(id) THEN {Map!Get(reader.routes, id)} ELSE {})

\* Where the packet's events from one sequence number to another stand.
EventsOf(id, from, to) ==
  {i \in At("event") : event_identity(stream[i]) = id /\ stream[i].seq \in from..to}

\* The how many-th of the events stands at i.
Hop(events, i) == Cardinality({j \in events : j <= i})

Covers(id, seq) == \E route \in RoutesOf(id) : seq \in route.first_seq..route.last_seq

\* The route is a stretch of its packet's events without a hole: the functions
\* are theirs in order, cut at the hop limit and then marked so, and the packet
\* re-enters only where the route begins.
Tells(route, id) ==
  LET events == EventsOf(id, route.first_seq, route.last_seq)
      hops == Cardinality(events)
  IN \E first, last \in events :
       /\ stream[first].seq = route.first_seq
       /\ stream[last].seq = route.last_seq
       /\ Len(route.functions) = IF hops > MAX_ROUTE_HOPS THEN MAX_ROUTE_HOPS ELSE hops
       /\ \A i \in events : Hop(events, i) <= MAX_ROUTE_HOPS =>
            route.functions[Hop(events, i)] = stream[i].function
       /\ route.truncated <=> hops > MAX_ROUTE_HOPS
       /\ \A i \in events \ {first} :
            ~ (/\ stream[i].function = stream[first].function
               /\ stream[i].skb = stream[first].skb
               /\ stream[i].match_origin = "filter")

\* However the map refreshed, evicted and forgot, a route tells what happened to
\* its packet, and the routes of a packet do not overlap: each was completed
\* before the next began.
RoutesTellWhatHappened ==
  reader.status # "rejected" =>
    \A id \in Skb :
      LET route(i) == reader.completed_routes[i].route
      IN /\ \A r \in RoutesOf(id) : Tells(r, id)
         /\ \A i, j \in Completed(id) : i < j => route(i).last_seq < route(j).first_seq
         /\ IsOpen(id) => \A i \in Completed(id) :
              route(i).last_seq < Map!Get(reader.routes, id).first_seq

\* Where the events stand that are in no route.
Gaps == {i \in At("event") : ~Covers(event_identity(stream[i]), stream[i].seq)}

\* route_evictions in the summary tells whether anything is missing from the
\* routes: it is zero exactly when every event is in one, and never exceeds the
\* events that are in none.
EvictionsAccountForGaps ==
  reader.status # "rejected" /\ reader.start # None =>
    /\ reader.routes.evictions = 0 <=> Gaps = {}
    /\ reader.routes.evictions <= Cardinality(Gaps)
=============================================================================
