----------------------------- MODULE TraceReplay -----------------------------
(***************************************************************************)
(* `skbx replay`: one pass over the records of a trace that validates them *)
(* against each other and builds the packets' routes in a bounded map.     *)
(*                                                                         *)
(* The pass is written as operators on a `reader`, so that modules that    *)
(* produce traces can read them back; the state machine reads one file     *)
(* record by record.                                                       *)
(*                                                                         *)
(* Abstracted: of an event, what the routes are built from, and in `valid` *)
(* the checks of validate_event that concern that event alone; of a        *)
(* footer's Reliability, whether it is lossless.  The tallies per function *)
(* and process, and the patterns made of the routes, are left out.         *)
(***************************************************************************)
EXTENDS Naturals, Sequences, SequencesExt

CONSTANTS
  CONTRACT_VERSION,
  Schema,             \* schema strings found in files
  Capture,            \* capture ids found in files
  Skb,                \* packet identities and addresses
  Function,           \* function names
  MAX_REPLAY_EVENTS,
  MAX_REPLAY_ROUTES,
  MAX_ROUTE_HOPS,
  None

ASSUME ReplayAssumption ==
  /\ CONTRACT_VERSION \in Schema
  /\ {MAX_REPLAY_EVENTS, MAX_REPLAY_ROUTES, MAX_ROUTE_HOPS} \subseteq Nat \ {0}
  /\ None \notin Skb

Map == INSTANCE BoundedMap

-----------------------------------------------------------------------------
\* Routes.

\* An event without an identity goes by its address.
event_identity(event) == IF event.identity = None THEN event.skb ELSE event.identity

RouteBuilder(event) ==
  [functions |-> <<event.function>>, first_seq |-> event.seq, last_seq |-> event.seq,
   first_skb |-> event.skb, truncated |-> FALSE]

\* Mutant: the hop that does not fit is dropped silently.
observeSilently(route, event) ==
  [route EXCEPT
     !.functions = IF Len(@) < MAX_ROUTE_HOPS THEN Append(@, event.function) ELSE @,
     !.last_seq = event.seq]

observe(route, event) ==
  [route EXCEPT
     !.functions = IF Len(@) < MAX_ROUTE_HOPS THEN Append(@, event.function) ELSE @,
     !.truncated = @ \/ Len(route.functions) >= MAX_ROUTE_HOPS,
     !.last_seq = event.seq]

\* The packet is back where its route began, matched by the filter at the same
\* address: a new packet under the same identity.
Reenters(route, event) ==
  /\ Head(route.functions) = event.function
  /\ event.match_origin = "filter"
  /\ event.skb = route.first_skb

\* Mutant: a route that is re-entered is replaced and forgotten.
RouteEventForgetful(reader, event) ==
  LET id == event_identity(event)
      open == id \in Map!Keys(reader.routes)
      old == Map!Get(reader.routes, id)
      ends == open /\ Reenters(old, event)
      route == IF open /\ ~ends THEN observe(old, event) ELSE RouteBuilder(event)
  IN [reader EXCEPT !.routes = Map!Insert(Map!Remove(@, id), id, route)]

\* The event's route leaves the map and comes back with the event, or is
\* complete and makes room for a new one.
RouteEvent(reader, event) ==
  LET id == event_identity(event)
      open == id \in Map!Keys(reader.routes)
      old == Map!Get(reader.routes, id)
      ends == open /\ Reenters(old, event)
      route == IF open /\ ~ends THEN observe(old, event) ELSE RouteBuilder(event)
  IN [reader EXCEPT
        !.routes = Map!Insert(Map!Remove(@, id), id, route),
        !.completed_routes = IF ends THEN Append(@, [skb |-> id, route |-> old]) ELSE @]

-----------------------------------------------------------------------------
\* The records of a trace, one by one.

NewReader ==
  [status |-> "reading", start |-> None, end |-> None, observed_events |-> 0,
   routes |-> None, completed_routes |-> <<>>]

Reject(reader) == [reader EXCEPT !.status = "rejected"]

first_seq(start) == IF start.segment = None THEN 0 ELSE start.segment.first_seq

route_capacity(start) ==
  CASE start.route_cache_entries < 1 -> 1
    [] start.route_cache_entries > MAX_REPLAY_ROUTES -> MAX_REPLAY_ROUTES
    [] OTHER -> start.route_cache_entries

ReadStart(reader, start) ==
  IF reader.start # None
    THEN Reject(reader)
    ELSE [reader EXCEPT !.start = start, !.routes = Map!New(route_capacity(start))]

validate_event(event, start) ==
  /\ event.schema = CONTRACT_VERSION
  /\ event.capture_id = start.capture_id
  /\ event.valid

ReadEvent(reader, event) ==
  IF /\ reader.end = None
     /\ reader.start # None
     /\ validate_event(event, reader.start)
     /\ event.seq = first_seq(reader.start) + reader.observed_events
     /\ reader.observed_events < MAX_REPLAY_EVENTS
    THEN RouteEvent([reader EXCEPT !.observed_events = @ + 1], event)
    ELSE Reject(reader)

\* Mutant: the last of several footers wins.
ReadEndAgain(reader, end) ==
  IF /\ reader.start # None
     /\ end.schema = CONTRACT_VERSION
     /\ end.capture_id = reader.start.capture_id
     /\ end.complete => end.lossless
    THEN [reader EXCEPT !.end = end]
    ELSE Reject(reader)

ReadEnd(reader, end) ==
  IF /\ reader.start # None
     /\ end.schema = CONTRACT_VERSION
     /\ end.capture_id = reader.start.capture_id
     /\ end.complete => end.lossless
     /\ reader.end = None
    THEN [reader EXCEPT !.end = end]
    ELSE Reject(reader)

ReadRecord(reader, record) ==
  CASE record.type = "capture_start" -> ReadStart(reader, record)
    [] record.type = "event" -> ReadEvent(reader, record)
    [] record.type = "capture_end" -> ReadEnd(reader, record)
    [] record.type = "malformed" -> Reject(reader)

validate_segment(start, end, observed_events) ==
  \/ start.segment = None /\ end.segment = None
  \/ /\ start.segment # None /\ end.segment # None
     /\ start.segment.index = end.segment.index
     /\ start.segment.first_seq = end.segment.first_seq
     /\ \/ end.segment.next_seq = None
        \/ end.segment.next_seq = start.segment.first_seq + observed_events
     /\ (end.segment.next_seq # None) <=> (end.stop_reason = "rotation")

\* The checks at the end of the file.
Conclude(reader) ==
  IF /\ reader.start # None
     /\ reader.start.schema = CONTRACT_VERSION
     /\ reader.end # None =>
          /\ reader.end.events = reader.observed_events
          /\ validate_segment(reader.start, reader.end, reader.observed_events)
    THEN [reader EXCEPT !.status = "accepted"]
    ELSE Reject(reader)

\* The first rejected record ends the pass.
replay(stream) ==
  LET last == FoldLeft(LAMBDA reader, record :
                         IF reader.status = "reading" THEN ReadRecord(reader, record)
                         ELSE reader,
                       NewReader, stream)
  IN IF last.status = "reading" THEN Conclude(last) ELSE last

\* What the summary says of the file as a whole.
complete(reader) ==
  reader.status = "accepted" /\ reader.end # None /\ reader.end.complete
=============================================================================
