--------------------------- MODULE TraceFileProofs ---------------------------
(***************************************************************************)
(* For every file, and every bound on its events: one pass over its        *)
(* records accepts exactly the traces.  While the reader has found nothing *)
(* wrong, its variables say what it has read (Good): a header, that many   *)
(* events, perhaps a footer; what makes it give up is what makes the file  *)
(* no trace, whatever follows.  Every route it keeps tells a stretch of    *)
(* its packet's events, and the bounded map's evictions account for the    *)
(* events that no route tells (RoutesInv).                                 *)
(***************************************************************************)
EXTENDS TraceFile, FiniteSetTheorems, WellFoundedInduction, TLAPS

Record == StartRecord \cup EventRecord \cup EndRecord \cup {Malformed}

\* A reader's fields.
Fields == {"status", "start", "end", "observed_events", "routes", "completed_routes"}

ReaderOK ==
  /\ family \in Family
  /\ stream \in Seq(Record)
  /\ DOMAIN reader = Fields
  /\ reader.status \in {"reading", "accepted", "rejected"}
  /\ reader.start \in {None} \cup StartRecord
  /\ reader.end \in {None} \cup EndRecord
  /\ reader.observed_events \in 0..MAX_REPLAY_EVENTS

\* What is certain of an event as it is read.
EventAgrees(event, i) ==
  /\ event.type = "event"
  /\ validate_event(event, reader.start)
  /\ event.seq = first_seq(reader.start) + i - 2

\* What is certain of a footer as it is read.
EndFits(end) ==
  /\ end.schema = CONTRACT_VERSION
  /\ end.capture_id = reader.start.capture_id
  /\ end.complete => end.lossless

\* What the file looks like that gave the reader no reason to reject it.
Good ==
  /\ reader.start = None => stream = <<>> /\ reader.end = None /\ reader.observed_events = 0
  /\ reader.start # None =>
       /\ Len(stream) = reader.observed_events + (IF reader.end = None THEN 1 ELSE 2)
       /\ stream[1] = reader.start
       /\ \A i \in 2..reader.observed_events + 1 : EventAgrees(stream[i], i)
       /\ reader.end # None => stream[Len(stream)] = reader.end /\ EndFits(reader.end)

\* Conclude's condition.
Concludes ==
  /\ reader.start # None
  /\ reader.start.schema = CONTRACT_VERSION
  /\ reader.end # None =>
       /\ reader.end.events = reader.observed_events
       /\ validate_segment(reader.start, reader.end, reader.observed_events)

ReadInv ==
  /\ ReaderOK
  /\ reader.status # "rejected" => Good
  /\ reader.status = "accepted" => WellFormed
  /\ reader.status = "rejected" => ~WellFormed

-----------------------------------------------------------------------------
\* Records of different types are different, and the fields of a header.
LEMMA RecordTypes ==
  /\ \A r \in StartRecord :
       /\ r.type = "capture_start" /\ r # None /\ r.capture_id \in Capture
       /\ r.segment \in {None} \cup [index : Nat, first_seq : Nat]
       /\ first_seq(r) \in Nat
  /\ \A r \in EventRecord : r.type = "event" /\ r.seq \in Nat /\ r.valid \in BOOLEAN
  /\ \A r \in EndRecord :
       /\ r.type = "capture_end" /\ r # None /\ r.events \in Nat
       /\ r.complete \in BOOLEAN /\ r.lossless \in BOOLEAN
       /\ r.segment \in {None} \cup SegmentEndRecord
       /\ r.stop_reason \in {"duration", "rotation"}
  /\ Malformed.type = "malformed"
<1>1. ASSUME NEW r \in StartRecord PROVE r.type = "capture_start" /\ r # None /\ r.capture_id \in Capture
  BY NoneAssumption DEF StartRecord
<1>2. ASSUME NEW r \in StartRecord PROVE r.segment \in {None} \cup [index : Nat, first_seq : Nat]
  BY DEF StartRecord
<1>3. ASSUME NEW r \in StartRecord PROVE first_seq(r) \in Nat
  BY <1>2 DEF first_seq
<1>4. ASSUME NEW r \in EndRecord
      PROVE  /\ r.type = "capture_end" /\ r # None /\ r.events \in Nat
             /\ r.complete \in BOOLEAN /\ r.lossless \in BOOLEAN
             /\ r.segment \in {None} \cup SegmentEndRecord
             /\ r.stop_reason \in {"duration", "rotation"}
  BY NoneAssumption DEF EndRecord
<1> QED
  BY <1>1, <1>2, <1>3, <1>4 DEF EventRecord, Malformed

\* A record changed in one field to a value of the field's type is of the type.
LEMMA AlteredEvents ==
  ASSUME NEW S \in SUBSET EventRecord
  PROVE  /\ \A V \in SUBSET Schema : Altered(S, "schema", V) \subseteq EventRecord
         /\ \A V \in SUBSET Capture : Altered(S, "capture_id", V) \subseteq EventRecord
         /\ \A V \in SUBSET BOOLEAN : Altered(S, "valid", V) \subseteq EventRecord
         /\ \A V \in SUBSET Nat : Altered(S, "seq", V) \subseteq EventRecord
BY DEF Altered, EventRecord

\* So it is of footers.
LEMMA AlteredEnds ==
  ASSUME NEW S \in SUBSET EndRecord
  PROVE  /\ \A V \in SUBSET Schema : Altered(S, "schema", V) \subseteq EndRecord
         /\ \A V \in SUBSET Capture : Altered(S, "capture_id", V) \subseteq EndRecord
         /\ \A V \in SUBSET Nat : Altered(S, "events", V) \subseteq EndRecord
         /\ \A V \in SUBSET BOOLEAN : Altered(S, "complete", V) \subseteq EndRecord
         /\ \A V \in SUBSET BOOLEAN : Altered(S, "lossless", V) \subseteq EndRecord
         /\ \A V \in SUBSET ({None} \cup SegmentEndRecord) :
              Altered(S, "segment", V) \subseteq EndRecord
         /\ \A V \in SUBSET {"duration", "rotation"} :
              Altered(S, "stop_reason", V) \subseteq EndRecord
BY DEF Altered, EndRecord

\* The fields of a family.
LEMMA FamilyFields ==
  ASSUME family \in Family
  PROVE  /\ family.schema \subseteq Schema /\ family.capture_id \subseteq Capture
         /\ family.route_cache_entries \subseteq Nat /\ family.first_seq \subseteq Nat
         /\ family.skb \subseteq Skb \cup {None} /\ family.address \subseteq Skb
         /\ family.function \subseteq Function /\ family.faulty \in BOOLEAN
<1>1. family \in FamilyType
  BY FamilyAssumption
<1> QED
  BY <1>1 DEF FamilyType

\* What is in the file are records of the contract, or lines that are not.
LEMMA RecordsAreRecords ==
  ASSUME ReaderOK
  PROVE  Records \subseteq Record
<1>1. /\ family.schema \subseteq Schema /\ family.capture_id \subseteq Capture
      /\ family.route_cache_entries \subseteq Nat /\ family.first_seq \subseteq Nat
      /\ family.skb \subseteq Skb \cup {None} /\ family.address \subseteq Skb
      /\ family.function \subseteq Function
  BY FamilyFields DEF ReaderOK
<1>2. CONTRACT_VERSION \in Schema
  BY ReplayAssumption
<1>3. Start \subseteq StartRecord
  <2>1. [index : {0, 1}, first_seq : family.first_seq] \subseteq [index : Nat, first_seq : Nat]
    BY <1>1
  <2> QED
    BY <1>1, <2>1 DEF Start, StartRecord
<1>4. ASSUME NEW c \in Capture, NEW n \in Nat PROVE Event(c, n) \subseteq EventRecord
  BY <1>1, <1>2, <1>4 DEF Event, EventRecord
<1>5. CASE reader.start = None
  <2>1. UNION {Event(c, 0) : c \in family.capture_id} \subseteq EventRecord
    BY <1>1, <1>4
  <2> QED
    BY <1>3, <1>5, <2>1 DEF Records, Record
<1>6. CASE reader.start # None
  <2>0. reader.start \in StartRecord /\ NextSeq \in Nat /\ reader.observed_events \in Nat
    <3>1. reader.start \in StartRecord /\ reader.observed_events \in Nat
      BY <1>6, ReplayAssumption DEF ReaderOK
    <3> QED
      BY <3>1, RecordTypes DEF NextSeq
  <2>1. Events \subseteq EventRecord
    <3> DEFINE due == Event(reader.start.capture_id, NextSeq)
    <3>1. due \subseteq EventRecord
      BY <1>4, <2>0, RecordTypes
    <3>2. {FALSE} \in SUBSET BOOLEAN /\ 0..NextSeq + 1 \in SUBSET Nat
      BY <2>0
    <3> HIDE DEF due
    <3>3. /\ Altered(due, "schema", family.schema) \subseteq EventRecord
          /\ Altered(due, "capture_id", family.capture_id) \subseteq EventRecord
          /\ Altered(due, "valid", {FALSE}) \subseteq EventRecord
          /\ Altered(due, "seq", 0..NextSeq + 1) \subseteq EventRecord
      BY <1>1, <3>1, <3>2, AlteredEvents
    <3> QED
      BY <3>1, <3>3 DEF Events, due
  <2>2. Ends \subseteq EndRecord
    <3> DEFINE due == [type : {"capture_end"}, schema : {CONTRACT_VERSION},
                       capture_id : {reader.start.capture_id}, events : {reader.observed_events},
                       complete : {TRUE}, lossless : {TRUE},
                       segment : SegmentEnd(reader.start), stop_reason : {"duration"}]
               segments == [index : {0, 1}, first_seq : family.first_seq,
                            next_seq : {None, NextSeq, NextSeq + 1}]
    <3>1. SegmentEnd(reader.start) \subseteq {None} \cup SegmentEndRecord
      <4>1. reader.start.segment \in {None} \cup [index : Nat, first_seq : Nat]
        BY <2>0, RecordTypes
      <4> QED
        BY <2>0, <4>1 DEF SegmentEnd, SegmentEndRecord
    <3>2. due \subseteq EndRecord
      <4>1. reader.start.capture_id \in Capture
        BY <2>0, RecordTypes
      <4> QED
        BY <1>2, <2>0, <3>1, <4>1 DEF EndRecord
    <3>3. {None} \cup segments \in SUBSET ({None} \cup SegmentEndRecord)
      BY <1>1, <2>0 DEF SegmentEndRecord
    <3>4. /\ 0..reader.observed_events + 1 \in SUBSET Nat
          /\ {"duration", "rotation"} \in SUBSET {"duration", "rotation"}
          /\ BOOLEAN \in SUBSET BOOLEAN
      BY <2>0
    <3> HIDE DEF due, segments
    <3>5. /\ Altered(due, "schema", family.schema) \subseteq EndRecord
          /\ Altered(due, "capture_id", family.capture_id) \subseteq EndRecord
          /\ Altered(due, "events", 0..reader.observed_events + 1) \subseteq EndRecord
      BY <1>1, <3>2, <3>4, AlteredEnds
    <3>6. Altered(Altered(due, "complete", BOOLEAN), "lossless", BOOLEAN) \subseteq EndRecord
      <4>1. Altered(due, "complete", BOOLEAN) \subseteq EndRecord
        BY <3>2, <3>4, AlteredEnds
      <4> QED
        BY <3>4, <4>1, AlteredEnds
    <3>7. Altered(Altered(due, "segment", {None} \cup segments),
                  "stop_reason", {"duration", "rotation"}) \subseteq EndRecord
      <4>1. Altered(due, "segment", {None} \cup segments) \subseteq EndRecord
        BY <3>2, <3>3, AlteredEnds
      <4> QED
        BY <3>4, <4>1, AlteredEnds
    <3> QED
      BY <3>2, <3>5, <3>6, <3>7 DEF Ends, due, segments
  <2>3. Range(stream) \subseteq Record
    BY DEF Range, ReaderOK
  <2> QED
    BY <1>6, <2>1, <2>2, <2>3 DEF Records, Record
<1> QED
  BY <1>5, <1>6

-----------------------------------------------------------------------------
\* Where the records of a type stand once one more is read.
LEMMA AtAppended ==
  ASSUME stream \in Seq(Record), NEW r \in Record, stream' = Append(stream, r)
  PROVE  /\ stream' \in Seq(Record) /\ Len(stream') = Len(stream) + 1
         /\ stream'[Len(stream) + 1] = r
         /\ \A i \in 1..Len(stream) : stream'[i] = stream[i]
         /\ \A t : At(t)' = At(t) \cup (IF r.type = t THEN {Len(stream) + 1} ELSE {})
<1>1. /\ stream' \in Seq(Record) /\ Len(stream') = Len(stream) + 1
      /\ stream'[Len(stream) + 1] = r
      /\ \A i \in 1..Len(stream) : stream'[i] = stream[i]
      /\ DOMAIN stream = 1..Len(stream) /\ DOMAIN stream' = 1..Len(stream) + 1
  OBVIOUS
<1>2. ASSUME NEW t PROVE At(t)' = At(t) \cup (IF r.type = t THEN {Len(stream) + 1} ELSE {})
  BY <1>1 DEF At
<1> QED
  BY <1>1, <1>2

\* A footer agrees with a header and n events if it fits and validate_segment says so.
LEMMA Agreement ==
  ASSUME NEW start \in StartRecord, NEW end \in EndRecord, NEW n \in Nat
  PROVE  FooterAgrees(start, end, n) <=>
           /\ end.schema = CONTRACT_VERSION /\ end.capture_id = start.capture_id
           /\ end.complete => end.lossless
           /\ end.events = n
           /\ validate_segment(start, end, n)
<1>1. /\ start.segment \in {None} \cup [index : Nat, first_seq : Nat]
      /\ end.segment \in {None} \cup SegmentEndRecord
      /\ end.complete \in BOOLEAN /\ end.lossless \in BOOLEAN
  BY RecordTypes
<1> DEFINE s == start.segment
           e == end.segment
           next == IF end.stop_reason = "rotation" THEN s.first_seq + n ELSE None
           due == [index |-> s.index, first_seq |-> s.first_seq, next_seq |-> next]
<1>2. CASE s = None
  BY <1>1, <1>2 DEF FooterAgrees, validate_segment
<1>3. CASE s # None
  <2>1. s.index \in Nat /\ s.first_seq \in Nat /\ s.first_seq + n \in Nat /\ s.first_seq + n # None
    <3>1. s \in [index : Nat, first_seq : Nat]
      BY <1>1, <1>3
    <3>2. s.index \in Nat /\ s.first_seq \in Nat
      BY <3>1
    <3>3. s.first_seq + n \in Nat
      BY <3>2
    <3> QED
      BY <3>2, <3>3, NoneAssumption
  <2>2. due \in SegmentEndRecord /\ due # None
    <3>1. due \in SegmentEndRecord
      BY <2>1 DEF SegmentEndRecord
    <3> QED
      BY <3>1, NoneAssumption
  <2>3. e = due <=> /\ e # None /\ e.index = s.index /\ e.first_seq = s.first_seq
                    /\ e.next_seq = next
    <3>1. CASE e = None
      BY <2>2, <3>1
    <3>2. CASE e # None
      <4>1. e \in [index : Nat, first_seq : Nat, next_seq : {None} \cup Nat]
        BY <1>1, <3>2 DEF SegmentEndRecord
      <4>2. e = [index |-> e.index, first_seq |-> e.first_seq, next_seq |-> e.next_seq]
        BY <4>1
      <4> HIDE DEF e, next, s
      <4> QED
        BY <3>2, <4>2
    <3> QED
      BY <3>1, <3>2
  <2>4. validate_segment(start, end, n) <=>
          /\ e # None /\ s.index = e.index /\ s.first_seq = e.first_seq
          /\ e.next_seq = None \/ e.next_seq = s.first_seq + n
          /\ (e.next_seq # None) <=> (end.stop_reason = "rotation")
    BY <1>3 DEF validate_segment
  <2>5. validate_segment(start, end, n) <=> e = due
    <3>1. e.next_seq = next <=>
            /\ e.next_seq = None \/ e.next_seq = s.first_seq + n
            /\ (e.next_seq # None) <=> (end.stop_reason = "rotation")
      BY <2>1
    <3> QED
      BY <2>3, <2>4, <3>1
  <2>6. FooterAgrees(start, end, n) <=>
          /\ end.schema = CONTRACT_VERSION /\ end.capture_id = start.capture_id
          /\ end.events = n /\ (~end.lossless => ~end.complete)
          /\ e = due
    BY <1>3 DEF FooterAgrees
  <2> HIDE DEF due, e, s, next
  <2>7. (~end.lossless => ~end.complete) <=> (end.complete => end.lossless)
    OBVIOUS
  <2> QED
    BY <2>5, <2>6, <2>7
<1> QED
  BY <1>2, <1>3

\* A file that has given no reason to reject it holds a header, events, perhaps a
\* footer, and nothing else.
LEMMA GoodSets ==
  ASSUME ReaderOK, Good, reader.start # None
  PROVE  /\ reader.start \in StartRecord /\ reader.observed_events \in Nat
         /\ At("capture_start") = {1}
         /\ At("event") = 2..reader.observed_events + 1
         /\ At("capture_end") = IF reader.end = None THEN {} ELSE {Len(stream)}
         /\ At("malformed") = {}
         /\ Cardinality(At("event")) = reader.observed_events
<1> DEFINE n == reader.observed_events
           l == Len(stream)
<1>1. /\ reader.start \in StartRecord /\ n \in Nat /\ stream \in Seq(Record)
      /\ DOMAIN stream = 1..l /\ l \in Nat
      /\ l = n + (IF reader.end = None THEN 1 ELSE 2)
  BY ReplayAssumption DEF ReaderOK, Good
<1>2. stream[1].type = "capture_start"
  BY <1>1, RecordTypes DEF Good
<1>3. \A i \in 2..n + 1 : stream[i].type = "event"
  BY DEF Good, EventAgrees
<1>4. reader.end # None => stream[l].type = "capture_end"
  BY RecordTypes DEF Good, ReaderOK
<1>5. /\ \A i \in DOMAIN stream : i = 1 \/ i \in 2..n + 1 \/ (reader.end # None /\ i = l)
      /\ reader.end # None => l = n + 2
      /\ 1 \in DOMAIN stream /\ 2..n + 1 \subseteq DOMAIN stream
      /\ reader.end # None => l \in DOMAIN stream
  BY <1>1
<1> HIDE DEF l, n
<1>6. At("capture_start") = {1}
  BY <1>2, <1>3, <1>4, <1>5 DEF At
<1>7. At("event") = 2..n + 1
  BY <1>1, <1>2, <1>3, <1>4, <1>5 DEF At
<1>8. At("capture_end") = IF reader.end = None THEN {} ELSE {l}
  BY <1>2, <1>3, <1>4, <1>5 DEF At
<1>9. At("malformed") = {}
  BY <1>2, <1>3, <1>4, <1>5 DEF At
<1>10. Cardinality(2..n + 1) = n
  <2>1. 2 \in Int /\ n + 1 \in Int
    BY <1>1
  <2>2. Cardinality(2..n + 1) = IF 2 > n + 1 THEN 0 ELSE (n + 1) - 2 + 1
    BY <2>1, FS_Interval
  <2> QED
    BY <1>1, <2>2
<1> QED
  BY <1>1, <1>6, <1>7, <1>8, <1>9, <1>10 DEF l, n

\* Such a file is a trace if the reader's last checks succeed.
LEMMA GoodConcludes ==
  ASSUME ReaderOK, Good
  PROVE  WellFormed <=> Concludes
<1>1. CASE reader.start = None
  <2>1. At("capture_start") = {}
    BY <1>1 DEF Good, At
  <2> QED
    BY <1>1, <2>1 DEF WellFormed, Concludes
<1>2. CASE reader.start # None
  <2>1. /\ reader.start \in StartRecord /\ reader.observed_events \in Nat
        /\ At("capture_start") = {1}
        /\ At("event") = 2..reader.observed_events + 1
        /\ At("capture_end") = IF reader.end = None THEN {} ELSE {Len(stream)}
        /\ At("malformed") = {}
        /\ Cardinality(At("event")) = reader.observed_events
    BY <1>2, GoodSets
  <2>2. stream[1] = reader.start /\ reader.observed_events <= MAX_REPLAY_EVENTS
    BY <1>2, ReplayAssumption DEF Good, ReaderOK
  <2>3. \A i \in At("event") :
          /\ validate_event(stream[i], stream[1])
          /\ stream[i].seq = first_seq(stream[1]) + i - 2
    BY <1>2, <2>1, <2>2 DEF Good, EventAgrees
  <2>4. (\A i \in At("capture_end") :
           FooterAgrees(stream[1], stream[i], Cardinality(At("event")))) <=>
        (reader.end # None =>
           /\ reader.end.events = reader.observed_events
           /\ validate_segment(reader.start, reader.end, reader.observed_events))
    <3>1. CASE reader.end = None
      BY <2>1, <3>1
    <3>2. CASE reader.end # None
      <4>1. reader.end \in EndRecord /\ stream[Len(stream)] = reader.end /\ EndFits(reader.end)
        BY <1>2, <3>2 DEF ReaderOK, Good
      <4>2. FooterAgrees(reader.start, reader.end, reader.observed_events) <=>
              /\ reader.end.events = reader.observed_events
              /\ validate_segment(reader.start, reader.end, reader.observed_events)
        BY <2>1, <4>1, Agreement DEF EndFits
      <4> QED
        BY <2>1, <2>2, <3>2, <4>1, <4>2
    <3> QED
      BY <3>1, <3>2
  <2>5. At("capture_end") \subseteq {Len(stream)}
    BY <2>1
  <2> QED
    BY <1>2, <2>1, <2>2, <2>3, <2>4, <2>5 DEF WellFormed, Concludes
<1> QED
  BY <1>1, <1>2

-----------------------------------------------------------------------------
\* Giving up changes the verdict only.
LEMMA Rejecting ==
  ASSUME DOMAIN reader = Fields, reader' = Reject(reader)
  PROVE  /\ DOMAIN reader' = Fields /\ reader'.status = "rejected"
         /\ reader'.start = reader.start /\ reader'.end = reader.end
         /\ reader'.observed_events = reader.observed_events
BY DEF Reject, Fields

\* Keeping track of an event's route changes nothing else.
LEMMA RoutesAside ==
  ASSUME NEW r, DOMAIN r = Fields, NEW e
  PROVE  LET q == RouteEvent(r, e)
         IN  /\ DOMAIN q = Fields /\ q.status = r.status /\ q.start = r.start
             /\ q.end = r.end /\ q.observed_events = r.observed_events
BY DEF RouteEvent, Fields

\* A file that begins with another record than a header, or has a second header, a
\* line that is no record, or a record after the footer, is no trace.
LEMMA OutOfPlace ==
  ASSUME ReaderOK, Good, NEW r \in Record, stream' = Append(stream, r),
         \/ reader.start = None /\ r.type # "capture_start"
         \/ reader.start # None /\ r.type = "capture_start"
         \/ r.type = "malformed"
         \/ reader.start # None /\ reader.end # None
  PROVE  ~WellFormed'
<1> DEFINE l == Len(stream)
<1>1. /\ stream \in Seq(Record) /\ l \in Nat /\ Len(stream') = l + 1
      /\ \A t : At(t)' = At(t) \cup (IF r.type = t THEN {l + 1} ELSE {})
  BY AtAppended DEF ReaderOK
<1>2. WellFormed' => /\ At("malformed")' = {} /\ At("capture_start")' = {1}
                     /\ At("capture_end")' \subseteq {l + 1}
  BY <1>1 DEF WellFormed
<1>3. CASE reader.start = None /\ r.type # "capture_start"
  <2>1. At("capture_start") = {}
    BY <1>3 DEF Good, At
  <2> QED
    BY <1>1, <1>2, <1>3, <2>1
<1>4. CASE reader.start # None /\ r.type = "capture_start"
  <2>1. At("capture_start") = {1} /\ l >= 1
    BY <1>1, <1>4, GoodSets DEF Good, ReaderOK
  <2>2. At("capture_start")' = At("capture_start") \cup {l + 1}
    BY <1>1, <1>4
  <2>3. l + 1 # 1
    BY <1>1, <2>1
  <2> QED
    BY <1>2, <2>2, <2>3
<1>5. CASE r.type = "malformed"
  <2>1. At("malformed")' = At("malformed") \cup {l + 1}
    BY <1>1, <1>5
  <2> QED
    BY <1>2, <2>1
<1>6. CASE reader.start # None /\ reader.end # None
  <2>1. At("capture_end") = {l}
    BY <1>6, GoodSets
  <2> QED
    BY <1>1, <1>2, <2>1
<1> QED
  BY <1>3, <1>4, <1>5, <1>6

\* Reading a header.
LEMMA StartStep ==
  ASSUME ReadInv, NEW r \in StartRecord, Read(r)
  PROVE  ReadInv'
<1>0. /\ ReaderOK /\ Good /\ reader.status = "reading" /\ stream' = Append(stream, r)
      /\ r \in Record /\ r.type = "capture_start" /\ r # None /\ family' = family
      /\ DOMAIN reader = Fields
  BY RecordTypes DEF ReadInv, Read, Record, ReaderOK
<1>1. stream' \in Seq(Record)
  BY <1>0, AtAppended DEF ReaderOK
<1>2. reader' = ReadStart(reader, r)
  BY <1>0 DEF Read, ReadRecord
<1>3. CASE reader.start # None
  <2>1. reader' = Reject(reader)
    BY <1>2, <1>3 DEF ReadStart
  <2>2. ~WellFormed'
    BY <1>0, <1>3, OutOfPlace
  <2> QED
    BY <1>0, <1>1, <2>1, <2>2, Rejecting DEF ReadInv, ReaderOK
<1>4. CASE reader.start = None
  <2>1. reader' = [reader EXCEPT !.start = r, !.routes = Map!New(route_capacity(r))]
    BY <1>2, <1>4 DEF ReadStart
  <2>2. /\ DOMAIN reader' = Fields /\ reader'.status = "reading" /\ reader'.start = r
        /\ reader'.end = None /\ reader'.observed_events = 0
    BY <1>0, <1>4, <2>1 DEF Fields, Good
  <2>3. Len(stream') = 1 /\ stream'[1] = r
    BY <1>0, <1>4 DEF Good
  <2>4. Good'
    BY <1>0, <2>2, <2>3 DEF Good
  <2>5. ReaderOK'
    BY <1>0, <1>1, <2>2, ReplayAssumption DEF ReaderOK
  <2> QED
    BY <2>2, <2>4, <2>5 DEF ReadInv
<1> QED
  BY <1>3, <1>4

\* Reading an event.
LEMMA EventStep ==
  ASSUME ReadInv, NEW r \in EventRecord, Read(r)
  PROVE  ReadInv'
<1> DEFINE l == Len(stream)
           n == reader.observed_events
           start == reader.start
<1>0. /\ ReaderOK /\ Good /\ reader.status = "reading" /\ stream' = Append(stream, r)
      /\ r \in Record /\ r.type = "event" /\ r.seq \in Nat /\ family' = family
      /\ DOMAIN reader = Fields /\ n \in Nat /\ MAX_REPLAY_EVENTS \in Nat
      /\ n <= MAX_REPLAY_EVENTS /\ stream \in Seq(Record)
  BY RecordTypes, ReplayAssumption DEF ReadInv, Read, Record, ReaderOK
<1>1. /\ stream' \in Seq(Record) /\ Len(stream') = l + 1 /\ stream'[l + 1] = r
      /\ \A i \in 1..l : stream'[i] = stream[i]
      /\ \A t : At(t)' = At(t) \cup (IF r.type = t THEN {l + 1} ELSE {})
  BY <1>0, AtAppended
<1>2. reader' = ReadEvent(reader, r)
  BY <1>0 DEF Read, ReadRecord
<1>3. ASSUME reader' = Reject(reader), ~WellFormed' PROVE ReadInv'
  BY <1>0, <1>1, <1>3, Rejecting DEF ReadInv, ReaderOK
<1>4. CASE start = None \/ reader.end # None
  <2>1. reader' = Reject(reader)
    BY <1>2, <1>4 DEF ReadEvent
  <2>2. ~WellFormed'
    BY <1>0, <1>4, OutOfPlace
  <2> QED
    BY <1>3, <2>1, <2>2
<1>5. CASE start # None /\ reader.end = None
  <2>1. /\ start \in StartRecord /\ first_seq(start) \in Nat
        /\ l = n + 1 /\ stream[1] = start
        /\ At("event") = 2..n + 1
    <3>1. start \in StartRecord /\ At("event") = 2..n + 1
      BY <1>0, <1>5, GoodSets
    <3>2. l = n + 1 /\ stream[1] = start
      BY <1>0, <1>5 DEF Good
    <3> QED
      BY <3>1, <3>2, RecordTypes
  <2>2. stream'[1] = start
    BY <1>0, <1>1, <2>1
  <2>3. At("event")' = 2..n + 2 /\ l + 1 = n + 2 /\ l + 1 \in 2..n + 2
    <3>1. At("event")' = At("event") \cup {l + 1}
      BY <1>0, <1>1
    <3>2. l + 1 = n + 2 /\ l + 1 \in 2..n + 2
      BY <1>0, <2>1
    <3>3. 2..n + 2 = (2..n + 1) \cup {n + 2}
      BY <1>0
    <3> QED
      BY <2>1, <3>1, <3>2, <3>3
  <2>4. first_seq(start) + (l + 1) - 2 = first_seq(start) + n
    BY <1>0, <2>1
  <2>5. CASE ~validate_event(r, start) \/ r.seq # first_seq(start) + n
    <3>1. reader' = Reject(reader)
      BY <1>2, <2>5 DEF ReadEvent
    <3>2. WellFormed' => /\ validate_event(stream'[l + 1], stream'[1])
                         /\ stream'[l + 1].seq = first_seq(stream'[1]) + (l + 1) - 2
      BY <2>3 DEF WellFormed
    <3>3. ~WellFormed'
      BY <1>1, <2>2, <2>4, <2>5, <3>2
    <3> QED
      BY <1>3, <3>1, <3>3
  <2>6. CASE n >= MAX_REPLAY_EVENTS
    <3>1. reader' = Reject(reader)
      BY <1>0, <1>2, <2>6 DEF ReadEvent
    <3>2. Cardinality(2..n + 2) = n + 1
      <4>1. Cardinality(2..n + 2) = IF 2 > n + 2 THEN 0 ELSE (n + 2) - 2 + 1
        <5>1. 2 \in Int /\ n + 2 \in Int
          BY <1>0
        <5> QED
          BY <5>1, FS_Interval
      <4> QED
        BY <1>0, <4>1
    <3>3. WellFormed' => Cardinality(At("event")') <= MAX_REPLAY_EVENTS
      BY DEF WellFormed
    <3>4. ~WellFormed'
      BY <1>0, <2>3, <2>6, <3>2, <3>3
    <3> QED
      BY <1>3, <3>1, <3>4
  <2>7. CASE validate_event(r, start) /\ r.seq = first_seq(start) + n /\ n < MAX_REPLAY_EVENTS
    <3> DEFINE q == [reader EXCEPT !.observed_events = n + 1]
    <3>1. reader' = RouteEvent(q, r)
      BY <1>2, <1>5, <2>7 DEF ReadEvent
    <3>2. /\ DOMAIN q = Fields /\ q.status = "reading" /\ q.start = start /\ q.end = None
          /\ q.observed_events = n + 1
      BY <1>0, <1>5 DEF Fields
    <3> HIDE DEF q
    <3>3. /\ DOMAIN reader' = Fields /\ reader'.status = "reading" /\ reader'.start = start
          /\ reader'.end = None /\ reader'.observed_events = n + 1
      BY <3>1, <3>2, RoutesAside
    <3>4. ReaderOK'
      BY <1>0, <1>1, <2>1, <2>7, <3>3 DEF ReaderOK
    <3>5. ASSUME NEW i \in 2..n + 2 PROVE EventAgrees(stream[i], i)'
      <4>1. CASE i = n + 2
        <5>1. stream'[i] = r /\ first_seq(start) + i - 2 = first_seq(start) + n
          BY <1>1, <2>3, <2>4, <4>1
        <5>2. r.type = "event" /\ validate_event(r, start) /\ r.seq = first_seq(start) + i - 2
          BY <1>0, <2>7, <5>1
        <5> QED
          BY <3>3, <5>1, <5>2 DEF EventAgrees
      <4>2. CASE i \in 2..n + 1
        <5>1. stream'[i] = stream[i]
          BY <1>0, <1>1, <2>1, <4>2
        <5>2. EventAgrees(stream[i], i)
          BY <1>0, <1>5, <4>2 DEF Good
        <5> QED
          BY <3>3, <5>1, <5>2 DEF EventAgrees
      <4>3. i = n + 2 \/ i \in 2..n + 1
        BY <1>0
      <4> QED
        BY <4>1, <4>2, <4>3
    <3>6. Len(stream') = (n + 1) + 1 /\ (n + 1) + 1 = n + 2
      BY <1>0, <1>1, <2>1
    <3>7. Good'
      BY <1>5, <2>2, <3>3, <3>5, <3>6 DEF Good
    <3> QED
      BY <3>3, <3>4, <3>7 DEF ReadInv
  <2> QED
    BY <1>0, <2>5, <2>6, <2>7
<1> QED
  BY <1>4, <1>5

\* Reading a footer.
LEMMA EndStep ==
  ASSUME ReadInv, NEW r \in EndRecord, Read(r)
  PROVE  ReadInv'
<1> DEFINE l == Len(stream)
           n == reader.observed_events
           start == reader.start
<1>0. /\ ReaderOK /\ Good /\ reader.status = "reading" /\ stream' = Append(stream, r)
      /\ r \in Record /\ r.type = "capture_end" /\ r # None /\ family' = family
      /\ r.complete \in BOOLEAN /\ r.lossless \in BOOLEAN
      /\ DOMAIN reader = Fields /\ n \in Nat /\ stream \in Seq(Record)
  BY RecordTypes, ReplayAssumption DEF ReadInv, Read, Record, ReaderOK
<1>1. /\ stream' \in Seq(Record) /\ Len(stream') = l + 1 /\ stream'[l + 1] = r
      /\ \A i \in 1..l : stream'[i] = stream[i]
      /\ \A t : At(t)' = At(t) \cup (IF r.type = t THEN {l + 1} ELSE {})
  BY <1>0, AtAppended
<1>2. reader' = ReadEnd(reader, r)
  BY <1>0 DEF Read, ReadRecord
<1>3. ASSUME reader' = Reject(reader), ~WellFormed' PROVE ReadInv'
  BY <1>0, <1>1, <1>3, Rejecting DEF ReadInv, ReaderOK
<1>4. CASE start = None \/ reader.end # None
  <2>1. reader' = Reject(reader)
    BY <1>2, <1>4 DEF ReadEnd
  <2>2. ~WellFormed'
    BY <1>0, <1>4, OutOfPlace
  <2> QED
    BY <1>3, <2>1, <2>2
<1>5. CASE start # None /\ reader.end = None
  <2>1. start \in StartRecord /\ l = n + 1 /\ stream[1] = start
    BY <1>0, <1>5, GoodSets DEF Good
  <2>2. stream'[1] = start
    BY <1>0, <1>1, <2>1
  <2>3. CASE ~EndFits(r)
    <3>1. reader' = Reject(reader)
      BY <1>2, <2>3 DEF ReadEnd, EndFits
    <3>2. l + 1 \in At("capture_end")'
      BY <1>0, <1>1
    <3>3. WellFormed' => FooterAgrees(stream'[1], stream'[l + 1], Cardinality(At("event"))')
      BY <3>2 DEF WellFormed
    <3>4. \A m : FooterAgrees(start, r, m) => EndFits(r)
      BY <1>0 DEF FooterAgrees, EndFits
    <3>5. ~WellFormed'
      BY <1>1, <2>2, <2>3, <3>3, <3>4
    <3> QED
      BY <1>3, <3>1, <3>5
  <2>4. CASE EndFits(r)
    <3>1. reader' = [reader EXCEPT !.end = r]
      BY <1>2, <1>5, <2>4 DEF ReadEnd, EndFits
    <3>2. /\ DOMAIN reader' = Fields /\ reader'.status = "reading" /\ reader'.start = start
          /\ reader'.end = r /\ reader'.observed_events = n
      BY <1>0, <3>1 DEF Fields
    <3>3. ReaderOK'
      BY <1>0, <1>1, <2>1, <3>2 DEF ReaderOK
    <3>4. ASSUME NEW i \in 2..n + 1 PROVE EventAgrees(stream[i], i)'
      <4>1. stream'[i] = stream[i]
        BY <1>0, <1>1, <2>1
      <4>2. EventAgrees(stream[i], i)
        BY <1>0, <1>5 DEF Good
      <4> QED
        BY <3>2, <4>1, <4>2 DEF EventAgrees
    <3>5. Len(stream') = n + 2 /\ stream'[Len(stream')] = r
      BY <1>0, <1>1, <2>1
    <3>6. EndFits(r)'
      BY <2>4, <3>2 DEF EndFits
    <3>7. Good'
      BY <1>0, <1>5, <2>2, <3>2, <3>4, <3>5, <3>6 DEF Good
    <3> QED
      BY <3>2, <3>3, <3>7 DEF ReadInv
  <2> QED
    BY <2>3, <2>4
<1> QED
  BY <1>4, <1>5

\* Reading a line that is no record.
LEMMA MalformedStep ==
  ASSUME ReadInv, Read(Malformed)
  PROVE  ReadInv'
<1> DEFINE r == Malformed
<1>0. /\ ReaderOK /\ Good /\ reader.status = "reading" /\ stream' = Append(stream, r)
      /\ r \in Record /\ r.type = "malformed" /\ family' = family
      /\ DOMAIN reader = Fields
  BY RecordTypes DEF ReadInv, Read, Record, ReaderOK
<1>1. stream' \in Seq(Record)
  BY <1>0, AtAppended DEF ReaderOK
<1>2. reader' = Reject(reader)
  BY <1>0 DEF Read, ReadRecord
<1>3. ~WellFormed'
  BY <1>0, OutOfPlace
<1> QED
  BY <1>0, <1>1, <1>2, <1>3, Rejecting DEF ReadInv, ReaderOK

\* The reader's verdict at the end of the file.
LEMMA EndOfFileStep ==
  ASSUME ReadInv, EndOfFile
  PROVE  ReadInv'
<1>0. /\ ReaderOK /\ Good /\ reader.status = "reading" /\ stream' = stream /\ family' = family
      /\ DOMAIN reader = Fields /\ reader' = Conclude(reader)
  BY DEF ReadInv, EndOfFile, ReaderOK
<1>1. WellFormed' <=> Concludes
  <2>1. WellFormed <=> Concludes
    BY <1>0, GoodConcludes
  <2>2. WellFormed' <=> WellFormed
    BY <1>0 DEF WellFormed, At
  <2> QED
    BY <2>1, <2>2
<1>2. CASE ~Concludes
  <2>1. reader' = Reject(reader)
    BY <1>0, <1>2 DEF Conclude, Concludes
  <2> QED
    BY <1>0, <1>1, <1>2, <2>1, Rejecting DEF ReadInv, ReaderOK
<1>3. CASE Concludes
  <2>1. reader' = [reader EXCEPT !.status = "accepted"]
    BY <1>0, <1>3 DEF Conclude, Concludes
  <2>2. /\ DOMAIN reader' = Fields /\ reader'.status = "accepted" /\ reader'.start = reader.start
        /\ reader'.end = reader.end /\ reader'.observed_events = reader.observed_events
    BY <1>0, <2>1 DEF Fields
  <2>3. ReaderOK'
    BY <1>0, <2>2 DEF ReaderOK
  <2>4. Good'
    BY <1>0, <2>2 DEF Good, EventAgrees, EndFits
  <2> QED
    BY <1>1, <1>3, <2>2, <2>3, <2>4 DEF ReadInv
<1> QED
  BY <1>2, <1>3

\* Each step keeps what the reader knows true.
LEMMA ReadStep == ReadInv /\ [Next]_vars => ReadInv'
<1> SUFFICES ASSUME ReadInv, [Next]_vars PROVE ReadInv'
  OBVIOUS
<1>1. CASE EndOfFile
  BY <1>1, EndOfFileStep
<1>2. ASSUME NEW r \in Records, Read(r) PROVE ReadInv'
  <2>1. r \in Record
    BY RecordsAreRecords DEF ReadInv
  <2> QED
    BY <1>2, <2>1, StartStep, EventStep, EndStep, MalformedStep DEF Record
<1>3. CASE UNCHANGED vars
  BY <1>3 DEF vars, ReadInv, ReaderOK, Good, EventAgrees, EndFits, WellFormed, At
<1> QED
  BY <1>1, <1>2, <1>3 DEF Next

\* It is true of a reader that has read nothing.
LEMMA ReadInit == Init => ReadInv
<1> SUFFICES ASSUME Init PROVE ReadInv
  OBVIOUS
<1>1. ReaderOK
  BY ReplayAssumption DEF Init, NewReader, ReaderOK, Fields
<1> QED
  BY <1>1 DEF Init, NewReader, ReadInv, Good

\* Throughout.
LEMMA ReadInvariance == Spec => []ReadInv
BY ReadInit, ReadStep, PTL DEF Spec

\* The single pass accepts exactly the traces, of any length and with anything
\* wrong in them.
THEOREM AcceptsTraces == Spec => []AcceptsExactlyTraces
<1>1. ReadInv => AcceptsExactlyTraces
  BY DEF ReadInv, ReaderOK, AcceptsExactlyTraces
<1> QED
  BY <1>1, ReadInvariance, PTL

\* The header and footer that the reader keeps are in the file.
Kept ==
  /\ reader.start = None \/ reader.start \in Range(stream)
  /\ reader.end = None \/ reader.end \in Range(stream)

\* Reading a record leaves the header and footer as they were, or takes the record.
LEMMA ReadTakes ==
  ASSUME DOMAIN reader = Fields, NEW r \in Record, reader' = ReadRecord(reader, r)
  PROVE  reader'.start \in {reader.start, r} /\ reader'.end \in {reader.end, r}
<1>1. reader' \in {ReadStart(reader, r), ReadEvent(reader, r), ReadEnd(reader, r), Reject(reader)}
  BY RecordTypes DEF ReadRecord, Record
<1>2. CASE reader' = Reject(reader)
  BY <1>2, Rejecting
<1>3. CASE reader' = ReadStart(reader, r)
  BY <1>2, <1>3 DEF ReadStart, Fields
<1>4. CASE reader' = ReadEvent(reader, r)
  <2> DEFINE q == [reader EXCEPT !.observed_events = @ + 1]
  <2>1. DOMAIN q = Fields /\ q.start = reader.start /\ q.end = reader.end
    BY DEF Fields
  <2>2. reader' = RouteEvent(q, r) \/ reader' = Reject(reader)
    BY <1>4 DEF ReadEvent
  <2> HIDE DEF q
  <2> QED
    BY <1>2, <2>1, <2>2, RoutesAside
<1>5. CASE reader' = ReadEnd(reader, r)
  BY <1>2, <1>5 DEF ReadEnd, Fields
<1> QED
  BY <1>1, <1>2, <1>3, <1>4, <1>5

\* What the reader keeps comes from the file, and its count stays in bounds.
THEOREM ReplayTypeCorrect == Spec => []ReplayTypeOK
<1>1. Init => Kept
  BY DEF Init, NewReader, Kept
<1>2. ReadInv /\ Kept /\ [Next]_vars => Kept'
  <2> SUFFICES ASSUME ReadInv, Kept, [Next]_vars PROVE Kept'
    OBVIOUS
  <2>0. DOMAIN reader = Fields /\ stream \in Seq(Record) /\ Records \subseteq Record
    BY RecordsAreRecords DEF ReadInv, ReaderOK
  <2>1. CASE EndOfFile
    BY <2>0, <2>1 DEF EndOfFile, Conclude, Reject, Kept, Fields
  <2>2. ASSUME NEW r \in Records, Read(r) PROVE Kept'
    <3>1. /\ stream' = Append(stream, r) /\ r \in Record
          /\ reader' = ReadRecord(reader, r)
      BY <2>0, <2>2 DEF Read
    <3>2. Range(stream) \subseteq Range(stream)' /\ r \in Range(stream)'
      <4>1. /\ Len(stream') = Len(stream) + 1 /\ stream'[Len(stream) + 1] = r
            /\ \A i \in 1..Len(stream) : stream'[i] = stream[i]
            /\ stream' \in Seq(Record)
        BY <2>0, <3>1, AtAppended
      <4>2. DOMAIN stream = 1..Len(stream) /\ DOMAIN stream' = 1..Len(stream) + 1
        BY <2>0, <4>1
      <4> QED
        BY <2>0, <4>1, <4>2 DEF Range
    <3>3. reader'.start \in {reader.start, r} /\ reader'.end \in {reader.end, r}
      BY <2>0, <3>1, ReadTakes
    <3> QED
      BY <3>2, <3>3 DEF Kept
  <2>3. CASE UNCHANGED vars
    BY <2>3 DEF vars, Kept
  <2> QED
    BY <2>1, <2>2, <2>3 DEF Next
<1>3. ReadInv /\ Kept => ReplayTypeOK
  BY DEF ReadInv, ReaderOK, Kept, ReplayTypeOK
<1> QED
  BY <1>1, <1>2, <1>3, ReadInvariance, PTL DEF Spec

-----------------------------------------------------------------------------
\* A set of naturals has a least element.
LEMMA LeastNatural ==
  ASSUME NEW S \in SUBSET Nat, S # {}
  PROVE  Map!Min(S) \in S /\ \A x \in S : Map!Min(S) <= x
<1> DEFINE R == {ss \in Nat \X Nat : ss[1] < ss[2]}
<1>1. IsWellFoundedOn(R, Nat)
  BY NatLessThanWellFounded DEF OpToRel
<1>2. PICK x \in S : \A y \in S : <<y, x>> \notin R
  <2> HIDE DEF R
  <2> QED
    BY <1>1, WFMin
<1>3. \A y \in S : ~ (y < x)
  BY <1>2
<1>4. \A y \in S : x <= y
  BY <1>3
<1> HIDE DEF R
<1> QED
  BY <1>2, <1>4 DEF Map!Min

\* A bounded map's fields.
MapFields == {"capacity", "generation", "values", "order", "evictions"}

\* A map whose every key has its node in the queue, stamped no later than now.
IsMap(m) ==
  /\ DOMAIN m = MapFields
  /\ m.capacity \in Nat \ {0}
  /\ m.generation \in Nat
  /\ m.evictions \in Nat
  /\ Map!Keys(m) \subseteq Skb
  /\ IsFiniteSet(Map!Keys(m))
  /\ \A k \in Map!Keys(m) : Map!NodeOf(m, k) \in m.order
  /\ \A k \in Map!Keys(m) : m.values[k].generation \in 1..m.generation

\* What is inserted last is not evicted by its own insertion, and whatever is,
\* is counted.
LEMMA EvictEffect ==
  ASSUME NEW m, IsMap(m), NEW id \in Map!Keys(m),
         m.values[id].generation = m.generation,
         \A k \in Map!Keys(m) \ {id} : m.values[k].generation < m.generation
  PROVE  LET e == Map!Evict(m)
         IN \E gone \in SUBSET (Map!Keys(m) \ {id}) :
              /\ IsMap(e)
              /\ Map!Keys(e) = Map!Keys(m) \ gone
              /\ \A k \in Map!Keys(e) : e.values[k] = m.values[k]
              /\ e.evictions = m.evictions + Cardinality(gone)
<1> DEFINE e == Map!Evict(m)
           g == Map!PopTo(m)
           gone == Map!Freed(m, g)
           n == m.generation
<1>1. /\ n \in Nat \ {0} /\ m.capacity \in Nat \ {0} /\ m.evictions \in Nat
      /\ DOMAIN m = MapFields /\ IsFiniteSet(Map!Keys(m))
      /\ \A k \in Map!Keys(m) : m.values[k].generation \in Nat
  BY DEF IsMap
<1>2. \A h : Map!Freed(m, h) = {k \in Map!Keys(m) : m.values[k].generation <= h}
  BY DEF IsMap, Map!Freed, Map!NodeOf
<1>3. n - 1 \in Map!Enough(m)
  <2>1. Map!Keys(m) \ Map!Freed(m, n - 1) = {id}
    BY <1>1, <1>2
  <2>2. Map!Cardinality({id}) = 1
    <3>1. Cardinality({id}) = 1
      BY FS_Singleton
    <3> QED
      BY <3>1, Zenon DEF Cardinality, Map!Cardinality
  <2>3. n - 1 \in 0..n /\ 1 <= m.capacity
    BY <1>1
  <2> QED
    BY <2>1, <2>2, <2>3 DEF Map!Enough
<1>4. g \in Nat /\ g <= n - 1
  <2>1. Map!Enough(m) \subseteq Nat
    BY <1>1 DEF Map!Enough
  <2>2. g = Map!Min(Map!Enough(m))
    BY <1>3 DEF Map!PopTo
  <2> QED
    BY <1>3, <2>1, <2>2, LeastNatural
<1>5. gone = {k \in Map!Keys(m) : m.values[k].generation <= g} /\ id \notin gone
  BY <1>1, <1>2, <1>4
<1>6. /\ DOMAIN e = MapFields
      /\ e.capacity = m.capacity
      /\ e.generation = n
      /\ e.values = Map!Restrict(m.values, Map!Keys(m) \ gone)
      /\ e.order = {node \in m.order : node.generation > g}
      /\ e.evictions = m.evictions + Map!Cardinality(gone)
  BY <1>1 DEF Map!Evict, MapFields
<1> HIDE DEF e, g, gone, n
<1>7. Map!Keys(e) = Map!Keys(m) \ gone /\ \A k \in Map!Keys(e) : e.values[k] = m.values[k]
  BY <1>6 DEF Map!Keys, Map!Restrict
<1>8. gone \subseteq Map!Keys(m) \ {id} /\ IsFiniteSet(gone) /\ Cardinality(gone) \in Nat
  <2>1. gone \subseteq Map!Keys(m)
    BY <1>5
  <2> QED
    BY <1>1, <1>5, <2>1, FS_Subset, FS_CardinalityType
<1>9. Map!Cardinality(gone) = Cardinality(gone)
  BY Zenon DEF Cardinality, Map!Cardinality
<1>10. \A k \in Map!Keys(e) : Map!NodeOf(e, k) \in e.order
  <2> SUFFICES ASSUME NEW k \in Map!Keys(e) PROVE Map!NodeOf(e, k) \in e.order
    OBVIOUS
  <2>1. /\ k \in Map!Keys(m) /\ ~ (m.values[k].generation <= g)
        /\ Map!NodeOf(e, k) = Map!NodeOf(m, k)
        /\ Map!NodeOf(m, k).generation = m.values[k].generation
    BY <1>5, <1>7 DEF Map!NodeOf
  <2>2. Map!NodeOf(m, k) \in m.order /\ m.values[k].generation > g
    BY <1>1, <1>4, <2>1 DEF IsMap
  <2> QED
    BY <1>6, <2>1, <2>2
<1>11. IsMap(e)
  <2>1. IsFiniteSet(Map!Keys(e)) /\ Map!Keys(e) \subseteq Skb
    BY <1>1, <1>7, FS_Subset DEF IsMap
  <2>2. e.evictions \in Nat
    BY <1>1, <1>6, <1>8, <1>9
  <2>3. \A k \in Map!Keys(e) : e.values[k].generation \in 1..e.generation
    BY <1>6, <1>7 DEF IsMap, n
  <2> QED
    BY <1>1, <1>6, <1>10, <2>1, <2>2, <2>3 DEF IsMap
<1> QED
  BY <1>6, <1>7, <1>8, <1>9, <1>11 DEF e

\* The event's route takes the place of the packet's former one; of the others,
\* each stays as it is or is evicted and counted.
LEMMA InsertEffect ==
  ASSUME NEW m, IsMap(m), NEW id \in Skb, NEW route
  PROVE  LET i == Map!Insert(Map!Remove(m, id), id, route)
         IN \E gone \in SUBSET (Map!Keys(m) \ {id}) :
              /\ IsMap(i)
              /\ Map!Keys(i) = (Map!Keys(m) \cup {id}) \ gone
              /\ Map!Get(i, id) = route
              /\ \A k \in Map!Keys(i) \ {id} : Map!Get(i, k) = Map!Get(m, k)
              /\ i.evictions = m.evictions + Cardinality(gone)
<1> DEFINE r == Map!Remove(m, id)
           p == Map!Put(r, id, route)
           e == Map!Evict(p)
           i == Map!Insert(r, id, route)
           n == m.generation
<1>1. /\ DOMAIN r = MapFields /\ r.capacity = m.capacity /\ r.order = m.order
      /\ r.generation = n /\ r.evictions = m.evictions
      /\ r.values = Map!Restrict(m.values, Map!Keys(m) \ {id})
  BY DEF IsMap, Map!Remove, MapFields
<1> HIDE DEF r
<1>2. /\ Map!Keys(r) = Map!Keys(m) \ {id}
      /\ \A k \in Map!Keys(r) : r.values[k] = m.values[k]
  BY <1>1 DEF Map!Keys, Map!Restrict
<1>3. /\ DOMAIN p = MapFields /\ p.capacity = m.capacity /\ p.evictions = m.evictions
      /\ p.order = m.order \cup {[key |-> id, generation |-> n + 1]}
      /\ p.generation = n + 1
      /\ p.values = [k \in Map!Keys(r) \cup {id} |->
                       IF k = id THEN [value |-> route, generation |-> n + 1] ELSE r.values[k]]
  BY <1>1 DEF Map!Put, MapFields
<1> HIDE DEF p
<1>4. /\ Map!Keys(p) = Map!Keys(m) \cup {id}
      /\ p.values[id] = [value |-> route, generation |-> n + 1]
      /\ \A k \in Map!Keys(m) \ {id} : p.values[k] = m.values[k]
  <2>1. Map!Keys(p) = Map!Keys(r) \cup {id}
    BY <1>3 DEF Map!Keys
  <2> QED
    BY <1>2, <1>3, <2>1
<1>5. n \in Nat /\ \A k \in Map!Keys(m) : m.values[k].generation \in 1..n
  BY DEF IsMap
<1>6. /\ p.values[id].generation = p.generation
      /\ \A k \in Map!Keys(p) \ {id} : p.values[k].generation < p.generation
      /\ \A k \in Map!Keys(p) : p.values[k].generation \in 1..p.generation
  <2>1. p.values[id].generation = n + 1
    BY <1>4
  <2>2. \A k \in Map!Keys(p) \ {id} : p.values[k].generation \in 1..n
    BY <1>4, <1>5
  <2>3. p.generation = n + 1
    BY <1>3
  <2> HIDE DEF n
  <2> QED
    BY <1>5, <2>1, <2>2, <2>3
<1>7. \A k \in Map!Keys(p) : Map!NodeOf(p, k) \in p.order
  <2> SUFFICES ASSUME NEW k \in Map!Keys(p) PROVE Map!NodeOf(p, k) \in p.order
    OBVIOUS
  <2>1. CASE k = id
    <3>1. Map!NodeOf(p, k) = [key |-> id, generation |-> n + 1]
      BY <1>4, <2>1 DEF Map!NodeOf
    <3> QED
      BY <1>3, <3>1
  <2>2. CASE k # id
    <3>1. k \in Map!Keys(m) /\ Map!NodeOf(p, k) = Map!NodeOf(m, k)
      BY <1>4, <2>2 DEF Map!NodeOf
    <3>2. Map!NodeOf(m, k) \in m.order
      BY <3>1 DEF IsMap
    <3> QED
      BY <1>3, <3>1, <3>2
  <2> QED
    BY <2>1, <2>2
<1>8. IsMap(p)
  <2>1. IsFiniteSet(Map!Keys(p)) /\ Map!Keys(p) \subseteq Skb
    BY <1>4, FS_AddElement DEF IsMap
  <2>2. p.generation \in Nat /\ p.capacity \in Nat \ {0} /\ p.evictions \in Nat
    BY <1>3, <1>5 DEF IsMap
  <2> QED
    BY <1>3, <1>6, <1>7, <2>1, <2>2 DEF IsMap
<1>9. PICK gone \in SUBSET (Map!Keys(p) \ {id}) :
        /\ IsMap(e)
        /\ Map!Keys(e) = Map!Keys(p) \ gone
        /\ \A k \in Map!Keys(e) : e.values[k] = p.values[k]
        /\ e.evictions = p.evictions + Cardinality(gone)
  <2>1. id \in Map!Keys(p)
    BY <1>4
  <2> QED
    BY <1>6, <1>8, <2>1, EvictEffect
<1> HIDE DEF e
<1>10. IsMap(i) /\ i.values = e.values /\ i.evictions = e.evictions
  <2>1. i = Map!Compact(e)
    BY DEF e, p, Map!Insert
  <2>2. CASE Map!Cardinality(e.order) > 4 * e.capacity
    <3>1. i = [e EXCEPT !.order = {node \in e.order : Map!IsLive(e, node)}]
      BY <2>1, <2>2 DEF Map!Compact
    <3> HIDE DEF i
    <3>2. /\ DOMAIN i = MapFields /\ i.capacity = e.capacity /\ i.generation = e.generation
          /\ i.values = e.values /\ i.evictions = e.evictions
          /\ i.order = {node \in e.order : Map!IsLive(e, node)}
      BY <1>9, <3>1 DEF IsMap, MapFields
    <3>3. \A k \in Map!Keys(e) : Map!NodeOf(i, k) = Map!NodeOf(e, k) /\ Map!NodeOf(e, k).key = k
      BY <3>2 DEF Map!NodeOf
    <3>4. Map!Keys(i) = Map!Keys(e)
      BY <3>2 DEF Map!Keys
    <3>5. \A k \in Map!Keys(e) : Map!NodeOf(e, k) \in i.order
      BY <1>9, <3>2, <3>3 DEF IsMap, Map!IsLive
    <3> QED
      BY <1>9, <3>2, <3>3, <3>4, <3>5 DEF IsMap
  <2>3. CASE ~ (Map!Cardinality(e.order) > 4 * e.capacity)
    BY <1>9, <2>1, <2>3 DEF Map!Compact
  <2> QED
    BY <2>2, <2>3
<1> HIDE DEF i
<1>11. Map!Keys(i) = (Map!Keys(m) \cup {id}) \ gone /\ gone \in SUBSET (Map!Keys(m) \ {id})
  BY <1>4, <1>9, <1>10 DEF Map!Keys
<1>12. Map!Get(i, id) = route
  BY <1>4, <1>9, <1>10 DEF Map!Get
<1>13. \A k \in Map!Keys(i) \ {id} : Map!Get(i, k) = Map!Get(m, k)
  BY <1>4, <1>9, <1>10, <1>11 DEF Map!Get
<1>14. i.evictions = m.evictions + Cardinality(gone)
  BY <1>3, <1>9, <1>10
<1> QED
  BY <1>10, <1>11, <1>12, <1>13, <1>14 DEF i, r

-----------------------------------------------------------------------------
\* What the reader keeps of a route.
Route ==
  [functions : Seq(Function), first_seq : Nat, last_seq : Nat, first_skb : Skb,
   truncated : BOOLEAN]

\* What the map's route of a packet knows of its first event, by which it tells
\* when the packet re-enters.
Begins(route, id) ==
  \E first \in EventsOf(id, route.first_seq, route.last_seq) :
    /\ stream[first].seq = route.first_seq
    /\ stream[first].skb = route.first_skb
    /\ stream[first].function = route.functions[1]

\* An open route is told up to its packet's latest event.
Opens(route, id) ==
  /\ route \in Route
  /\ Tells(route, id)
  /\ Begins(route, id)
  /\ \A i \in At("event") : event_identity(stream[i]) = id => stream[i].seq <= route.last_seq

\* The events so far stand in the order of their numbers.
Numbered ==
  /\ Len(stream) \in Nat
  /\ At("event") \subseteq 1..Len(stream)
  /\ IsFiniteSet(At("event"))
  /\ \A i \in At("event") : stream[i] \in EventRecord
  /\ \A i, j \in At("event") : i < j => stream[i].seq < stream[j].seq

\* The file goes on with an event, of a larger number than all before.
GoesOn(r) ==
  /\ r \in EventRecord
  /\ \A i \in At("event") : stream[i].seq < r.seq
  /\ At("event")' = At("event") \cup {Len(stream) + 1}
  /\ stream'[Len(stream) + 1] = r
  /\ \A i \in At("event") : stream'[i] = stream[i]

\* The fields of an event.
LEMMA EventFields ==
  ASSUME NEW r \in EventRecord
  PROVE  /\ r.seq \in Nat /\ r.function \in Function /\ r.skb \in Skb
         /\ event_identity(r) \in Skb
         /\ r.match_origin \in {"filter", "association"}
BY ReplayAssumption DEF EventRecord, event_identity

\* A packet's events are finitely many.
LEMMA EventsFinite ==
  ASSUME Numbered, NEW id, NEW from, NEW to
  PROVE  /\ IsFiniteSet(EventsOf(id, from, to))
         /\ EventsOf(id, from, to) \subseteq At("event")
         /\ Cardinality(EventsOf(id, from, to)) \in Nat
<1>1. EventsOf(id, from, to) \subseteq At("event")
  BY DEF EventsOf
<1> QED
  BY <1>1, FS_Subset, FS_CardinalityType DEF Numbered

\* The new event is one of its packet's, in any stretch that reaches it.
LEMMA EventsNext ==
  ASSUME Numbered, NEW r, GoesOn(r), NEW id, NEW from, NEW to
  PROVE  EventsOf(id, from, to)' =
           EventsOf(id, from, to) \cup
           (IF event_identity(r) = id /\ r.seq \in from..to THEN {Len(stream) + 1} ELSE {})
BY DEF Numbered, GoesOn, EventsOf

\* A hop's number does not change when a later event joins, which is the last.
LEMMA HopNext ==
  ASSUME NEW E, IsFiniteSet(E), E \subseteq Nat, NEW x \in Nat, \A i \in E : i < x
  PROVE  /\ \A i \in E : Hop(E \cup {x}, i) = Hop(E, i) /\ Hop(E, i) \in 1..Cardinality(E)
         /\ Hop(E \cup {x}, x) = Cardinality(E) + 1
         /\ Cardinality(E \cup {x}) = Cardinality(E) + 1
         /\ Cardinality(E) \in Nat
<1>1. Cardinality(E \cup {x}) = Cardinality(E) + 1 /\ Cardinality(E) \in Nat
  <2>1. x \notin E
    OBVIOUS
  <2> QED
    BY <2>1, FS_AddElement, FS_CardinalityType
<1>2. Hop(E \cup {x}, x) = Cardinality(E) + 1
  <2>1. \A j \in E \cup {x} : j <= x
    OBVIOUS
  <2>2. {j \in E \cup {x} : j <= x} = E \cup {x}
    BY <2>1
  <2> QED
    BY <1>1, <2>2 DEF Hop
<1>3. ASSUME NEW i \in E
      PROVE  Hop(E \cup {x}, i) = Hop(E, i) /\ Hop(E, i) \in 1..Cardinality(E)
  <2> DEFINE P == {j \in E : j <= i}
  <2>1. {j \in E \cup {x} : j <= i} = P
    OBVIOUS
  <2>2. P \subseteq E /\ i \in P
    OBVIOUS
  <2>3. IsFiniteSet(P) /\ Cardinality(P) <= Cardinality(E) /\ Cardinality(P) \in Nat
    BY <2>2, FS_Subset, FS_CardinalityType
  <2>4. Cardinality(P) # 0
    BY <2>2, <2>3, FS_EmptySet
  <2>5. Hop(E, i) = Cardinality(P) /\ Hop(E \cup {x}, i) = Cardinality(P)
    BY <2>1 DEF Hop
  <2> HIDE DEF P
  <2> QED
    BY <1>1, <2>3, <2>4, <2>5
<1> QED
  BY <1>1, <1>2, <1>3

\* What a route must be to tell what the packet's events are after a step.
LEMMA TellsNext ==
  ASSUME NEW route, NEW id, NEW E, NEW first \in E, NEW last \in E,
         EventsOf(id, route.first_seq, route.last_seq)' = E,
         stream'[first].seq = route.first_seq,
         stream'[last].seq = route.last_seq,
         Len(route.functions) =
           IF Cardinality(E) > MAX_ROUTE_HOPS THEN MAX_ROUTE_HOPS ELSE Cardinality(E),
         \A i \in E : Hop(E, i) <= MAX_ROUTE_HOPS =>
           route.functions[Hop(E, i)] = stream'[i].function,
         route.truncated <=> Cardinality(E) > MAX_ROUTE_HOPS,
         \A i \in E \ {first} :
           ~ (/\ stream'[i].function = stream'[first].function
              /\ stream'[i].skb = stream'[first].skb
              /\ stream'[i].match_origin = "filter")
  PROVE  Tells(route, id)'
BY Zenon DEF Tells

\* What a route tells stays true as the file goes on.
LEMMA TellsStill ==
  ASSUME Numbered, NEW r, GoesOn(r), NEW route, NEW id, Tells(route, id)
  PROVE  /\ Tells(route, id)'
         /\ EventsOf(id, route.first_seq, route.last_seq)' =
              EventsOf(id, route.first_seq, route.last_seq)
<1> DEFINE E == EventsOf(id, route.first_seq, route.last_seq)
<1>1. PICK first, last \in E :
        /\ stream[first].seq = route.first_seq
        /\ stream[last].seq = route.last_seq
        /\ Len(route.functions) =
             IF Cardinality(E) > MAX_ROUTE_HOPS THEN MAX_ROUTE_HOPS ELSE Cardinality(E)
        /\ \A i \in E : Hop(E, i) <= MAX_ROUTE_HOPS =>
             route.functions[Hop(E, i)] = stream[i].function
        /\ route.truncated <=> Cardinality(E) > MAX_ROUTE_HOPS
        /\ \A i \in E \ {first} :
             ~ (/\ stream[i].function = stream[first].function
                /\ stream[i].skb = stream[first].skb
                /\ stream[i].match_origin = "filter")
  BY Zenon DEF Tells
<1>2. E \subseteq At("event")
  BY EventsFinite
<1>3. E' = E
  <2>1. stream[last] \in EventRecord /\ stream[last].seq < r.seq /\ r \in EventRecord
    BY <1>2 DEF Numbered, GoesOn
  <2>2. stream[first] \in EventRecord
    BY <1>2 DEF Numbered
  <2>3. r.seq \notin route.first_seq..route.last_seq
    BY <1>1, <2>1, <2>2, EventFields
  <2>4. EventsOf(id, route.first_seq, route.last_seq)' =
          EventsOf(id, route.first_seq, route.last_seq) \cup
          (IF event_identity(r) = id /\ r.seq \in route.first_seq..route.last_seq
             THEN {Len(stream) + 1} ELSE {})
    BY EventsNext
  <2> QED
    BY <2>3, <2>4
<1>4. \A i \in E : stream'[i] = stream[i]
  BY <1>2 DEF GoesOn
<1> HIDE DEF E
<1>5. Tells(route, id)'
  <2>1. /\ stream'[first].seq = route.first_seq
        /\ stream'[last].seq = route.last_seq
        /\ \A i \in E : Hop(E, i) <= MAX_ROUTE_HOPS =>
             route.functions[Hop(E, i)] = stream'[i].function
        /\ \A i \in E \ {first} :
             ~ (/\ stream'[i].function = stream'[first].function
                /\ stream'[i].skb = stream'[first].skb
                /\ stream'[i].match_origin = "filter")
    BY <1>1, <1>4
  <2>2. EventsOf(id, route.first_seq, route.last_seq)' = E
    BY <1>3 DEF E
  <2> QED
    BY <1>1, <2>1, <2>2, TellsNext
<1> QED
  BY <1>3, <1>5 DEF E

\* So does what an open route of another packet knows.
LEMMA OpensStill ==
  ASSUME Numbered, NEW r, GoesOn(r), NEW route, NEW id, Opens(route, id),
         event_identity(r) # id
  PROVE  Opens(route, id)'
<1>1. /\ Tells(route, id)'
      /\ EventsOf(id, route.first_seq, route.last_seq)' =
           EventsOf(id, route.first_seq, route.last_seq)
  BY TellsStill DEF Opens
<1>2. \A i \in EventsOf(id, route.first_seq, route.last_seq) : stream'[i] = stream[i]
  BY EventsFinite DEF GoesOn
<1>3. Begins(route, id)'
  BY <1>1, <1>2 DEF Begins, Opens
<1>4. \A i \in At("event")' :
        event_identity(stream'[i]) = id => stream'[i].seq <= route.last_seq
  BY DEF GoesOn, Opens
<1> QED
  BY <1>1, <1>3, <1>4 DEF Opens

\* The first event of a route is all it tells.
LEMMA OpensNew ==
  ASSUME Numbered, NEW r, GoesOn(r), NEW id, id = event_identity(r)
  PROVE  Opens(RouteBuilder(r), id)'
<1> DEFINE l == Len(stream) + 1
           route == RouteBuilder(r)
<1>1. /\ r \in EventRecord /\ r.seq \in Nat /\ r.function \in Function /\ r.skb \in Skb
      /\ stream'[l] = r /\ l \in Nat
  BY EventFields DEF GoesOn, Numbered
<1>2. PICK f : f = <<r.function>>
  OBVIOUS
<1>3. /\ route \in Route /\ route.first_seq = r.seq /\ route.last_seq = r.seq
      /\ route.first_skb = r.skb /\ route.functions = f /\ route.truncated = FALSE
  BY <1>1, <1>2 DEF Route, RouteBuilder
<1>4. f \in Seq(Function) /\ Len(f) = 1 /\ f[1] = r.function
  BY <1>1, <1>2
<1>5. EventsOf(id, r.seq, r.seq)' = {l}
  <2>1. EventsOf(id, r.seq, r.seq) = {}
    BY <1>1, EventFields DEF EventsOf, GoesOn, Numbered
  <2> QED
    BY <1>1, <2>1, EventsNext
<1>6. Cardinality({l}) = 1 /\ Hop({l}, l) = 1
  <2>1. {j \in {l} : j <= l} = {l}
    BY <1>1
  <2> QED
    BY <2>1, FS_Singleton DEF Hop
<1>7. MAX_ROUTE_HOPS \in Nat \ {0}
  BY ReplayAssumption
<1> HIDE DEF l, route
<1>8. Tells(route, id)'
  <2>1. EventsOf(id, route.first_seq, route.last_seq)' = {l}
    BY <1>3, <1>5
  <2>2. /\ stream'[l].seq = route.first_seq
        /\ stream'[l].seq = route.last_seq
        /\ Len(route.functions) =
             IF Cardinality({l}) > MAX_ROUTE_HOPS THEN MAX_ROUTE_HOPS ELSE Cardinality({l})
        /\ \A i \in {l} : Hop({l}, i) <= MAX_ROUTE_HOPS =>
             route.functions[Hop({l}, i)] = stream'[i].function
        /\ route.truncated <=> Cardinality({l}) > MAX_ROUTE_HOPS
    BY <1>1, <1>3, <1>4, <1>6, <1>7
  <2> QED
    BY <2>1, <2>2, TellsNext
<1>9. Begins(route, id)'
  BY <1>1, <1>3, <1>4, <1>5 DEF Begins
<1>10. \A i \in At("event")' : stream'[i].seq <= route.last_seq
  BY <1>1, <1>3, EventFields DEF GoesOn, Numbered, l
<1> QED
  BY <1>3, <1>8, <1>9, <1>10 DEF Opens, route

\* A route that goes on tells one hop more, or that it is cut.
LEMMA OpensMore ==
  ASSUME Numbered, NEW r, GoesOn(r), NEW id, id = event_identity(r),
         NEW old, Opens(old, id), ~Reenters(old, r)
  PROVE  Opens(observe(old, r), id)'
<1> DEFINE l == Len(stream) + 1
           E == EventsOf(id, old.first_seq, old.last_seq)
           c == Cardinality(E)
           MAX == MAX_ROUTE_HOPS
           f == old.functions
           route == observe(old, r)
           g == IF Len(f) < MAX THEN Append(f, r.function) ELSE f
           b == old.truncated \/ Len(f) >= MAX
<1>1. /\ r \in EventRecord /\ r.seq \in Nat /\ r.function \in Function /\ r.skb \in Skb
      /\ stream'[l] = r /\ l \in Nat /\ MAX \in Nat \ {0} /\ c \in Nat
      /\ E \subseteq At("event") /\ IsFiniteSet(E) /\ E \subseteq Nat
  BY EventFields, EventsFinite, ReplayAssumption DEF GoesOn, Numbered
<1>2. /\ old \in Route /\ f \in Seq(Function) /\ old.first_seq \in Nat /\ old.last_seq \in Nat
      /\ old.first_skb \in Skb /\ old.truncated \in BOOLEAN
  BY DEF Opens, Route
<1>3. PICK first, last \in E :
        /\ stream[first].seq = old.first_seq
        /\ stream[last].seq = old.last_seq
        /\ Len(f) = IF c > MAX THEN MAX ELSE c
        /\ \A i \in E : Hop(E, i) <= MAX => f[Hop(E, i)] = stream[i].function
        /\ old.truncated <=> c > MAX
        /\ \A i \in E \ {first} :
             ~ (/\ stream[i].function = stream[first].function
                /\ stream[i].skb = stream[first].skb
                /\ stream[i].match_origin = "filter")
  BY Zenon DEF Tells, Opens
<1>4. stream[first].skb = old.first_skb /\ stream[first].function = f[1]
  <2>1. PICK begin \in E : /\ stream[begin].seq = old.first_seq
                           /\ stream[begin].skb = old.first_skb
                           /\ stream[begin].function = f[1]
    BY DEF Opens, Begins
  <2>2. begin = first
    <3>1. stream[begin].seq = stream[first].seq /\ stream[first].seq \in Nat
      BY <1>2, <1>3, <2>1
    <3>2. begin \in At("event") /\ first \in At("event") /\ begin \in Nat /\ first \in Nat
      BY <1>1
    <3>3. ~ (begin < first) /\ ~ (first < begin)
      BY <3>1, <3>2 DEF Numbered
    <3> QED
      BY <3>2, <3>3
  <2> QED
    BY <2>1, <2>2
<1>5. first \in E /\ c # 0 /\ \A i \in E : i < l /\ stream'[i] = stream[i]
  <2>1. c # 0
    BY <1>1, <1>3, FS_EmptySet
  <2> QED
    BY <1>1, <2>1 DEF Numbered, GoesOn
<1>6. EventsOf(id, old.first_seq, r.seq)' = E \cup {l}
  <2>1. EventsOf(id, old.first_seq, r.seq) = E
    <3>1. ASSUME NEW i \in At("event"), event_identity(stream[i]) = id
          PROVE  /\ stream[i].seq \in Nat /\ stream[i].seq <= old.last_seq
                 /\ stream[i].seq < r.seq
      BY <3>1, EventFields DEF Opens, GoesOn, Numbered
    <3>2. ASSUME NEW i \in At("event"), event_identity(stream[i]) = id
          PROVE  stream[i].seq \in old.first_seq..r.seq <=>
                   stream[i].seq \in old.first_seq..old.last_seq
      BY <1>1, <1>2, <3>1, <3>2
    <3> QED
      BY <3>2 DEF EventsOf
  <2>2. old.first_seq <= r.seq
    <3>1. stream[first].seq < r.seq
      BY <1>1, <1>5 DEF GoesOn
    <3> QED
      BY <1>1, <1>2, <1>3, <3>1
  <2>3. EventsOf(id, old.first_seq, r.seq)' =
          EventsOf(id, old.first_seq, r.seq) \cup
          (IF event_identity(r) = id /\ r.seq \in old.first_seq..r.seq
             THEN {Len(stream) + 1} ELSE {})
    BY EventsNext
  <2>4. r.seq \in old.first_seq..r.seq
    BY <1>1, <1>2, <2>2
  <2> QED
    BY <2>1, <2>3, <2>4
<1>7. /\ \A i \in E : Hop(E \cup {l}, i) = Hop(E, i) /\ Hop(E, i) \in 1..c
      /\ Hop(E \cup {l}, l) = c + 1
      /\ Cardinality(E \cup {l}) = c + 1
  BY <1>1, <1>5, HopNext
<1>8. /\ route.functions = g /\ route.first_seq = old.first_seq /\ route.last_seq = r.seq
      /\ route.first_skb = old.first_skb
      /\ route.truncated = b
      /\ route \in Route
  <2>1. route = [old EXCEPT !.functions = g, !.truncated = b, !.last_seq = r.seq]
    BY DEF observe
  <2>2. g \in Seq(Function)
    BY <1>1, <1>2
  <2>3. b \in BOOLEAN
    OBVIOUS
  <2> HIDE DEF g, route, f, b
  <2> QED
    BY <1>1, <1>2, <2>1, <2>2, <2>3 DEF Route
<1>9. Len(g) = IF c + 1 > MAX THEN MAX ELSE c + 1
  <2>1. CASE Len(f) < MAX
    BY <1>1, <1>2, <1>3, <2>1
  <2>2. CASE ~ (Len(f) < MAX)
    BY <1>1, <1>2, <1>3, <2>2
  <2> QED
    BY <2>1, <2>2
<1>10. ASSUME NEW i \in E \cup {l}, Hop(E \cup {l}, i) <= MAX
       PROVE  g[Hop(E \cup {l}, i)] = stream'[i].function
  <2>1. CASE i \in E
    <3>1. Hop(E, i) \in 1..c /\ Hop(E, i) <= MAX /\ f[Hop(E, i)] = stream[i].function
      BY <1>3, <1>7, <1>10, <2>1
    <3>2. Hop(E, i) \in 1..Len(f)
      BY <1>1, <1>3, <3>1
    <3>3. g[Hop(E, i)] = f[Hop(E, i)]
      BY <1>1, <1>2, <3>2
    <3> QED
      BY <1>5, <1>7, <2>1, <3>1, <3>3
  <2>2. CASE i = l
    <3>1. c + 1 <= MAX
      BY <1>7, <1>10, <2>2
    <3>2. Len(f) = c /\ Len(f) < MAX
      BY <1>1, <1>3, <3>1
    <3>3. g[c + 1] = r.function
      BY <1>1, <1>2, <3>2
    <3> QED
      BY <1>1, <1>7, <2>2, <3>3
  <2> QED
    BY <2>1, <2>2
<1>11. route.truncated <=> c + 1 > MAX
  <2>1. /\ Len(f) >= MAX <=> c + 1 > MAX
        /\ c > MAX => c + 1 > MAX
    BY <1>1, <1>3
  <2>2. b <=> c + 1 > MAX
    BY <1>3, <2>1, Zenon
  <2> HIDE DEF b, route
  <2> QED
    BY <1>8, <2>2, Zenon
<1>12. ASSUME NEW i \in (E \cup {l}) \ {first}
       PROVE  ~ (/\ stream'[i].function = stream'[first].function
                 /\ stream'[i].skb = stream'[first].skb
                 /\ stream'[i].match_origin = "filter")
  <2>1. CASE i \in E
    BY <1>3, <1>5, <2>1
  <2>2. CASE i = l
    <3>1. f # <<>> /\ Head(f) = f[1]
      BY <1>1, <1>2, <1>3, <1>5
    <3> QED
      BY <1>1, <1>4, <1>5, <2>2, <3>1 DEF Reenters
  <2> QED
    BY <2>1, <2>2
<1>13. stream'[first].seq = old.first_seq /\ stream'[l].seq = r.seq
  BY <1>1, <1>3, <1>5
<1>14. Tells(route, id)'
  <2> DEFINE F == E \cup {l}
  <2>1. EventsOf(id, route.first_seq, route.last_seq)' = F
    BY <1>6, <1>8
  <2>2. first \in F /\ l \in F
    OBVIOUS
  <2>3. /\ stream'[first].seq = route.first_seq
        /\ stream'[l].seq = route.last_seq
        /\ Len(route.functions) =
             IF Cardinality(F) > MAX_ROUTE_HOPS THEN MAX_ROUTE_HOPS ELSE Cardinality(F)
        /\ \A i \in F : Hop(F, i) <= MAX_ROUTE_HOPS =>
             route.functions[Hop(F, i)] = stream'[i].function
        /\ route.truncated <=> Cardinality(F) > MAX_ROUTE_HOPS
        /\ \A i \in F \ {first} :
             ~ (/\ stream'[i].function = stream'[first].function
                /\ stream'[i].skb = stream'[first].skb
                /\ stream'[i].match_origin = "filter")
    <3> HIDE DEF g, route, c, E, l
    <3>1. Cardinality(F) = c + 1
      BY <1>7
    <3> QED
      BY <1>8, <1>9, <1>10, <1>11, <1>12, <1>13, <3>1, Zenon
  <2> HIDE DEF F, route, l, E
  <2> QED
    BY <2>1, <2>2, <2>3, TellsNext
<1> HIDE DEF g, route, c
<1>15. Begins(route, id)'
  <2>1. route.functions[1] = f[1]
    <3>1. 1 \in 1..Len(f)
      BY <1>1, <1>2, <1>3, <1>5
    <3> QED
      BY <1>1, <1>2, <1>8, <3>1 DEF g
  <2>2. EventsOf(id, route.first_seq, route.last_seq)' = E \cup {l}
    BY <1>6, <1>8
  <2> QED
    BY <1>4, <1>5, <1>8, <1>13, <2>1, <2>2 DEF Begins
<1>16. \A i \in At("event")' : stream'[i].seq <= route.last_seq
  BY <1>1, <1>8, EventFields DEF GoesOn, Numbered
<1> QED
  BY <1>8, <1>14, <1>15, <1>16 DEF Opens, route

-----------------------------------------------------------------------------
\* The completed routes, each of them true, those of a packet one after another.
CompletedOK(c) ==
  /\ c \in Seq([skb : Skb, route : Route])
  /\ \A i \in DOMAIN c : Tells(c[i].route, c[i].skb)
  /\ \A i, j \in DOMAIN c :
       i < j /\ c[i].skb = c[j].skb => c[i].route.last_seq < c[j].route.first_seq

\* The open routes, each of them true and after the packet's completed ones.
OpenOK(m, c) ==
  /\ IsMap(m)
  /\ \A id \in Map!Keys(m) :
       /\ Opens(Map!Get(m, id), id)
       /\ \A i \in DOMAIN c :
            c[i].skb = id => c[i].route.last_seq < Map!Get(m, id).first_seq

\* The events in none of the routes.
InRoute(m, c, id, seq) ==
  \/ \E i \in DOMAIN c :
       c[i].skb = id /\ seq \in c[i].route.first_seq..c[i].route.last_seq
  \/ id \in Map!Keys(m) /\ seq \in Map!Get(m, id).first_seq..Map!Get(m, id).last_seq

Missing(m, c) ==
  {i \in At("event") : ~InRoute(m, c, event_identity(stream[i]), stream[i].seq)}

\* An eviction leaves at least one event in none.
Accounted(m, c) ==
  /\ m.evictions = 0 => Missing(m, c) = {}
  /\ m.evictions <= Cardinality(Missing(m, c))

\* The invariant of the routes of a reader that has not given up.
RoutesInv ==
  reader.status # "rejected" =>
    IF reader.start = None
      THEN reader.completed_routes = <<>>
      ELSE \E m \in {reader.routes}, c \in {reader.completed_routes} :
             CompletedOK(c) /\ OpenOK(m, c) /\ Accounted(m, c)

\* What RouteEvent makes of the map and the completed routes.
Takes(r, m, m2, c, c2, gone) ==
  LET id == event_identity(r)
      open == id \in Map!Keys(m)
      old == Map!Get(m, id)
      ends == open /\ Reenters(old, r)
  IN /\ gone \subseteq Map!Keys(m) \ {id}
     /\ IsMap(m2)
     /\ Map!Keys(m2) = (Map!Keys(m) \cup {id}) \ gone
     /\ Map!Get(m2, id) = IF open /\ ~ends THEN observe(old, r) ELSE RouteBuilder(r)
     /\ \A k \in Map!Keys(m2) \ {id} : Map!Get(m2, k) = Map!Get(m, k)
     /\ m2.evictions = m.evictions + Cardinality(gone)
     /\ c2 = IF ends THEN Append(c, [skb |-> id, route |-> old]) ELSE c

\* A route begins and ends with events of its packet.
LEMMA TellsSpan ==
  ASSUME Numbered, NEW route, NEW id, Tells(route, id)
  PROVE  /\ \E first \in At("event") :
              event_identity(stream[first]) = id /\ stream[first].seq = route.first_seq
         /\ \E last \in At("event") :
              event_identity(stream[last]) = id /\ stream[last].seq = route.last_seq
         /\ route.first_seq \in Nat /\ route.last_seq \in Nat
         /\ route.first_seq <= route.last_seq
<1> DEFINE E == EventsOf(id, route.first_seq, route.last_seq)
<1>1. PICK first, last \in E :
        stream[first].seq = route.first_seq /\ stream[last].seq = route.last_seq
  BY Zenon DEF Tells
<1>2. /\ first \in At("event") /\ event_identity(stream[first]) = id
      /\ last \in At("event") /\ event_identity(stream[last]) = id
      /\ stream[first].seq \in route.first_seq..route.last_seq
  BY DEF EventsOf
<1>3. stream[first].seq \in Nat /\ stream[last].seq \in Nat
  BY <1>2, EventFields DEF Numbered
<1> QED
  BY <1>1, <1>2, <1>3

\* The routes completed so far ended before the event.
LEMMA CompletedBefore ==
  ASSUME Numbered, NEW r, GoesOn(r), NEW route, NEW id, Tells(route, id)
  PROVE  route.last_seq < r.seq
<1>1. PICK last \in At("event") : stream[last].seq = route.last_seq
  BY TellsSpan
<1> QED
  BY <1>1 DEF GoesOn

\* A re-entered route is completed, and all before it stays.
LEMMA CompletedStep ==
  ASSUME Numbered, NEW r, GoesOn(r), NEW m, NEW m2, NEW c, NEW c2, NEW gone,
         Takes(r, m, m2, c, c2, gone), CompletedOK(c), OpenOK(m, c)
  PROVE  CompletedOK(c2)'
<1> DEFINE id == event_identity(r)
           old == Map!Get(m, id)
<1>1. c \in Seq([skb : Skb, route : Route]) /\ DOMAIN c = 1..Len(c) /\ Len(c) \in Nat
  BY DEF CompletedOK
<1>2. \A i \in DOMAIN c : Tells(c[i].route, c[i].skb)'
  <2> SUFFICES ASSUME NEW i \in DOMAIN c PROVE Tells(c[i].route, c[i].skb)'
    OBVIOUS
  <2>1. PICK route, k : route = c[i].route /\ k = c[i].skb
    OBVIOUS
  <2>2. Tells(route, k)
    BY <2>1 DEF CompletedOK
  <2>3. Tells(route, k)'
    BY <2>2, TellsStill
  <2> QED
    BY <2>1, <2>3
<1>3. CASE c2 = c
  BY <1>2, <1>3 DEF CompletedOK
<1>4. CASE c2 # c
  <2>1. c2 = Append(c, [skb |-> id, route |-> old]) /\ id \in Map!Keys(m)
    BY <1>4 DEF Takes
  <2>2. /\ Opens(old, id) /\ id \in Skb /\ old \in Route
        /\ \A i \in DOMAIN c : c[i].skb = id => c[i].route.last_seq < old.first_seq
    BY <2>1, EventFields DEF OpenOK, Opens, GoesOn
  <2> HIDE DEF id, old
  <2>3. /\ c2 \in Seq([skb : Skb, route : Route])
        /\ DOMAIN c2 = DOMAIN c \cup {Len(c) + 1}
        /\ c2[Len(c) + 1] = [skb |-> id, route |-> old]
        /\ \A i \in DOMAIN c : c2[i] = c[i] /\ i < Len(c) + 1
    BY <1>1, <2>1, <2>2
  <2>4. \A i \in DOMAIN c2 : Tells(c2[i].route, c2[i].skb)'
    <3> SUFFICES ASSUME NEW i \in DOMAIN c2 PROVE Tells(c2[i].route, c2[i].skb)'
      OBVIOUS
    <3>1. CASE i \in DOMAIN c
      BY <1>2, <2>3, <3>1
    <3>2. CASE i = Len(c) + 1
      <4>1. PICK route, k : route = old /\ k = id
        OBVIOUS
      <4>2. Tells(route, k)
        BY <2>2, <4>1 DEF Opens
      <4>3. Tells(route, k)'
        BY <4>2, TellsStill
      <4> QED
        BY <2>3, <3>2, <4>1, <4>3
    <3> QED
      BY <2>3, <3>1, <3>2
  <2>5. \A i, j \in DOMAIN c2 :
          i < j /\ c2[i].skb = c2[j].skb => c2[i].route.last_seq < c2[j].route.first_seq
    <3> SUFFICES ASSUME NEW i \in DOMAIN c2, NEW j \in DOMAIN c2, i < j, c2[i].skb = c2[j].skb
                 PROVE  c2[i].route.last_seq < c2[j].route.first_seq
      OBVIOUS
    <3>1. i \in DOMAIN c
      BY <1>1, <2>3
    <3>2. CASE j \in DOMAIN c
      BY <2>3, <3>1, <3>2 DEF CompletedOK
    <3>3. CASE j = Len(c) + 1
      BY <2>2, <2>3, <3>1, <3>3
    <3> QED
      BY <2>3, <3>2, <3>3
  <2> QED
    BY <2>3, <2>4, <2>5 DEF CompletedOK
<1> QED
  BY <1>3, <1>4

\* The packet's route goes on or begins; the others that stay, stay true.
LEMMA OpenStep ==
  ASSUME Numbered, NEW r, GoesOn(r), NEW m, NEW m2, NEW c, NEW c2, NEW gone,
         Takes(r, m, m2, c, c2, gone), CompletedOK(c), OpenOK(m, c)
  PROVE  OpenOK(m2, c2)'
<1> DEFINE id == event_identity(r)
           old == Map!Get(m, id)
           ends == id \in Map!Keys(m) /\ Reenters(old, r)
<1>1. c \in Seq([skb : Skb, route : Route]) /\ DOMAIN c = 1..Len(c) /\ Len(c) \in Nat
  BY DEF CompletedOK
<1>2. /\ DOMAIN c \subseteq DOMAIN c2 /\ \A i \in DOMAIN c : c2[i] = c[i]
      /\ \A i \in DOMAIN c2 \ DOMAIN c :
           ends /\ c2[i].skb = id /\ c2[i].route = old
  <2>1. c2 = IF ends THEN Append(c, [skb |-> id, route |-> old]) ELSE c
    BY DEF Takes
  <2> HIDE DEF ends
  <2>2. CASE ends
    <3>1. id \in Map!Keys(m) /\ id \in Skb /\ Opens(old, id)
      BY <2>2, EventFields DEF ends, OpenOK, GoesOn
    <3>2. old \in Route
      BY <3>1 DEF Opens
    <3> HIDE DEF id, old
    <3> QED
      BY <1>1, <2>1, <2>2, <3>1, <3>2
  <2>3. CASE ~ends
    BY <2>1, <2>3
  <2> QED
    BY <2>2, <2>3
<1>3. ASSUME NEW k \in Map!Keys(m2), k # id
      PROVE  /\ Opens(Map!Get(m2, k), k)'
             /\ \A i \in DOMAIN c2 :
                  c2[i].skb = k => c2[i].route.last_seq < Map!Get(m2, k).first_seq
  <2>1. PICK route : route = Map!Get(m2, k)
    OBVIOUS
  <2>2. k \in Map!Keys(m) /\ route = Map!Get(m, k)
    BY <1>3, <2>1 DEF Takes
  <2>3. /\ Opens(route, k)
        /\ \A i \in DOMAIN c : c[i].skb = k => c[i].route.last_seq < route.first_seq
    BY <2>2 DEF OpenOK
  <2>4. Opens(route, k)'
    BY <1>3, <2>3, OpensStill
  <2>5. \A i \in DOMAIN c2 : c2[i].skb = k => i \in DOMAIN c
    BY <1>2, <1>3
  <2> QED
    BY <1>2, <2>1, <2>3, <2>4, <2>5
<1>4. /\ Opens(Map!Get(m2, id), id)'
      /\ \A i \in DOMAIN c2 :
           c2[i].skb = id => c2[i].route.last_seq < Map!Get(m2, id).first_seq
  <2>1. PICK k, route : k = id /\ route = Map!Get(m2, id)
    OBVIOUS
  <2>2. CASE k \in Map!Keys(m) /\ ~ends
    <3>1. PICK o : o = old
      OBVIOUS
    <3>2. /\ Opens(o, k) /\ ~Reenters(o, r) /\ route = observe(o, r)
          /\ \A i \in DOMAIN c : c[i].skb = k => c[i].route.last_seq < o.first_seq
      BY <2>1, <2>2, <3>1 DEF OpenOK, Takes
    <3>3. Opens(observe(o, r), k)'
      BY <2>1, <3>2, OpensMore
    <3>4. route.first_seq = o.first_seq
      <4>1. o \in Route
        BY <3>2 DEF Opens
      <4> QED
        BY <3>2, <4>1 DEF Route, observe
    <3>5. \A i \in DOMAIN c2 : i \in DOMAIN c
      BY <1>2, <2>2
    <3>6. Opens(route, k)'
      BY <3>2, <3>3
    <3> QED
      BY <1>2, <2>1, <3>2, <3>4, <3>5, <3>6
  <2>3. CASE ~ (k \in Map!Keys(m) /\ ~ends)
    <3>1. route = RouteBuilder(r)
      BY <2>1, <2>3 DEF Takes
    <3>2. Opens(RouteBuilder(r), k)'
      BY <2>1, OpensNew
    <3>3. Opens(route, k)' /\ route.first_seq = r.seq
      BY <3>1, <3>2 DEF RouteBuilder
    <3>4. ASSUME NEW i \in DOMAIN c2 PROVE c2[i].route.last_seq < r.seq
      <4>1. CASE i \in DOMAIN c
        <5>1. Tells(c[i].route, c[i].skb)
          BY <4>1 DEF CompletedOK
        <5> QED
          BY <1>2, <4>1, <5>1, CompletedBefore
      <4>2. CASE i \notin DOMAIN c
        <5>1. c2[i].route = old /\ id \in Map!Keys(m)
          BY <1>2, <4>2
        <5>2. Tells(old, id)
          BY <5>1 DEF OpenOK, Opens
        <5>3. old.last_seq < r.seq
          BY <5>2, CompletedBefore
        <5> QED
          BY <5>1, <5>3
      <4> QED
        BY <4>1, <4>2
    <3> QED
      BY <2>1, <3>3, <3>4
  <2> QED
    BY <2>2, <2>3
<1>5. IsMap(m2)
  BY DEF Takes
<1>6. ASSUME NEW k \in Map!Keys(m2)
      PROVE  /\ Opens(Map!Get(m2, k), k)'
             /\ \A i \in DOMAIN c2 :
                  c2[i].skb = k => c2[i].route.last_seq < Map!Get(m2, k).first_seq
  <2>1. CASE k = id
    <3>1. PICK k2 : k2 = id
      OBVIOUS
    <3> QED
      BY <1>4, <2>1
  <2>2. CASE k # id
    BY <1>3, <2>2
  <2> QED
    BY <2>1, <2>2
<1> HIDE DEF id, old, ends
<1> QED
  BY <1>5, <1>6 DEF OpenOK

-----------------------------------------------------------------------------
\* Each eviction leaves events uncovered that were covered, and nothing else
\* does: no route grows over an event that is in none.
LEMMA AccountedStep ==
  ASSUME Numbered, NEW r, GoesOn(r), NEW m, NEW m2, NEW c, NEW c2, NEW gone,
         Takes(r, m, m2, c, c2, gone), CompletedOK(c), OpenOK(m, c), Accounted(m, c)
  PROVE  Accounted(m2, c2)'
<1> DEFINE id == event_identity(r)
           old == Map!Get(m, id)
           ends == id \in Map!Keys(m) /\ Reenters(old, r)
           l == Len(stream) + 1
           G == Missing(m, c)
           G2 == Missing(m2, c2)'
           who(i) == event_identity(stream[i])
<1>1. /\ c \in Seq([skb : Skb, route : Route]) /\ DOMAIN c = 1..Len(c) /\ Len(c) \in Nat
      /\ r.seq \in Nat /\ id \in Skb
      /\ \A i \in At("event") : stream[i].seq \in Nat /\ stream[i].seq < r.seq
  BY EventFields DEF CompletedOK, GoesOn, Numbered
<1>2. /\ DOMAIN c \subseteq DOMAIN c2 /\ \A i \in DOMAIN c : c2[i] = c[i]
      /\ \A i \in DOMAIN c2 \ DOMAIN c :
           ends /\ c2[i].skb = id /\ c2[i].route = old
      /\ ends => \E i \in DOMAIN c2 : c2[i].skb = id /\ c2[i].route = old
  <2>1. c2 = IF ends THEN Append(c, [skb |-> id, route |-> old]) ELSE c
    BY DEF Takes
  <2> HIDE DEF ends
  <2>2. CASE ends
    <3>1. id \in Map!Keys(m) /\ id \in Skb /\ Opens(old, id)
      BY <1>1, <2>2 DEF ends, OpenOK
    <3>2. old \in Route
      BY <3>1 DEF Opens
    <3> HIDE DEF id, old
    <3>3. /\ DOMAIN c2 = DOMAIN c \cup {Len(c) + 1}
          /\ c2[Len(c) + 1] = [skb |-> id, route |-> old]
          /\ \A i \in DOMAIN c : c2[i] = c[i]
      BY <1>1, <2>1, <2>2, <3>1, <3>2
    <3> QED
      BY <2>2, <3>3
  <2>3. CASE ~ends
    BY <2>1, <2>3
  <2> QED
    BY <2>2, <2>3
\* The routes of the map afterwards.
<1>3. /\ Map!Keys(m2) = (Map!Keys(m) \cup {id}) \ gone /\ gone \subseteq Map!Keys(m) \ {id}
      /\ \A k \in Map!Keys(m2) \ {id} : k \in Map!Keys(m) /\ Map!Get(m2, k) = Map!Get(m, k)
      /\ id \in Map!Keys(m2)
  BY DEF Takes
<1>5. id \in Map!Keys(m) /\ ~ends =>
        /\ Map!Get(m2, id).first_seq = old.first_seq
        /\ Map!Get(m2, id).last_seq = r.seq
        /\ old.first_seq \in Nat /\ old.last_seq \in Nat /\ old.last_seq < r.seq
        /\ old.first_seq <= old.last_seq
        /\ \A i \in At("event") : who(i) = id => stream[i].seq <= old.last_seq
  <2> SUFFICES ASSUME id \in Map!Keys(m), ~ends
               PROVE  /\ Map!Get(m2, id).first_seq = old.first_seq
                      /\ Map!Get(m2, id).last_seq = r.seq
                      /\ old.first_seq \in Nat /\ old.last_seq \in Nat /\ old.last_seq < r.seq
                      /\ old.first_seq <= old.last_seq
                      /\ \A i \in At("event") : who(i) = id => stream[i].seq <= old.last_seq
    OBVIOUS
  <2>1. Map!Get(m2, id) = observe(old, r)
    BY DEF Takes
  <2>2. Opens(old, id)
    BY DEF OpenOK
  <2>3. old \in Route /\ Tells(old, id)
    BY <2>2 DEF Opens
  <2>4. /\ observe(old, r).first_seq = old.first_seq
        /\ observe(old, r).last_seq = r.seq
    BY <2>3 DEF Route, observe
  <2>5. old.last_seq < r.seq
    BY <2>3, CompletedBefore
  <2>6. old.first_seq \in Nat /\ old.last_seq \in Nat /\ old.first_seq <= old.last_seq
    BY <2>3, TellsSpan
  <2> QED
    BY <2>1, <2>2, <2>4, <2>5, <2>6 DEF Opens
<1>6. ~ (id \in Map!Keys(m) /\ ~ends) =>
        Map!Get(m2, id).first_seq = r.seq /\ Map!Get(m2, id).last_seq = r.seq
  BY DEF Takes, RouteBuilder
<1> HIDE DEF ends, old, id, who, l
\* No event is covered that was not.
<1>7. ASSUME NEW i \in At("event"), InRoute(m2, c2, who(i), stream[i].seq)
      PROVE  InRoute(m, c, who(i), stream[i].seq)
  <2> DEFINE seq == stream[i].seq
  <2>1. ASSUME NEW j \in DOMAIN c2, c2[j].skb = who(i),
               seq \in c2[j].route.first_seq..c2[j].route.last_seq
        PROVE  InRoute(m, c, who(i), seq)
    <3>1. CASE j \in DOMAIN c
      BY <1>2, <2>1, <3>1 DEF InRoute
    <3>2. CASE j \notin DOMAIN c
      <4>1. ends /\ c2[j].skb = id /\ c2[j].route = old
        BY <1>2, <3>2
      <4> QED
        BY <2>1, <4>1 DEF ends, old, InRoute
    <3> QED
      BY <3>1, <3>2
  <2>2. ASSUME who(i) \in Map!Keys(m2),
               seq \in Map!Get(m2, who(i)).first_seq..Map!Get(m2, who(i)).last_seq
        PROVE  InRoute(m, c, who(i), seq)
    <3>1. CASE who(i) # id
      BY <1>3, <2>2, <3>1 DEF InRoute
    <3>2. CASE who(i) = id /\ id \in Map!Keys(m) /\ ~ends
      <4>1. seq \in old.first_seq..r.seq /\ seq <= old.last_seq
        BY <1>5, <2>2, <3>2
      <4>2. seq \in old.first_seq..old.last_seq
        BY <1>1, <1>5, <3>2, <4>1
      <4> QED
        BY <3>2, <4>2 DEF old, InRoute
    <3>3. CASE who(i) = id /\ ~ (id \in Map!Keys(m) /\ ~ends)
      <4>1. seq \in r.seq..r.seq /\ seq < r.seq /\ seq \in Nat
        BY <1>1, <1>6, <2>2, <3>3
      <4> QED
        BY <1>1, <4>1
    <3> QED
      BY <3>1, <3>2, <3>3
  <2> QED
    BY <1>7, <2>1, <2>2 DEF InRoute
\* The new one is.
<1>8. InRoute(m2, c2, id, r.seq)
  <2>1. r.seq \in Map!Get(m2, id).first_seq..Map!Get(m2, id).last_seq
    BY <1>1, <1>5, <1>6
  <2> QED
    BY <1>3, <2>1 DEF InRoute
\* What is not evicted still covers its events.
<1>9. ASSUME NEW i \in At("event"), InRoute(m, c, who(i), stream[i].seq), who(i) \notin gone
      PROVE  InRoute(m2, c2, who(i), stream[i].seq)
  <2> DEFINE seq == stream[i].seq
  <2>1. ASSUME NEW j \in DOMAIN c, c[j].skb = who(i),
               seq \in c[j].route.first_seq..c[j].route.last_seq
        PROVE  InRoute(m2, c2, who(i), seq)
    BY <1>2, <2>1 DEF InRoute
  <2>2. ASSUME who(i) \in Map!Keys(m),
               seq \in Map!Get(m, who(i)).first_seq..Map!Get(m, who(i)).last_seq
        PROVE  InRoute(m2, c2, who(i), seq)
    <3>0. who(i) \in Map!Keys(m2)
      BY <1>3, <1>9, <2>2
    <3>1. CASE who(i) # id
      BY <1>3, <2>2, <3>0, <3>1 DEF InRoute
    <3>2. CASE who(i) = id /\ ~ends
      <4>1. seq \in Map!Get(m2, id).first_seq..Map!Get(m2, id).last_seq
        BY <1>1, <1>5, <2>2, <3>2 DEF old
      <4> QED
        BY <3>0, <3>2, <4>1 DEF InRoute
    <3>3. CASE who(i) = id /\ ends
      BY <1>2, <2>2, <3>3 DEF InRoute, old
    <3> QED
      BY <3>1, <3>2, <3>3
  <2> QED
    BY <1>9, <2>1, <2>2 DEF InRoute
\* An eviction uncovers the first event of the evicted route.
<1>10. \A x \in gone : \E i \in At("event") :
         /\ who(i) = x
         /\ InRoute(m, c, x, stream[i].seq)
         /\ ~InRoute(m2, c2, x, stream[i].seq)
  <2> SUFFICES ASSUME NEW x \in gone
               PROVE  \E i \in At("event") : /\ who(i) = x
                                             /\ InRoute(m, c, x, stream[i].seq)
                                             /\ ~InRoute(m2, c2, x, stream[i].seq)
    OBVIOUS
  <2>1. PICK route : route = Map!Get(m, x)
    OBVIOUS
  <2>2. /\ x \in Map!Keys(m) /\ x # id /\ x \notin Map!Keys(m2) /\ Tells(route, x)
        /\ \A j \in DOMAIN c : c[j].skb = x => c[j].route.last_seq < route.first_seq
    BY <1>3, <2>1 DEF OpenOK, Opens
  <2>3. /\ route.first_seq \in Nat /\ route.last_seq \in Nat
        /\ route.first_seq <= route.last_seq
    BY <2>2, TellsSpan
  <2>4. PICK i \in At("event") : who(i) = x /\ stream[i].seq = route.first_seq
    BY <2>2, TellsSpan DEF who
  <2>5. InRoute(m, c, x, stream[i].seq)
    BY <2>1, <2>2, <2>3, <2>4 DEF InRoute
  <2>6. ASSUME NEW j \in DOMAIN c2, c2[j].skb = x
        PROVE  stream[i].seq \notin c2[j].route.first_seq..c2[j].route.last_seq
    <3>1. j \in DOMAIN c /\ c2[j] = c[j]
      BY <1>2, <2>2, <2>6
    <3>2. Tells(c[j].route, c[j].skb)
      BY <3>1 DEF CompletedOK
    <3>3. c[j].route.last_seq \in Nat
      BY <3>2, TellsSpan
    <3>4. c[j].route.last_seq < route.first_seq
      BY <2>2, <2>6, <3>1
    <3> QED
      BY <2>3, <2>4, <3>1, <3>3, <3>4
  <2>7. ~InRoute(m2, c2, x, stream[i].seq)
    BY <2>2, <2>6 DEF InRoute
  <2> QED
    BY <2>4, <2>5, <2>7
\* So the events in none, before and after.
<1>11. /\ At("event")' = At("event") \cup {l} /\ l \notin At("event")
       /\ stream'[l] = r /\ \A i \in At("event") : stream'[i] = stream[i]
  BY DEF GoesOn, Numbered, l
<1>12. G2 = {i \in At("event") \cup {l} :
               ~InRoute(m2, c2, event_identity(stream'[i]), stream'[i].seq)}
  BY <1>11 DEF Missing
<1>13. G2 = {i \in At("event") : ~InRoute(m2, c2, who(i), stream[i].seq)}
  BY <1>8, <1>11, <1>12 DEF who, id
<1>14. G = {i \in At("event") : ~InRoute(m, c, who(i), stream[i].seq)}
  BY DEF Missing, who
<1> HIDE DEF G, G2
<1>15. G \subseteq G2 /\ IsFiniteSet(G2) /\ IsFiniteSet(G)
  <2>1. G2 \subseteq At("event") /\ G \subseteq G2
    BY <1>7, <1>13, <1>14
  <2> QED
    BY <2>1, FS_Subset DEF Numbered
<1>16. /\ Cardinality(G) \in Nat /\ Cardinality(G2) \in Nat /\ Cardinality(gone) \in Nat
       /\ Cardinality(G) + Cardinality(gone) <= Cardinality(G2)
       /\ IsFiniteSet(gone)
  <2> DEFINE f == [x \in gone |-> CHOOSE i \in At("event") :
                     /\ who(i) = x
                     /\ InRoute(m, c, x, stream[i].seq)
                     /\ ~InRoute(m2, c2, x, stream[i].seq)]
  <2>1. \A x \in gone : /\ f[x] \in At("event") /\ who(f[x]) = x
                        /\ InRoute(m, c, x, stream[f[x]].seq)
                        /\ ~InRoute(m2, c2, x, stream[f[x]].seq)
    BY <1>10
  <2>2. \A x \in gone : f[x] \in G2 \ G
    BY <1>13, <1>14, <2>1
  <2>3. f \in Injection(gone, G2 \ G)
    <3>1. f \in [gone -> G2 \ G]
      BY <2>2
    <3>2. \A x, y \in gone : f[x] = f[y] => x = y
      BY <2>1
    <3> HIDE DEF f
    <3> QED
      BY <3>1, <3>2 DEF Injection, IsInjective
  <2>4. /\ IsFiniteSet(G2 \ G)
        /\ Cardinality(G2 \ G) = Cardinality(G2) - Cardinality(G2 \cap G)
    BY <1>15, FS_Difference
  <2>5. G2 \cap G = G
    BY <1>15
  <2>6. IsFiniteSet(gone) /\ Cardinality(gone) <= Cardinality(G2 \ G)
    BY <2>3, <2>4, FS_Injection
  <2>7. /\ Cardinality(G) \in Nat /\ Cardinality(G2) \in Nat /\ Cardinality(gone) \in Nat
        /\ Cardinality(G2 \ G) \in Nat
    BY <1>15, <2>4, <2>6, FS_CardinalityType
  <2> HIDE DEF f
  <2> QED
    BY <2>4, <2>5, <2>6, <2>7
<1>17. m2.evictions = m.evictions + Cardinality(gone) /\ m.evictions \in Nat
  BY DEF Takes, OpenOK, IsMap
<1>18. m.evictions <= Cardinality(G) /\ (m.evictions = 0 => G = {})
  BY DEF Accounted, G
<1>19. m2.evictions <= Cardinality(G2)
  BY <1>16, <1>17, <1>18
<1>20. m2.evictions = 0 => G2 = {}
  <2> SUFFICES ASSUME m2.evictions = 0 PROVE G2 = {}
    OBVIOUS
  <2>1. m.evictions = 0 /\ Cardinality(gone) = 0
    BY <1>16, <1>17
  <2>2. G = {} /\ gone = {}
    BY <1>16, <1>18, <2>1, FS_EmptySet
  <2> QED
    BY <1>9, <1>13, <1>14, <2>2
<1> QED
  BY <1>19, <1>20 DEF Accounted, G2

-----------------------------------------------------------------------------
\* The events read so far are numbered up to the one that is due.
LEMMA GoodNumbered ==
  ASSUME ReaderOK, Good, reader.start # None
  PROVE  /\ Numbered /\ NextSeq \in Nat
         /\ \A i \in At("event") : stream[i].seq < NextSeq
<1> DEFINE n == reader.observed_events
           base == first_seq(reader.start)
<1>1. /\ reader.start \in StartRecord /\ n \in Nat /\ base \in Nat
      /\ At("event") = 2..n + 1 /\ stream \in Seq(Record) /\ Len(stream) \in Nat
      /\ Len(stream) >= n + 1
  <2>1. reader.start \in StartRecord /\ n \in Nat /\ At("event") = 2..n + 1
    BY GoodSets
  <2>2. stream \in Seq(Record) /\ Len(stream) = n + (IF reader.end = None THEN 1 ELSE 2)
    BY DEF ReaderOK, Good
  <2> QED
    BY <2>1, <2>2, RecordTypes
<1>2. \A i \in 2..n + 1 : stream[i].seq = base + i - 2 /\ stream[i].type = "event"
  BY DEF Good, EventAgrees
<1>3. NextSeq = base + n
  BY DEF NextSeq
<1> HIDE DEF n, base
<1>4. At("event") \subseteq 1..Len(stream)
  BY <1>1
<1>5. IsFiniteSet(At("event"))
  BY <1>1, FS_Interval
<1>6. \A i \in At("event") : stream[i] \in EventRecord
  <2> SUFFICES ASSUME NEW i \in At("event") PROVE stream[i] \in EventRecord
    OBVIOUS
  <2>1. stream[i] \in Record /\ stream[i].type = "event"
    BY <1>1, <1>2, <1>4
  <2> QED
    BY <2>1, RecordTypes DEF Record
<1>7. \A i, j \in At("event") : i < j => stream[i].seq < stream[j].seq
  BY <1>1, <1>2
<1>8. \A i \in At("event") : stream[i].seq < NextSeq
  BY <1>1, <1>2, <1>3
<1> QED
  BY <1>1, <1>3, <1>4, <1>5, <1>6, <1>7, <1>8 DEF Numbered

\* An event that is not rejected is the one that is due, and its route is kept.
LEMMA EventTaken ==
  ASSUME ReadInv, NEW r \in EventRecord, Read(r), reader'.status # "rejected",
         NEW m, m = reader.routes, NEW c, c = reader.completed_routes
  PROVE  LET id == event_identity(r)
             ends == id \in Map!Keys(m) /\ Reenters(Map!Get(m, id), r)
         IN /\ reader.start # None /\ reader.status = "reading" /\ reader'.start = reader.start
            /\ Numbered /\ GoesOn(r)
            /\ reader'.routes =
                 Map!Insert(Map!Remove(m, id), id,
                            IF id \in Map!Keys(m) /\ ~ends THEN observe(Map!Get(m, id), r)
                            ELSE RouteBuilder(r))
            /\ reader'.completed_routes =
                 IF ends THEN Append(c, [skb |-> id, route |-> Map!Get(m, id)]) ELSE c
<1> DEFINE q == [reader EXCEPT !.observed_events = @ + 1]
<1>0. /\ ReaderOK /\ Good /\ reader.status = "reading" /\ stream' = Append(stream, r)
      /\ r \in Record /\ r.type = "event" /\ DOMAIN reader = Fields
      /\ stream \in Seq(Record) /\ reader' = ReadEvent(reader, r)
  BY RecordTypes DEF ReadInv, Read, Record, ReaderOK, ReadRecord
<1>1. /\ reader' = RouteEvent(q, r) /\ reader.start # None
      /\ r.seq = NextSeq
  <2>1. Reject(reader).status = "rejected"
    BY <1>0 DEF Reject, Fields
  <2>2. reader' # Reject(reader)
    BY <2>1
  <2> QED
    BY <1>0, <2>2 DEF ReadEvent, NextSeq
<1>2. /\ DOMAIN q = Fields /\ q.start = reader.start
      /\ q.routes = m /\ q.completed_routes = c
  BY <1>0 DEF Fields
<1> HIDE DEF q
<1>3. Numbered /\ \A i \in At("event") : stream[i].seq < NextSeq
  BY <1>0, <1>1, GoodNumbered
<1>4. GoesOn(r)
  <2>1. /\ stream'[Len(stream) + 1] = r
        /\ \A i \in 1..Len(stream) : stream'[i] = stream[i]
        /\ At("event")' = At("event") \cup {Len(stream) + 1}
    BY <1>0, AtAppended
  <2> QED
    BY <1>1, <1>3, <2>1 DEF GoesOn, Numbered
<1>5. reader'.start = reader.start
  BY <1>1, <1>2, RoutesAside
<1> DEFINE id == event_identity(r)
           open == id \in Map!Keys(m)
           ends == open /\ Reenters(Map!Get(m, id), r)
           route == IF open /\ ~ends THEN observe(Map!Get(m, id), r) ELSE RouteBuilder(r)
<1>6. RouteEvent(q, r) =
        [q EXCEPT !.routes = Map!Insert(Map!Remove(m, id), id, route),
                  !.completed_routes =
                     IF ends THEN Append(c, [skb |-> id, route |-> Map!Get(m, id)]) ELSE c]
  BY <1>2 DEF RouteEvent
<1> HIDE DEF id, open, ends, route
<1>7. /\ reader'.routes = Map!Insert(Map!Remove(m, id), id, route)
      /\ reader'.completed_routes =
           IF ends THEN Append(c, [skb |-> id, route |-> Map!Get(m, id)]) ELSE c
  BY <1>1, <1>2, <1>6 DEF Fields
<1> QED
  BY <1>0, <1>1, <1>3, <1>4, <1>5, <1>7 DEF id, open, ends, route

\* Reading an event keeps the routes true and accounted for.
LEMMA EventRoutes ==
  ASSUME ReadInv, RoutesInv, NEW r \in EventRecord, Read(r)
  PROVE  RoutesInv'
<1> SUFFICES ASSUME reader'.status # "rejected" PROVE RoutesInv'
  BY DEF RoutesInv
<1>1. PICK m, c, m2, c2 : /\ m = reader.routes /\ c = reader.completed_routes
                          /\ m2 = reader'.routes /\ c2 = reader'.completed_routes
  OBVIOUS
<1> DEFINE id == event_identity(r)
           ends == id \in Map!Keys(m) /\ Reenters(Map!Get(m, id), r)
           route == IF id \in Map!Keys(m) /\ ~ends THEN observe(Map!Get(m, id), r)
                    ELSE RouteBuilder(r)
<1>2. /\ reader.start # None /\ reader.status = "reading" /\ reader'.start = reader.start
      /\ Numbered /\ GoesOn(r)
      /\ m2 = Map!Insert(Map!Remove(m, id), id, route)
      /\ c2 = IF ends THEN Append(c, [skb |-> id, route |-> Map!Get(m, id)]) ELSE c
  BY <1>1, EventTaken
<1>3. CompletedOK(c) /\ OpenOK(m, c) /\ Accounted(m, c)
  BY <1>1, <1>2 DEF RoutesInv
<1>4. PICK gone \in SUBSET (Map!Keys(m) \ {id}) :
        /\ IsMap(m2)
        /\ Map!Keys(m2) = (Map!Keys(m) \cup {id}) \ gone
        /\ Map!Get(m2, id) = route
        /\ \A k \in Map!Keys(m2) \ {id} : Map!Get(m2, k) = Map!Get(m, k)
        /\ m2.evictions = m.evictions + Cardinality(gone)
  <2>1. IsMap(m) /\ id \in Skb
    BY <1>3, EventFields DEF OpenOK
  <2> HIDE DEF id, route, ends
  <2> QED
    BY <1>2, <2>1, InsertEffect
<1>5. Takes(r, m, m2, c, c2, gone)
  BY <1>2, <1>4 DEF Takes
<1>6. CompletedOK(c2)' /\ OpenOK(m2, c2)' /\ Accounted(m2, c2)'
  BY <1>2, <1>3, <1>5, CompletedStep, OpenStep, AccountedStep
<1> QED
  BY <1>1, <1>2, <1>6 DEF RoutesInv

\* A step that reads no event leaves the events as they are.
Keeps ==
  /\ At("event")' = At("event")
  /\ \A i \in At("event") : stream'[i] = stream[i]

\* Then the routes stay true and accounted for, if the reader keeps them.
LEMMA KeptRoutes ==
  ASSUME RoutesInv, Keeps, reader.status # "rejected", reader'.start = reader.start,
         reader'.routes = reader.routes, reader'.completed_routes = reader.completed_routes
  PROVE  RoutesInv'
<1>1. ASSUME NEW id, NEW from, NEW to
      PROVE  /\ EventsOf(id, from, to)' = EventsOf(id, from, to)
             /\ \A i \in EventsOf(id, from, to) : stream'[i] = stream[i]
  BY DEF EventsOf, Keeps
<1>2. ASSUME NEW route, NEW id, Tells(route, id) PROVE Tells(route, id)'
  <2> DEFINE E == EventsOf(id, route.first_seq, route.last_seq)
  <2>1. PICK first, last \in E :
          /\ stream[first].seq = route.first_seq
          /\ stream[last].seq = route.last_seq
          /\ Len(route.functions) =
               IF Cardinality(E) > MAX_ROUTE_HOPS THEN MAX_ROUTE_HOPS ELSE Cardinality(E)
          /\ \A i \in E : Hop(E, i) <= MAX_ROUTE_HOPS =>
               route.functions[Hop(E, i)] = stream[i].function
          /\ route.truncated <=> Cardinality(E) > MAX_ROUTE_HOPS
          /\ \A i \in E \ {first} :
               ~ (/\ stream[i].function = stream[first].function
                  /\ stream[i].skb = stream[first].skb
                  /\ stream[i].match_origin = "filter")
    BY <1>2, Zenon DEF Tells
  <2>2. EventsOf(id, route.first_seq, route.last_seq)' = E
        /\ \A i \in E : stream'[i] = stream[i]
    BY <1>1
  <2> HIDE DEF E
  <2>3. /\ stream'[first].seq = route.first_seq
        /\ stream'[last].seq = route.last_seq
        /\ \A i \in E : Hop(E, i) <= MAX_ROUTE_HOPS =>
             route.functions[Hop(E, i)] = stream'[i].function
        /\ \A i \in E \ {first} :
             ~ (/\ stream'[i].function = stream'[first].function
                /\ stream'[i].skb = stream'[first].skb
                /\ stream'[i].match_origin = "filter")
    BY <2>1, <2>2
  <2> QED
    BY <2>1, <2>2, <2>3, TellsNext
<1>3. ASSUME NEW route, NEW id, Opens(route, id) PROVE Opens(route, id)'
  <2>1. Tells(route, id)'
    BY <1>2, <1>3 DEF Opens
  <2>2. Begins(route, id)'
    BY <1>1, <1>3 DEF Opens, Begins
  <2> QED
    BY <1>3, <2>1, <2>2 DEF Opens, Keeps
<1>4. CASE reader.start = None
  BY <1>4 DEF RoutesInv
<1>5. CASE reader.start # None
  <2>1. PICK m, c : m = reader.routes /\ c = reader.completed_routes
    OBVIOUS
  <2>2. CompletedOK(c) /\ OpenOK(m, c) /\ Accounted(m, c)
    BY <1>5, <2>1 DEF RoutesInv
  <2>3. CompletedOK(c)'
    <3>1. ASSUME NEW i \in DOMAIN c PROVE Tells(c[i].route, c[i].skb)'
      <4>1. PICK route, id : route = c[i].route /\ id = c[i].skb
        OBVIOUS
      <4>2. Tells(route, id)
        BY <2>2, <4>1 DEF CompletedOK
      <4>3. Tells(route, id)'
        BY <1>2, <4>2
      <4> QED
        BY <4>1, <4>3
    <3> QED
      BY <2>2, <3>1 DEF CompletedOK
  <2>4. OpenOK(m, c)'
    <3>1. ASSUME NEW id \in Map!Keys(m) PROVE Opens(Map!Get(m, id), id)'
      <4>1. PICK route : route = Map!Get(m, id)
        OBVIOUS
      <4>2. Opens(route, id)
        BY <2>2, <4>1 DEF OpenOK
      <4>3. Opens(route, id)'
        BY <1>3, <4>2
      <4> QED
        BY <4>1, <4>3
    <3> QED
      BY <2>2, <3>1 DEF OpenOK
  <2>5. Missing(m, c)' = Missing(m, c)
    BY DEF Missing, Keeps
  <2>6. Accounted(m, c)'
    BY <2>2, <2>5 DEF Accounted
  <2> QED
    BY <1>5, <2>1, <2>3, <2>4, <2>6 DEF RoutesInv
<1> QED
  BY <1>4, <1>5

\* With the header there is an empty map, and no event yet.
LEMMA StartRoutes ==
  ASSUME ReadInv, RoutesInv, NEW r \in StartRecord, Read(r)
  PROVE  RoutesInv'
<1>0. /\ ReaderOK /\ Good /\ reader.status = "reading" /\ stream' = Append(stream, r)
      /\ r \in Record /\ r.type = "capture_start" /\ r # None
      /\ DOMAIN reader = Fields /\ reader' = ReadStart(reader, r)
      /\ r.route_cache_entries \in Nat
  BY RecordTypes DEF ReadInv, Read, Record, ReaderOK, ReadRecord, StartRecord
<1>1. CASE reader.start # None
  <2>1. reader'.status = "rejected"
    BY <1>0, <1>1, Rejecting DEF ReadStart
  <2> QED
    BY <2>1 DEF RoutesInv
<1>2. CASE reader.start = None
  <2>1. PICK cap : cap = route_capacity(r)
    OBVIOUS
  <2>2. cap \in Nat \ {0}
    BY <1>0, <2>1, ReplayAssumption DEF route_capacity
  <2>3. PICK m : m = Map!New(cap)
    OBVIOUS
  <2>4. reader' = [reader EXCEPT !.start = r, !.routes = m]
    BY <1>0, <1>2, <2>1, <2>3 DEF ReadStart
  <2>5. reader'.start = r /\ reader'.routes = m /\ reader'.completed_routes = <<>>
    BY <1>0, <1>2, <2>4 DEF Fields, RoutesInv
  <2>6. At("event")' = {}
    <3>1. stream = <<>>
      BY <1>0, <1>2 DEF Good
    <3>2. At("event") = {}
      BY <3>1 DEF At
    <3> QED
      BY <1>0, <3>2, AtAppended DEF ReaderOK
  <2>7. IsMap(m) /\ Map!Keys(m) = {} /\ m.evictions = 0
    <3>1. /\ DOMAIN m = MapFields /\ m.capacity = cap /\ m.generation = 0 /\ m.evictions = 0
          /\ Map!Keys(m) = {}
      BY <2>3 DEF Map!New, MapFields, Map!Keys
    <3> QED
      BY <2>2, <3>1, FS_EmptySet DEF IsMap
  <2>c. PICK c : c = <<>>
    OBVIOUS
  <2>8. CompletedOK(c)' /\ OpenOK(m, c)'
    BY <2>c, <2>7 DEF CompletedOK, OpenOK
  <2>9. Accounted(m, c)'
    <3>1. Missing(m, c)' = {}
      BY <2>6 DEF Missing
    <3>2. Cardinality({}) = 0
      BY FS_EmptySet
    <3> QED
      BY <2>7, <3>1, <3>2 DEF Accounted
  <2> QED
    BY <1>0, <2>c, <2>5, <2>8, <2>9 DEF RoutesInv
<1> QED
  BY <1>1, <1>2

\* Each step keeps the routes true and accounted for.
LEMMA RoutesStep == ReadInv /\ RoutesInv /\ [Next]_vars => RoutesInv'
<1> SUFFICES ASSUME ReadInv, RoutesInv, [Next]_vars PROVE RoutesInv'
  OBVIOUS
<1>0. /\ ReaderOK /\ DOMAIN reader = Fields /\ stream \in Seq(Record)
      /\ Records \subseteq Record
  BY RecordsAreRecords DEF ReadInv, ReaderOK
<1>1. ASSUME NEW r \in Record, r.type # "event", Read(r) PROVE Keeps
  <2>0. stream' = Append(stream, r)
    BY <1>1 DEF Read
  <2>1. /\ \A i \in 1..Len(stream) : stream'[i] = stream[i]
        /\ \A t : At(t)' = At(t) \cup (IF r.type = t THEN {Len(stream) + 1} ELSE {})
    BY <1>0, <2>0, AtAppended
  <2>2. At("event") \subseteq 1..Len(stream)
    BY <1>0 DEF At
  <2> QED
    BY <1>1, <2>1, <2>2 DEF Keeps
<1>2. CASE EndOfFile
  <2>1. Keeps /\ reader.status # "rejected"
    BY <1>2 DEF EndOfFile, Keeps, At
  <2>2. /\ reader'.start = reader.start /\ reader'.routes = reader.routes
        /\ reader'.completed_routes = reader.completed_routes
    BY <1>0, <1>2 DEF EndOfFile, Conclude, Reject, Fields
  <2> QED
    BY <2>1, <2>2, KeptRoutes
<1>3. ASSUME NEW r \in EndRecord, Read(r) PROVE RoutesInv'
  <2>1. Keeps /\ reader.status # "rejected" /\ reader' = ReadEnd(reader, r)
    BY <1>1, <1>3, RecordTypes DEF Record, Read, ReadRecord
  <2>2. /\ reader'.start = reader.start /\ reader'.routes = reader.routes
        /\ reader'.completed_routes = reader.completed_routes
    BY <1>0, <2>1 DEF ReadEnd, Reject, Fields
  <2> QED
    BY <2>1, <2>2, KeptRoutes
<1>4. ASSUME Read(Malformed) PROVE RoutesInv'
  <2>1. reader' = Reject(reader)
    BY <1>4, RecordTypes DEF Read, ReadRecord
  <2>2. reader'.status = "rejected"
    BY <1>0, <2>1, Rejecting
  <2> QED
    BY <2>2 DEF RoutesInv
<1>5. CASE UNCHANGED vars
  <2>1. Keeps /\ reader' = reader
    BY <1>5 DEF vars, Keeps, At
  <2>2. CASE reader.status = "rejected"
    BY <2>1, <2>2 DEF RoutesInv
  <2>3. CASE reader.status # "rejected"
    BY <2>1, <2>3, KeptRoutes
  <2> QED
    BY <2>2, <2>3
<1>6. ASSUME NEW r \in Records, Read(r) PROVE RoutesInv'
  <2>1. r \in Record
    BY <1>0
  <2> QED
    BY <1>3, <1>4, <1>6, <2>1, StartRoutes, EventRoutes DEF Record
<1> QED
  BY <1>2, <1>5, <1>6 DEF Next

\* At the start there are no routes.
LEMMA RoutesInit == Init => RoutesInv
BY DEF Init, NewReader, RoutesInv

\* So they are throughout.
LEMMA RoutesInvariance == Spec => []RoutesInv
BY RoutesInit, RoutesStep, ReadInvariance, PTL DEF Spec

\* What the reader's variables hold are the routes of RoutesInv.
LEMMA RoutesHeld ==
  ASSUME reader.start # None, NEW m, m = reader.routes, NEW c, c = reader.completed_routes,
         NEW id
  PROVE  /\ \A route : route \in RoutesOf(id) <=>
              \/ \E i \in DOMAIN c : c[i].skb = id /\ route = c[i].route
              \/ id \in Map!Keys(m) /\ route = Map!Get(m, id)
         /\ \A seq : Covers(id, seq) <=> InRoute(m, c, id, seq)
<1>1. ASSUME NEW route
      PROVE  route \in RoutesOf(id) <=>
               \/ \E i \in DOMAIN c : c[i].skb = id /\ route = c[i].route
               \/ id \in Map!Keys(m) /\ route = Map!Get(m, id)
  BY DEF RoutesOf, Completed, IsOpen
<1>2. ASSUME NEW seq PROVE Covers(id, seq) <=> InRoute(m, c, id, seq)
  BY <1>1 DEF Covers, InRoute
<1> QED
  BY <1>1, <1>2

\* Whatever is read, in a map of any capacity, each route tells what happened to
\* its packet, and those of a packet do not overlap (RoutesTellWhatHappened).
THEOREM RoutesAreTrue == Spec => []RoutesTellWhatHappened
<1>1. RoutesInv => RoutesTellWhatHappened
  <2> SUFFICES ASSUME RoutesInv, reader.status # "rejected", NEW id \in Skb
               PROVE  LET route(i) == reader.completed_routes[i].route
                      IN /\ \A r \in RoutesOf(id) : Tells(r, id)
                         /\ \A i, j \in Completed(id) :
                              i < j => route(i).last_seq < route(j).first_seq
                         /\ IsOpen(id) => \A i \in Completed(id) :
                              route(i).last_seq < Map!Get(reader.routes, id).first_seq
    BY DEF RoutesTellWhatHappened
  <2>1. PICK m, c : m = reader.routes /\ c = reader.completed_routes
    OBVIOUS
  <2>2. CASE reader.start = None
    <3>1. DOMAIN c = {}
      BY <2>1, <2>2 DEF RoutesInv
    <3> QED
      BY <2>1, <2>2, <3>1 DEF RoutesOf, Completed, IsOpen
  <2>3. CASE reader.start # None
    <3>1. CompletedOK(c) /\ OpenOK(m, c)
      BY <2>1, <2>3 DEF RoutesInv
    <3>2. ASSUME NEW r \in RoutesOf(id) PROVE Tells(r, id)
      <4>1. \/ \E i \in DOMAIN c : c[i].skb = id /\ r = c[i].route
            \/ id \in Map!Keys(m) /\ r = Map!Get(m, id)
        BY <2>1, <2>3, RoutesHeld
      <4>2. ASSUME NEW i \in DOMAIN c, c[i].skb = id, r = c[i].route PROVE Tells(r, id)
        BY <3>1, <4>2 DEF CompletedOK
      <4>3. ASSUME id \in Map!Keys(m), r = Map!Get(m, id) PROVE Tells(r, id)
        <5>1. Opens(Map!Get(m, id), id)
          BY <3>1, <4>3 DEF OpenOK
        <5> QED
          BY <4>3, <5>1 DEF Opens
      <4> QED
        BY <4>1, <4>2, <4>3
    <3>3. /\ \A i, j \in Completed(id) : i < j => c[i].route.last_seq < c[j].route.first_seq
          /\ IsOpen(id) => \A i \in Completed(id) : c[i].route.last_seq < Map!Get(m, id).first_seq
      BY <2>1, <3>1 DEF CompletedOK, OpenOK, Completed, IsOpen
    <3> QED
      BY <2>1, <3>2, <3>3
  <2> QED
    BY <2>2, <2>3
<1> QED
  BY <1>1, RoutesInvariance, PTL

\* And its count of evictions is zero exactly when every event is in a route, and
\* never more than the events that are in none (EvictionsAccountForGaps).
THEOREM GapsAreAccountedFor == Spec => []EvictionsAccountForGaps
<1>1. ReadInv /\ RoutesInv => EvictionsAccountForGaps
  <2> SUFFICES ASSUME ReadInv, RoutesInv, reader.status # "rejected", reader.start # None
               PROVE  /\ reader.routes.evictions = 0 <=> Gaps = {}
                      /\ reader.routes.evictions <= Cardinality(Gaps)
    BY DEF EvictionsAccountForGaps
  <2>1. PICK m, c : m = reader.routes /\ c = reader.completed_routes
    OBVIOUS
  <2>2. OpenOK(m, c) /\ Accounted(m, c)
    BY <2>1 DEF RoutesInv
  <2>3. Gaps = Missing(m, c)
    <3>1. \A id, seq : Covers(id, seq) <=> InRoute(m, c, id, seq)
      BY <2>1, RoutesHeld
    <3> QED
      BY <3>1 DEF Gaps, Missing
  <2>4. Gaps = {} => Cardinality(Gaps) = 0
    BY FS_EmptySet
  <2>5. m.evictions \in Nat
    BY <2>2 DEF OpenOK, IsMap
  <2> QED
    BY <2>1, <2>2, <2>3, <2>4, <2>5 DEF Accounted
<1> QED
  BY <1>1, RoutesInvariance, ReadInvariance, PTL
=============================================================================
