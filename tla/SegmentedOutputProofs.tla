------------------------ MODULE SegmentedOutputProofs ------------------------
(***************************************************************************)
(* For every budget and every size of envelope.  RoomInv: while a segment  *)
(* has no footer there is room for one of the reserved size, and the       *)
(* writer's count of events follows the capture's.  TileInv: the files     *)
(* under the path continue each other.  FileInv: each is the beginning of  *)
(* a segment, and the rotated ones are all of it; replay, unfolded into    *)
(* one pass over the records, reads them as what they are.                 *)
(***************************************************************************)
EXTENDS SegmentedOutput, WellFoundedInduction, TLAPS

\* What the bytes counted and the phase have to do with each other: room for the
\* footer while it is due, room for the header, event and footer that follow a
\* rotation, and the numbers the next header and event carry.
RoomInv ==
  /\ current_bytes \in Nat
  /\ seq \in Nat /\ segment_first_seq \in Nat /\ segment_events \in Nat
  /\ pending = None \/ pending \in [event : EventBytes, header : HeaderBytes]
  /\ phase \in {"open", "rotation_footer"} => current_bytes + FOOTER_RESERVE_BYTES <= max_bytes
  /\ phase \in {"rotation_footer", "rotation_flush", "rotate", "next"} =>
       /\ pending \in [event : EventBytes, header : HeaderBytes]
       /\ pending.header + pending.event + FOOTER_RESERVE_BYTES <= max_bytes
  /\ phase = "next" => current_bytes = 0 /\ segment_events = 0
  /\ phase \in {"open", "rotation_footer", "rotation_flush", "rotate", "next"} => Expected

\* The sizes are naturals.
LEMMA Sizes ==
  /\ max_bytes \in Nat /\ FOOTER_RESERVE_BYTES \in Nat
  /\ HeaderBytes \subseteq Nat /\ EventBytes \subseteq Nat /\ FooterBytes \subseteq Nat
BY OutputAssumption

\* An output that was just opened leaves room for a footer.
LEMMA InitRoom == Init => RoomInv
BY DEF Init, RoomInv, Expected

\* A failure changes none of the counters.
LEMMA FailRoom ==
  ASSUME RoomInv, NEW why, Fail(why)
  PROVE  RoomInv'
BY DEF RoomInv, Fail, counters, Expected

\* Each step keeps the invariant.
LEMMA Inductive == RoomInv /\ [Next]_vars => RoomInv'
<1> SUFFICES ASSUME RoomInv, [Next]_vars PROVE RoomInv'
  OBVIOUS
<1>1. CASE UNCHANGED vars
  BY <1>1 DEF RoomInv, vars, counters, Expected
<1>2. CASE New
  BY <1>2, Sizes DEF RoomInv, New, Expected
<1>3. ASSUME NEW bytes \in EventBytes, WriteEvent(bytes) PROVE RoomInv'
  BY <1>3, Sizes DEF RoomInv, WriteEvent, write_bytes, Fits, Expected
<1>4. ASSUME NEW bytes \in EventBytes, StartRotation(bytes) PROVE RoomInv'
  <2>1. ASSUME NEW why, Fail(why) PROVE RoomInv'
    BY <2>1, FailRoom
  <2>2. ASSUME NEW next_header \in HeaderBytes,
               ~ (next_header + bytes + FOOTER_RESERVE_BYTES > max_bytes),
               phase = "open", phase' = "rotation_footer",
               pending' = [event |-> bytes, header |-> next_header],
               UNCHANGED <<capture_id, seq, active, on_disk, backups, counters, cause>>
        PROVE  RoomInv'
    BY <2>2, Sizes DEF RoomInv, counters, Expected
  <2> QED
    BY <1>4, <2>1, <2>2 DEF StartRotation
<1>5. CASE FinishRotated
  <2>1. ASSUME NEW why, Fail(why) PROVE RoomInv'
    BY <2>1, FailRoom
  <2>2. ASSUME NEW bytes \in FooterBytes,
               ~ (current_bytes + bytes > max_bytes),
               phase = "rotation_footer", phase' = "rotation_flush",
               current_bytes' = current_bytes + bytes,
               UNCHANGED <<seq, segment_first_seq, segment_events, pending>>
        PROVE  RoomInv'
    BY <2>2, Sizes DEF RoomInv, Expected
  <2> QED
    BY <1>5, <2>1, <2>2 DEF FinishRotated, FinishSegment, write_bytes
<1>6. CASE FlushSegment("rotation_flush", "rotate")
  BY <1>6 DEF RoomInv, FlushSegment, counters, Expected
<1>7. CASE Rotate
  <2>1. /\ phase = "rotate" /\ phase' = "next"
        /\ current_bytes' = 0 /\ segment_events' = 0 /\ segment_first_seq' = seq
        /\ UNCHANGED <<seq, pending>>
    BY <1>7 DEF Rotate
  <2> QED
    BY <2>1 DEF RoomInv, Expected
<1>8. CASE WriteNext
  <2>1. /\ phase = "next" /\ phase' = "open"
        /\ current_bytes' = current_bytes + (pending.header + pending.event)
        /\ seq' = seq + 1 /\ segment_events' = segment_events + 1 /\ pending' = None
        /\ UNCHANGED segment_first_seq
    BY <1>8 DEF WriteNext, write_bytes
  <2>2. /\ current_bytes = 0 /\ segment_events = 0
        /\ pending.header \in Nat /\ pending.event \in Nat
        /\ pending.header + pending.event + FOOTER_RESERVE_BYTES <= max_bytes
    BY <2>1, Sizes DEF RoomInv
  <2>3. current_bytes' \in Nat /\ current_bytes' + FOOTER_RESERVE_BYTES <= max_bytes
    BY <2>1, <2>2, Sizes
  <2> QED
    BY <2>1, <2>3 DEF RoomInv, Expected
<1>9. CASE Finish
  <2>1. ASSUME NEW why, Fail(why) PROVE RoomInv'
    BY <2>1, FailRoom
  <2> QED
    BY <1>9, <2>1, Sizes DEF RoomInv, Finish, FinishSegment, write_bytes, Expected
<1>10. CASE FlushSegment("final_flush", "done")
  BY <1>10 DEF RoomInv, FlushSegment, counters, Expected
<1>11. CASE Abort
  BY <1>11, FailRoom DEF Abort
<1>12. CASE Crash
  BY <1>12 DEF RoomInv, Crash, counters, Expected
<1> QED
  BY <1>1, <1>2, <1>3, <1>4, <1>5, <1>6, <1>7, <1>8, <1>9, <1>10, <1>11, <1>12 DEF Next

\* The invariant holds of every behaviour.
LEMMA Invariance == Spec => []RoomInv
BY InitRoom, Inductive, PTL DEF Spec

\* The reserve is kept: a footer within it always fits (RoomForFooter).
THEOREM ReserveKept == Spec => []RoomForFooter
<1>1. RoomInv => RoomForFooter
  BY DEF RoomInv, RoomForFooter
<1> QED
  BY <1>1, Invariance, PTL

\* The event capture() hands over always carries the number write_event expects:
\* its sequence check never ends a capture.
THEOREM NeverOutOfSequence == Spec => [](phase = "open" => Expected)
<1>1. RoomInv => (phase = "open" => Expected)
  BY DEF RoomInv
<1> QED
  BY <1>1, Invariance, PTL

-----------------------------------------------------------------------------
\* The types of the files.
FilesTypeOK ==
  /\ capture_id \in Nat /\ segment_index \in Nat
  /\ active \in Seq(Envelope)
  /\ on_disk \in 0..Len(active)
  /\ backups \in Seq(Seq(Envelope))

\* The file begins with the header of a capture up to this one, and ends.
Bound(file) ==
  /\ file # <<>>
  /\ file[1].type = "capture_start"
  /\ file[1].capture_id <= capture_id

\* If `newer` is a segment of the same capture, it is the next one.
Continues(newer, older) ==
  newer # <<>> /\ newer[1].type = "capture_start"
    /\ newer[1].capture_id = older[1].capture_id =>
    /\ newer[1].segment.index = older[Len(older)].segment.index + 1
    /\ newer[1].segment.first_seq = older[Len(older)].segment.next_seq

\* The inductive form of SegmentsTile: the files continue each other, and so will
\* the one whose header is still to be written.
TileInv ==
  /\ FilesTypeOK
  /\ \A i \in 1..Len(backups) :
       /\ Bound(backups[i])
       /\ Continues(IF i = 1 THEN active ELSE backups[i - 1], backups[i])
  /\ phase \in {"open", "rotation_footer", "rotation_flush", "rotate"} =>
       active # <<>> /\ active[1] = header(segment_index, segment_first_seq)
  /\ phase \in {"rotation_flush", "rotate"} =>
       /\ active[Len(active)].segment.index = segment_index
       /\ active[Len(active)].segment.next_seq = seq
  /\ phase = "next" =>
       /\ active = <<>>
       /\ Len(backups) > 0 =>
            /\ backups[1][Len(backups[1])].segment.index + 1 = segment_index
            /\ backups[1][Len(backups[1])].segment.next_seq = segment_first_seq

\* Keeping the first n elements of a sequence.
LEMMA Keep ==
  ASSUME NEW S, NEW s \in Seq(S), NEW n \in 0..Len(s)
  PROVE  /\ SubSeq(s, 1, n) \in Seq(S)
         /\ Len(SubSeq(s, 1, n)) = n
         /\ \A i \in 1..n : SubSeq(s, 1, n)[i] = s[i]
OBVIOUS

\* Adding records at the end of a sequence.
LEMMA Extend ==
  ASSUME NEW S, NEW s \in Seq(S), NEW t \in Seq(S)
  PROVE  /\ s \o t \in Seq(S)
         /\ Len(s \o t) = Len(s) + Len(t)
         /\ \A i \in 1..Len(s) : (s \o t)[i] = s[i]
         /\ \A i \in 1..Len(t) : (s \o t)[Len(s) + i] = t[i]
OBVIOUS

\* Adding one record.
LEMMA ExtendByOne ==
  ASSUME NEW S, NEW s \in Seq(S), NEW r \in S
  PROVE  /\ s \o <<r>> \in Seq(S)
         /\ Len(s \o <<r>>) = Len(s) + 1
         /\ (s \o <<r>>)[Len(s) + 1] = r
         /\ \A i \in 1..Len(s) : (s \o <<r>>)[i] = s[i]
<1>1. <<r>> \in Seq(S) /\ Len(<<r>>) = 1 /\ <<r>>[1] = r
  OBVIOUS
<1> QED
  BY <1>1, Extend

\* The smaller of two numbers.
LEMMA MinOfTwo ==
  ASSUME NEW a \in Nat, NEW b \in Nat
  PROVE  Min({a, b}) \in 0..a /\ Min({a, b}) <= b
<1>1. Min({a, b}) = CHOOSE x \in {a, b} : \A y \in {a, b} : x <= y
  BY DEF Min
<1>2. \E x \in {a, b} : \A y \in {a, b} : x <= y
  OBVIOUS
<1> QED
  BY <1>1, <1>2

\* A header names its capture by a number.
LEMMA HeaderIds ==
  ASSUME NEW r \in Envelope, r.type = "capture_start"
  PROVE  r.capture_id \in Nat
<1>1. r \in [type : {"capture_start"}, schema : {CONTRACT_VERSION}, capture_id : Nat,
             route_cache_entries : {1}, segment : [index : Nat, first_seq : Nat]]
  BY DEF Envelope
<1> QED
  BY <1>1

\* What the writer writes are envelopes.
LEMMA EnvelopesWritten ==
  ASSUME RoomInv, FilesTypeOK
  PROVE  /\ \A index \in Nat, first \in Nat : header(index, first) \in Envelope
         /\ Event \in Envelope
         /\ \A stop_reason \in {"rotation", "duration"}, next_seq \in Nat \cup {None},
               lossless \in BOOLEAN : footer(stop_reason, next_seq, lossless) \in Envelope
         /\ [type |-> "malformed"] \in Envelope
<1>0. /\ capture_id \in Nat /\ seq \in Nat /\ segment_index \in Nat
      /\ segment_first_seq \in Nat /\ segment_events \in Nat
  BY DEF RoomInv, FilesTypeOK
<1>1. ASSUME NEW index \in Nat, NEW first \in Nat PROVE header(index, first) \in Envelope
  <2>1. [index |-> index, first_seq |-> first] \in [index : Nat, first_seq : Nat]
    OBVIOUS
  <2> QED
    BY <1>0, <2>1 DEF header, Envelope
<1>2. Event \in Envelope
  BY <1>0 DEF Event, Envelope
<1>3. ASSUME NEW stop_reason \in {"rotation", "duration"}, NEW next_seq \in Nat \cup {None},
             NEW lossless \in BOOLEAN
      PROVE  footer(stop_reason, next_seq, lossless) \in Envelope
  <2>1. [index |-> segment_index, first_seq |-> segment_first_seq, next_seq |-> next_seq]
          \in [index : Nat, first_seq : Nat, next_seq : Nat \cup {None}]
    BY <1>0
  <2> QED
    BY <1>0, <2>1 DEF footer, Envelope
<1> QED
  BY <1>1, <1>2, <1>3 DEF Envelope

\* What is left of the files after a rotation: the active one, then the backups.
LEMMA RotateKeeps ==
  ASSUME FilesTypeOK, Rotate
  PROVE  /\ backups' \in Seq(Seq(Envelope)) /\ Len(backups') \in 0..Len(backups) + 1
         /\ \A i \in 1..Len(backups') :
              /\ i = 1 => backups'[i] = active
              /\ i > 1 => i - 1 \in 1..Len(backups) /\ backups'[i] = backups[i - 1]
<1> DEFINE all == <<active>> \o backups
           kept == Len(backups')
<1>0. active \in Seq(Envelope) /\ backups \in Seq(Seq(Envelope))
  BY DEF FilesTypeOK
<1>1. /\ all \in Seq(Seq(Envelope)) /\ Len(all) = Len(backups) + 1
      /\ all[1] = active /\ \A i \in 1..Len(backups) : all[i + 1] = backups[i]
  <2>1. <<active>> \in Seq(Seq(Envelope)) /\ Len(<<active>>) = 1 /\ <<active>>[1] = active
    BY <1>0
  <2> QED
    BY <1>0, <2>1, Extend
<1>2. PICK n \in 1..Len(all) :
        backups' = SubSeq(SubSeq(all, 1, n), 1, Min({Len(SubSeq(all, 1, n)), max_backups}))
  BY DEF Rotate, prune_expired_segments
<1> DEFINE files == SubSeq(all, 1, n)
           m == Min({n, max_backups})
<1>3. /\ files \in Seq(Seq(Envelope)) /\ Len(files) = n
      /\ \A i \in 1..n : files[i] = all[i]
  BY <1>1, Keep
<1>4. m \in 0..n
  <2>1. n \in Nat /\ max_backups \in Nat
    BY <1>1, OutputAssumption
  <2> QED
    BY <2>1, MinOfTwo
<1>5. backups' = SubSeq(files, 1, m)
  BY <1>2, <1>3
<1> HIDE DEF files, m, all
<1>6. /\ backups' \in Seq(Seq(Envelope)) /\ kept = m
      /\ \A i \in 1..m : backups'[i] = files[i]
  BY <1>3, <1>4, <1>5, Keep
<1>7. 1..m \subseteq 1..n /\ 0..n \subseteq 0..Len(all)
  BY <1>1, <1>4
<1>8. \A i \in 1..kept : i \in 1..Len(all) /\ backups'[i] = all[i]
  BY <1>1, <1>3, <1>6, <1>7
<1>9. ASSUME NEW i \in 1..Len(backups'), i > 1
      PROVE  i - 1 \in 1..Len(backups) /\ backups'[i] = backups[i - 1]
  <2>1. PICK j \in 1..Len(backups) : i = j + 1
    <3>1. i - 1 \in 1..Len(backups) /\ i = (i - 1) + 1
      BY <1>1, <1>8, <1>9
    <3> QED
      BY <3>1
  <2> QED
    BY <1>1, <1>8, <2>1
<1>10. Len(backups') \in 0..Len(backups) + 1
  BY <1>0, <1>1, <1>4, <1>6, <1>7
<1> QED
  BY <1>1, <1>6, <1>8, <1>9, <1>10

\* What is left of the active file after a crash.
LEMMA CrashKeeps ==
  ASSUME FilesTypeOK, NEW whole \in on_disk..Len(active),
         NEW torn \in {<<>>, <<[type |-> "malformed"]>>},
         torn # <<>> => whole < Len(active),
         active' = SubSeq(active, 1, whole) \o torn
  PROVE  /\ active' \in Seq(Envelope) /\ Len(active') = whole + Len(torn)
         /\ whole \in 0..Len(active)
         /\ \A i \in 1..whole : active'[i] = active[i]
         /\ \A i \in 1..Len(torn) : active'[whole + i] = torn[i]
         /\ whole = Len(active) => active' = active
<1> DEFINE rest == SubSeq(active, 1, whole)
<1>0. active \in Seq(Envelope) /\ on_disk \in 0..Len(active)
  BY DEF FilesTypeOK
<1>1. /\ rest \in Seq(Envelope) /\ Len(rest) = whole /\ whole \in 0..Len(active)
      /\ \A i \in 1..whole : rest[i] = active[i]
  BY <1>0, Keep
<1>2. torn \in Seq(Envelope)
  <2>1. [type |-> "malformed"] \in Envelope
    BY DEF Envelope
  <2>2. ASSUME NEW r \in Envelope PROVE <<r>> \in Seq(Envelope)
    OBVIOUS
  <2>3. <<>> \in Seq(Envelope)
    OBVIOUS
  <2> QED
    BY <2>1, <2>2, <2>3
<1>3. whole = Len(active) => active' = active
  <2>1. SUFFICES ASSUME whole = Len(active) PROVE active' = active
    OBVIOUS
  <2>2. torn = <<>>
    BY <2>1
  <2>3. rest = active
    BY <1>0, <2>1
  <2>4. active \o <<>> = active
    BY <1>0
  <2> QED
    BY <2>2, <2>3, <2>4
<1> HIDE DEF rest
<1> QED
  BY <1>1, <1>2, <1>3, Extend DEF rest

\* The files' own part of TileInv.
FilesContinue ==
  \A i \in 1..Len(backups) :
    /\ Bound(backups[i])
    /\ Continues(IF i = 1 THEN active ELSE backups[i - 1], backups[i])

\* The files continue each other as long as the active one begins as it did, or
\* with nothing or no header.
LEMMA FilesStay ==
  ASSUME FilesContinue, UNCHANGED <<backups, capture_id>>,
         \/ active' = <<>>
         \/ active'[1].type # "capture_start"
         \/ active # <<>> /\ active'[1] = active[1]
  PROVE  FilesContinue'
BY DEF FilesContinue, Bound, Continues

\* Each step leaves files that continue each other.
LEMMA TileStep == RoomInv /\ TileInv /\ [Next]_vars => TileInv'
<1> SUFFICES ASSUME RoomInv, TileInv, [Next]_vars PROVE TileInv'
  OBVIOUS
<1>0. /\ FilesTypeOK /\ FilesContinue /\ RoomInv'
      /\ capture_id \in Nat /\ segment_index \in Nat /\ active \in Seq(Envelope)
      /\ on_disk \in 0..Len(active) /\ backups \in Seq(Seq(Envelope))
      /\ seq \in Nat /\ segment_first_seq \in Nat /\ segment_events \in Nat
  BY Inductive DEF TileInv, FilesTypeOK, FilesContinue, RoomInv
\* A failure or a flush leaves the active file as it is.
<1>1. ASSUME UNCHANGED <<active, backups, capture_id, seq, counters>>,
             on_disk' \in 0..Len(active),
             \/ phase' \notin {"open", "rotation_footer", "rotation_flush", "rotate", "next"}
             \/ phase' = phase
             \/ phase = "open" /\ phase' = "rotation_footer"
             \/ phase = "rotation_flush" /\ phase' = "rotate"
      PROVE  TileInv'
  <2>1. FilesTypeOK' /\ FilesContinue'
    <3>1. FilesTypeOK'
      BY <1>0, <1>1 DEF FilesTypeOK, counters
    <3>2. FilesContinue'
      BY <1>0, <1>1 DEF FilesContinue, Bound, Continues
    <3> QED
      BY <3>1, <3>2
  <2>2. phase' \in {"open", "rotation_footer", "rotation_flush", "rotate"} =>
          active' # <<>> /\ active'[1] = header(segment_index, segment_first_seq)'
    BY <1>1 DEF TileInv, counters, header
  <2>3. phase' \in {"rotation_flush", "rotate"} =>
          /\ active'[Len(active')].segment.index = segment_index'
          /\ active'[Len(active')].segment.next_seq = seq'
    BY <1>1 DEF TileInv, counters
  <2>4. phase' = "next" =>
          /\ active' = <<>>
          /\ Len(backups') > 0 =>
               /\ backups'[1][Len(backups'[1])].segment.index + 1 = segment_index'
               /\ backups'[1][Len(backups'[1])].segment.next_seq = segment_first_seq'
    BY <1>1 DEF TileInv, counters
  <2> QED
    BY <2>1, <2>2, <2>3, <2>4 DEF TileInv, FilesContinue
<1>2. ASSUME NEW why, Fail(why) PROVE TileInv'
  BY <1>0, <1>1, <1>2 DEF Fail, Flush
\* Records are added to an active file that has a header.
<1>3. ASSUME NEW record \in Envelope, NEW to,
             active # <<>>, active[1] = header(segment_index, segment_first_seq),
             active' = active \o <<record>>,
             on_disk' \in {on_disk} \cup Len(active)..Len(active'),
             phase' = to, to \in {"open", "rotation_flush", "final_flush"},
             to = "rotation_flush" =>
               record.segment.index = segment_index /\ record.segment.next_seq = seq',
             UNCHANGED <<backups, capture_id, segment_index, segment_first_seq>>
      PROVE  TileInv'
  <2>1. /\ active' \in Seq(Envelope) /\ Len(active') = Len(active) + 1
        /\ active'[1] = active[1] /\ active'[Len(active')] = record
        /\ active' # <<>>
    <3>1. <<record>> \in Seq(Envelope) /\ Len(<<record>>) = 1 /\ <<record>>[1] = record
      OBVIOUS
    <3>2. 1 \in 1..Len(active)
      BY <1>0, <1>3
    <3> QED
      BY <1>0, <1>3, <3>1, <3>2, Extend
  <2>2. FilesTypeOK'
    BY <1>0, <1>3, <2>1 DEF FilesTypeOK
  <2>3. FilesContinue'
    BY <1>0, <1>3, <2>1, FilesStay
  <2>4. header(segment_index, segment_first_seq)' = header(segment_index, segment_first_seq)
    BY <1>3 DEF header
  <2> QED
    BY <1>3, <2>1, <2>2, <2>3, <2>4 DEF TileInv, FilesContinue
<1>4. CASE UNCHANGED vars
  BY <1>0, <1>1, <1>4 DEF vars
<1>5. CASE New
  <2>1. PICK kept \in 0..Len(backups) : backups' = SubSeq(backups, 1, kept)
    BY <1>5 DEF New, prune_expired_segments
  <2>2. /\ backups' \in Seq(Seq(Envelope)) /\ Len(backups') = kept
        /\ \A i \in 1..kept : backups'[i] = backups[i]
    BY <1>0, <2>1, Keep
  <2>3. capture_id' = capture_id + 1 /\ segment_index' = 0 /\ segment_first_seq' = 0
    BY <1>5 DEF New
  <2>4. \/ phase' = "failed" /\ active' = <<>> /\ on_disk' = 0
        \/ phase' = "open" /\ active' = <<header(0, 0)'>> /\ on_disk' = 1
    BY <1>5 DEF New
  <2>5. header(0, 0)' \in Envelope /\ header(0, 0)'.capture_id = capture_id'
    <3>1. [index |-> 0, first_seq |-> 0] \in [index : Nat, first_seq : Nat]
      OBVIOUS
    <3>2. capture_id' \in Nat
      BY <1>0, <2>3
    <3> QED
      BY <3>1, <3>2 DEF header, Envelope
  <2>6. FilesTypeOK'
    <3>1. PICK h \in Envelope : h = header(0, 0)'
      BY <2>5
    <3>2. \/ active' = <<>> /\ on_disk' = 0
          \/ active' = <<h>> /\ on_disk' = 1
      BY <2>4, <3>1
    <3>3. active' \in Seq(Envelope) /\ on_disk' \in 0..Len(active')
      <4>1. CASE active' = <<>> /\ on_disk' = 0
        BY <4>1
      <4>2. CASE active' = <<h>> /\ on_disk' = 1
        BY <4>2
      <4> QED
        BY <3>2, <4>1, <4>2
    <3>4. capture_id' \in Nat /\ segment_index' \in Nat
      BY <1>0, <2>3
    <3>5. backups' \in Seq(Seq(Envelope))
      BY <2>2
    <3> QED
      BY <3>3, <3>4, <3>5 DEF FilesTypeOK
  <2>7. \A i \in 1..kept : Bound(backups[i]) /\ backups[i][1].capture_id <= capture_id
    <3>1. \A i \in 1..kept : i \in 1..Len(backups)
      BY <1>0, <2>1
    <3>2. \A i \in 1..Len(backups) : Bound(backups[i])
      BY <1>0 DEF FilesContinue
    <3> QED
      BY <3>1, <3>2 DEF Bound
  <2>8. \A i \in 1..kept : backups[i][1].capture_id \in Nat
    <3> SUFFICES ASSUME NEW i \in 1..kept PROVE backups[i][1].capture_id \in Nat
      OBVIOUS
    <3>1. backups[i] \in Seq(Envelope) /\ backups[i] # <<>> /\ backups[i][1].type = "capture_start"
      BY <1>0, <2>1, <2>7 DEF Bound
    <3>2. backups[i][1] \in Envelope
      BY <3>1
    <3> QED
      BY <3>1, <3>2, HeaderIds
  <2>9. \A i \in 1..kept : Bound(backups[i])' /\ backups[i][1].capture_id # capture_id'
    <3> SUFFICES ASSUME NEW i \in 1..kept
                 PROVE  Bound(backups[i])' /\ backups[i][1].capture_id # capture_id'
      OBVIOUS
    <3>1. Bound(backups[i]) /\ backups'[i] = backups[i]
      BY <2>2, <2>7
    <3>2. backups[i][1].capture_id < capture_id'
      BY <1>0, <2>3, <2>8, <3>1 DEF Bound
    <3> QED
      BY <1>0, <2>3, <2>8, <3>1, <3>2 DEF Bound
  <2>10. ASSUME NEW i \in 1..Len(backups')
         PROVE  /\ Bound(backups[i])'
                /\ Continues(IF i = 1 THEN active' ELSE backups'[i - 1], backups'[i])
    <3>1. i \in 1..kept /\ i \in 1..Len(backups)
      BY <2>1, <2>2
    <3>2. CASE i = 1
      BY <2>2, <2>4, <2>5, <2>9, <3>1, <3>2 DEF Continues
    <3>3. CASE i # 1
      <4>1. i - 1 \in 1..kept
        BY <3>1, <3>3
      <4>2. Continues(backups[i - 1], backups[i])
        BY <1>0, <3>1, <3>3 DEF FilesContinue
      <4>3. backups'[i - 1] = backups[i - 1] /\ backups'[i] = backups[i]
        BY <2>2, <3>1, <4>1
      <4> QED
        BY <2>9, <3>1, <3>3, <4>2, <4>3
    <3> QED
      BY <3>2, <3>3
  <2>11. phase' = "open" =>
           active' # <<>> /\ active'[1] = header(segment_index, segment_first_seq)'
    BY <2>3, <2>4 DEF header
  <2> QED
    BY <2>4, <2>6, <2>10, <2>11 DEF TileInv, Continues
<1>6. ASSUME NEW bytes \in EventBytes, WriteEvent(bytes) PROVE TileInv'
  <2>1. Event \in Envelope
    BY <1>0, EnvelopesWritten
  <2>2. /\ phase = "open" /\ phase' = phase
        /\ active' = active \o <<Event>>
        /\ on_disk' \in {on_disk} \cup Len(active)..Len(active')
        /\ UNCHANGED <<backups, capture_id, segment_index, segment_first_seq>>
    BY <1>6 DEF WriteEvent, write_bytes
  <2>3. active # <<>> /\ active[1] = header(segment_index, segment_first_seq)
    BY <2>2 DEF TileInv
  <2> QED
    BY <1>3, <2>1, <2>2, <2>3
<1>7. ASSUME NEW bytes \in EventBytes, StartRotation(bytes) PROVE TileInv'
  <2>1. ASSUME phase = "open", phase' = "rotation_footer",
               UNCHANGED <<capture_id, seq, active, on_disk, backups, counters, cause>>
        PROVE  TileInv'
    BY <1>0, <1>1, <2>1
  <2> QED
    BY <1>2, <1>7, <2>1 DEF StartRotation
<1>8. CASE FinishRotated
  <2>1. ASSUME NEW lossless \in BOOLEAN, NEW bytes \in FooterBytes,
               phase = "rotation_footer", phase' = "rotation_flush",
               write_bytes(<<footer("rotation", seq, lossless)>>, bytes),
               UNCHANGED <<capture_id, seq, backups, segment_index, segment_first_seq>>
        PROVE  TileInv'
    <3>1. footer("rotation", seq, lossless) \in Envelope
      BY <1>0, EnvelopesWritten
    <3>2. /\ footer("rotation", seq, lossless).segment.index = segment_index
          /\ footer("rotation", seq, lossless).segment.next_seq = seq
      BY DEF footer
    <3>3. active # <<>> /\ active[1] = header(segment_index, segment_first_seq)
      BY <2>1 DEF TileInv
    <3> QED
      BY <1>3, <2>1, <3>1, <3>2, <3>3 DEF write_bytes
  <2> QED
    BY <1>2, <1>8, <2>1 DEF FinishRotated, FinishSegment
<1>9. CASE Finish
  <2>1. ASSUME NEW lossless \in BOOLEAN, NEW bytes \in FooterBytes,
               phase = "open", phase' = "final_flush",
               write_bytes(<<footer("duration", None, lossless)>>, bytes),
               UNCHANGED <<capture_id, seq, backups, segment_index, segment_first_seq>>
        PROVE  TileInv'
    <3>1. footer("duration", None, lossless) \in Envelope
      BY <1>0, EnvelopesWritten
    <3>2. active # <<>> /\ active[1] = header(segment_index, segment_first_seq)
      BY <2>1 DEF TileInv
    <3> QED
      BY <1>3, <2>1, <3>1, <3>2 DEF write_bytes
  <2> QED
    BY <1>2, <1>9, <2>1 DEF Finish, FinishSegment
<1>10. CASE FlushSegment("rotation_flush", "rotate") \/ FlushSegment("final_flush", "done")
  BY <1>0, <1>1, <1>10 DEF FlushSegment, Flush
<1>11. CASE Abort
  BY <1>2, <1>11 DEF Abort
<1>12. CASE Rotate
  <2>1. /\ phase = "rotate" /\ phase' = "next"
        /\ active' = <<>> /\ on_disk' = 0
        /\ segment_index' = segment_index + 1 /\ segment_first_seq' = seq
        /\ UNCHANGED capture_id
    BY <1>12 DEF Rotate
  <2>2. /\ backups' \in Seq(Seq(Envelope))
        /\ \A i \in 1..Len(backups') :
             /\ i = 1 => backups'[i] = active
             /\ i > 1 => i - 1 \in 1..Len(backups) /\ backups'[i] = backups[i - 1]
    BY <1>0, <1>12, RotateKeeps
  <2>4. FilesTypeOK'
    BY <1>0, <2>1, <2>2 DEF FilesTypeOK
  <2>5. /\ active # <<>> /\ active[1] = header(segment_index, segment_first_seq)
        /\ active[Len(active)].segment.index = segment_index
        /\ active[Len(active)].segment.next_seq = seq
    BY <2>1 DEF TileInv
  <2>6. Bound(active)
    BY <1>0, <2>5 DEF Bound, header
  <2>7. ASSUME NEW i \in 1..Len(backups')
        PROVE  /\ Bound(backups[i])'
               /\ Continues(IF i = 1 THEN active' ELSE backups'[i - 1], backups'[i])
    <3>1. CASE i = 1
      BY <2>1, <2>2, <2>6, <3>1 DEF Continues, Bound
    <3>2. CASE i = 2
      <4>1. backups'[1] = active /\ backups'[2] = backups[1] /\ 1 \in 1..Len(backups)
        BY <2>2, <3>2
      <4>2. Bound(backups[1]) /\ Continues(active, backups[1])
        BY <1>0, <4>1 DEF FilesContinue
      <4> QED
        BY <2>1, <3>2, <4>1, <4>2 DEF Bound
    <3>3. CASE i > 2
      <4>1. PICK j \in 2..Len(backups) : j = i - 1
        BY <2>2, <3>3
      <4>2. backups'[i] = backups[j] /\ backups'[i - 1] = backups[j - 1]
        BY <2>2, <3>3, <4>1
      <4>3. Bound(backups[j]) /\ Continues(backups[j - 1], backups[j])
        BY <1>0, <4>1 DEF FilesContinue
      <4> QED
        BY <2>1, <3>3, <4>2, <4>3 DEF Bound
    <3> QED
      BY <3>1, <3>2, <3>3
  <2>8. Len(backups') > 0 =>
          /\ backups'[1][Len(backups'[1])].segment.index + 1 = segment_index'
          /\ backups'[1][Len(backups'[1])].segment.next_seq = segment_first_seq'
    <3>1. Len(backups') > 0 => backups'[1] = active
      BY <2>2
    <3> QED
      BY <2>1, <2>5, <3>1
  <2> QED
    BY <2>1, <2>4, <2>7, <2>8 DEF TileInv
<1>13. CASE WriteNext
  <2> DEFINE first == header(segment_index, segment_first_seq)
  <2>1. /\ phase = "next" /\ phase' = "open"
        /\ active' = active \o <<first, Event>>
        /\ on_disk' \in {on_disk} \cup Len(active)..Len(active')
        /\ UNCHANGED <<backups, capture_id, segment_index, segment_first_seq>>
    BY <1>13 DEF WriteNext, write_bytes
  <2>2. /\ active = <<>>
        /\ Len(backups) > 0 =>
             /\ backups[1][Len(backups[1])].segment.index + 1 = segment_index
             /\ backups[1][Len(backups[1])].segment.next_seq = segment_first_seq
    BY <2>1 DEF TileInv
  <2>3. first \in Envelope /\ Event \in Envelope
    BY <1>0, EnvelopesWritten
  <2>4. /\ active' \in Seq(Envelope) /\ Len(active') = 2 /\ active' # <<>>
        /\ active'[1] = first
    <3>1. <<first, Event>> \in Seq(Envelope) /\ Len(<<first, Event>>) = 2
          /\ <<first, Event>>[1] = first
      BY <2>3
    <3>2. active' = <<first, Event>>
      <4> HIDE DEF first
      <4> QED
        BY <1>0, <2>1, <2>2, <3>1
    <3> QED
      BY <3>1, <3>2
  <2>5. FilesTypeOK'
    BY <1>0, <2>1, <2>2, <2>4 DEF FilesTypeOK
  <2>6. first.type = "capture_start" /\ first.segment.index = segment_index
        /\ first.segment.first_seq = segment_first_seq
    BY DEF header
  <2>7. FilesContinue'
    <3> SUFFICES ASSUME NEW i \in 1..Len(backups)
                 PROVE  /\ Bound(backups[i])'
                        /\ Continues(IF i = 1 THEN active' ELSE backups[i - 1], backups[i])
      BY <2>1 DEF FilesContinue
    <3>1. Bound(backups[i]) /\ Continues(IF i = 1 THEN active ELSE backups[i - 1], backups[i])
      BY <1>0 DEF FilesContinue
    <3>2. Bound(backups[i])'
      BY <2>1, <3>1 DEF Bound
    <3>3. CASE i = 1
      <4> HIDE DEF first
      <4> QED
        BY <1>0, <2>2, <2>4, <2>6, <3>1, <3>2, <3>3 DEF Continues, Bound
    <3> QED
      BY <3>1, <3>2, <3>3
  <2>8. header(segment_index, segment_first_seq)' = first
    BY <2>1 DEF header
  <2> QED
    BY <2>1, <2>4, <2>5, <2>7, <2>8 DEF TileInv, FilesContinue
<1>14. CASE Crash
  <2>1. /\ phase' = "crashed" /\ UNCHANGED <<capture_id, seq, backups, counters>>
        /\ on_disk' = Len(active')
    BY <1>14 DEF Crash
  <2>2. PICK whole \in on_disk..Len(active), torn \in {<<>>, <<[type |-> "malformed"]>>} :
          /\ torn # <<>> => whole < Len(active)
          /\ active' = SubSeq(active, 1, whole) \o torn
    BY <1>14 DEF Crash
  <2>3. whole \in 0..Len(active)
    BY <1>0, <2>2, CrashKeeps
  <2>5. /\ active' \in Seq(Envelope) /\ Len(active') = whole + Len(torn)
        /\ \A i \in 1..whole : active'[i] = active[i]
        /\ \A i \in 1..Len(torn) : active'[whole + i] = torn[i]
    BY <1>0, <2>2, CrashKeeps
  <2>6. \/ active' = <<>>
        \/ active'[1].type # "capture_start"
        \/ active # <<>> /\ active'[1] = active[1]
    <3>1. CASE whole # 0
      <4>1. 1 \in 1..whole /\ active # <<>>
        BY <1>0, <2>3, <3>1
      <4> QED
        BY <2>5, <4>1
    <3>2. CASE whole = 0 /\ torn = <<>>
      BY <2>5, <3>2
    <3>3. CASE whole = 0 /\ torn # <<>>
      <4>1. torn = <<[type |-> "malformed"]>>
        BY <3>3
      <4>2. 1 \in 1..Len(torn) /\ torn[1] = [type |-> "malformed"]
        BY <4>1
      <4>3. active'[1] = [type |-> "malformed"]
        BY <2>5, <3>3, <4>2
      <4> QED
        BY <4>3
    <3> QED
      BY <3>1, <3>2, <3>3
  <2>7. FilesContinue'
    BY <1>0, <2>1, <2>6, FilesStay
  <2>8. FilesTypeOK'
    BY <1>0, <2>1, <2>5 DEF FilesTypeOK, counters
  <2> QED
    BY <2>1, <2>7, <2>8 DEF TileInv, FilesContinue
<1> QED
  BY <1>4, <1>5, <1>6, <1>7, <1>8, <1>9, <1>10, <1>11, <1>12, <1>13, <1>14 DEF Next

\* The retained files of a capture are a contiguous stretch of its events: no
\* rotation, expiry, crash or later capture opens a gap between two of them.
THEOREM FilesTile == Spec => []SegmentsTile
<1>1. Init => TileInv
  BY DEF Init, TileInv, FilesTypeOK
<1>2. RoomInv /\ TileInv => SegmentsTile
  <2> SUFFICES ASSUME RoomInv, TileInv PROVE SegmentsTile
    OBVIOUS
  <2>1. phase = "open" => Expected
    BY DEF RoomInv
  <2>2. ASSUME NEW i \in DOMAIN backups
        PROVE  LET newer == IF i = 1 THEN active ELSE backups[i - 1]
                   segment == Last(backups[i]).segment
               IN newer # <<>> /\ Head(newer).type = "capture_start"
                    /\ Head(newer).capture_id = Head(backups[i]).capture_id =>
                    /\ Head(newer).segment.index = segment.index + 1
                    /\ Head(newer).segment.first_seq = segment.next_seq
    <3> DEFINE newer == IF i = 1 THEN active ELSE backups[i - 1]
    <3>1. /\ active \in Seq(Envelope) /\ backups \in Seq(Seq(Envelope))
          /\ i \in 1..Len(backups)
      BY <2>2 DEF TileInv, FilesTypeOK
    <3>2. Bound(backups[i]) /\ Continues(newer, backups[i])
      BY <3>1 DEF TileInv
    <3>3. newer \in Seq(Envelope) /\ backups[i] \in Seq(Envelope) /\ backups[i] # <<>>
      BY <3>1, <3>2 DEF Bound
    <3>4. /\ Last(backups[i]) = backups[i][Len(backups[i])]
          /\ Head(backups[i]) = backups[i][1]
          /\ newer # <<>> => Head(newer) = newer[1]
      BY <3>3 DEF Last
    <3> HIDE DEF newer
    <3>5. newer # <<>> /\ Head(newer).type = "capture_start"
            /\ Head(newer).capture_id = Head(backups[i]).capture_id =>
            /\ Head(newer).segment.index = Last(backups[i]).segment.index + 1
            /\ Head(newer).segment.first_seq = Last(backups[i]).segment.next_seq
      BY <3>2, <3>4 DEF Continues
    <3> QED
      BY <3>5 DEF newer
  <2> QED
    BY <2>1, <2>2 DEF SegmentsTile
<1> QED
  BY <1>1, <1>2, InitRoom, Inductive, TileStep, PTL DEF Spec

-----------------------------------------------------------------------------
\* The records of a segment, by capture, segment and number.
HeaderOf(id, index, first) ==
  [type |-> "capture_start", schema |-> CONTRACT_VERSION, capture_id |-> id,
   route_cache_entries |-> 1, segment |-> [index |-> index, first_seq |-> first]]

EventOf(id, number) ==
  [type |-> "event", schema |-> CONTRACT_VERSION, capture_id |-> id, valid |-> TRUE,
   seq |-> number, skb |-> CHOOSE p \in Skb : TRUE, identity |-> CHOOSE p \in Skb : TRUE,
   function |-> CHOOSE f \in Function : TRUE, match_origin |-> "association"]

FooterOf(id, index, first, n, stop_reason, next_seq, lossless) ==
  [type |-> "capture_end", schema |-> CONTRACT_VERSION, capture_id |-> id,
   events |-> n, complete |-> lossless, lossless |-> lossless,
   segment |-> [index |-> index, first_seq |-> first, next_seq |-> next_seq],
   stop_reason |-> stop_reason]

\* The file begins with the header and the first n events of a segment.
Begins(file, id, index, first, n) ==
  /\ Len(file) > n
  /\ file[1] = HeaderOf(id, index, first)
  /\ \A i \in 2..n + 1 : file[i] = EventOf(id, first + i - 2)

\* It is that and a footer that agrees.
Closes(file, id, index, first, n) ==
  /\ Begins(file, id, index, first, n)
  /\ Len(file) = n + 2
  /\ \E lossless \in BOOLEAN :
       \/ file[n + 2] = FooterOf(id, index, first, n, "rotation", first + n, lossless)
       \/ file[n + 2] = FooterOf(id, index, first, n, "duration", None, lossless)

Whole(file) == \E id, index, first \in Nat, n \in 0..MaxSeq : Closes(file, id, index, first, n)

\* No footer is in the file.
Open(file) == \A i \in 1..Len(file) : file[i].type # "capture_end"

ActiveBegins == Begins(active, capture_id, segment_index, segment_first_seq, segment_events)
ActiveCloses == Closes(active, capture_id, segment_index, segment_first_seq, segment_events)

\* What the active file holds, by phase: a file that was cut short holds no
\* footer, and a backup is whole.
FileInv ==
  /\ Expected /\ seq <= MaxSeq
  /\ phase \in {"rotation_footer", "rotation_flush", "rotate", "next"} => seq < MaxSeq
  /\ \A i \in 1..Len(backups) : Whole(backups[i])
  /\ phase \in {"open", "rotation_footer"} => ActiveBegins /\ Len(active) = segment_events + 1
  /\ phase \in {"rotation_flush", "rotate", "final_flush", "done"} => ActiveCloses
  /\ Open(active) \/ ActiveCloses

\* The beginning of a segment holds no footer.
LEMMA BeginsOpen ==
  ASSUME NEW file, NEW id, NEW index, NEW first, NEW n \in Nat,
         Begins(file, id, index, first, n)
  PROVE  \A i \in 1..n + 1 : file[i].type # "capture_end"
<1> SUFFICES ASSUME NEW i \in 1..n + 1 PROVE file[i].type # "capture_end"
  OBVIOUS
<1>1. CASE i = 1
  BY <1>1 DEF Begins, HeaderOf
<1>2. CASE i \in 2..n + 1
  <2>1. \A a, b : EventOf(a, b).type = "event"
    BY DEF EventOf
  <2>2. file[i] = EventOf(id, first + i - 2)
    BY <1>2 DEF Begins
  <2> QED
    BY <2>1, <2>2
<1>3. i = 1 \/ i \in 2..n + 1
  OBVIOUS
<1> QED
  BY <1>1, <1>2, <1>3

\* The records written are those of the segment.
LEMMA WrittenRecords ==
  /\ \A index, first : header(index, first) = HeaderOf(capture_id, index, first)
  /\ Event = EventOf(capture_id, seq)
  /\ \A stop_reason, next_seq, lossless :
       footer(stop_reason, next_seq, lossless) =
         FooterOf(capture_id, segment_index, segment_first_seq, segment_events,
                  stop_reason, next_seq, lossless)
BY DEF header, HeaderOf, Event, EventOf, footer, FooterOf

\* Each step keeps the active file the beginning of a segment, and backups whole.
LEMMA FileStep == RoomInv /\ TileInv /\ FileInv /\ [Next]_vars => FileInv'
<1> SUFFICES ASSUME RoomInv, TileInv, FileInv, [Next]_vars PROVE FileInv'
  OBVIOUS
<1>0. /\ FilesTypeOK /\ FilesTypeOK' /\ RoomInv'
      /\ capture_id \in Nat /\ segment_index \in Nat /\ active \in Seq(Envelope)
      /\ on_disk \in 0..Len(active) /\ backups \in Seq(Seq(Envelope))
      /\ seq \in Nat /\ segment_first_seq \in Nat /\ segment_events \in Nat
      /\ MaxSeq \in Nat /\ seq = segment_first_seq + segment_events
  BY TileStep, Inductive, OutputAssumption DEF TileInv, FilesTypeOK, RoomInv, FileInv, Expected
<1> DEFINE id == capture_id
           index == segment_index
           first == segment_first_seq
           n == segment_events
\* The active file and the counts stay; the phase may go where the file allows.
<1>1. ASSUME UNCHANGED <<active, backups, capture_id, seq, counters>>,
             \/ phase' \in {"failed", "crashed", "idle"}
             \/ phase' = phase
             \/ phase = "open" /\ phase' = "rotation_footer" /\ seq < MaxSeq
             \/ phase = "rotation_flush" /\ phase' = "rotate"
             \/ phase = "final_flush" /\ phase' = "done"
      PROVE  FileInv'
  <2>1. /\ ActiveBegins' <=> ActiveBegins
        /\ ActiveCloses' <=> ActiveCloses
        /\ Open(active)' <=> Open(active)
        /\ Expected' <=> Expected
    BY <1>1 DEF counters, ActiveBegins, ActiveCloses, Expected
  <2>2. /\ active' = active /\ backups' = backups /\ seq' = seq
        /\ segment_events' = segment_events
    BY <1>1 DEF counters
  <2> QED
    BY <1>1, <2>1, <2>2 DEF FileInv
<1>2. ASSUME NEW why, Fail(why) PROVE FileInv'
  BY <1>1, <1>2 DEF Fail, Flush
<1>3. CASE UNCHANGED vars
  BY <1>1, <1>3 DEF vars
<1>4. CASE New
  <2>1. PICK kept \in 0..Len(backups) : backups' = SubSeq(backups, 1, kept)
    BY <1>4 DEF New, prune_expired_segments
  <2>2. \A i \in 1..Len(backups') : Whole(backups'[i])
    <3>1. /\ Len(backups') = kept /\ \A i \in 1..kept : backups'[i] = backups[i]
      BY <1>0, <2>1, Keep
    <3>2. \A i \in 1..Len(backups) : Whole(backups[i])
      BY DEF FileInv
    <3>3. \A i \in 1..kept : i \in 1..Len(backups)
      BY <1>0, <2>1
    <3> QED
      BY <3>1, <3>2, <3>3
  <2>3. /\ seq' = 0 /\ segment_index' = 0 /\ segment_first_seq' = 0 /\ segment_events' = 0
        /\ \/ phase' = "failed" /\ active' = <<>>
           \/ phase' = "open" /\ active' = <<header(0, 0)'>>
    BY <1>4 DEF New
  <2>4. CASE phase' = "failed" /\ active' = <<>>
    <3>1. Open(active')
      BY <2>4 DEF Open
    <3> QED
      BY <1>0, <2>2, <2>3, <2>4, <3>1 DEF FileInv, Expected
  <2>5. CASE phase' = "open" /\ active' = <<header(0, 0)'>>
    <3>1. PICK h : h = HeaderOf(capture_id', 0, 0)
      OBVIOUS
    <3>2. header(0, 0)' = h
      BY <3>1 DEF header, HeaderOf
    <3>3. active' = <<h>>
      BY <2>5, <3>2
    <3>4. Len(active') = 1 /\ active'[1] = h
      BY <3>3
    <3>5. ActiveBegins'
      BY <2>3, <3>1, <3>4 DEF ActiveBegins, Begins
    <3>6. Open(active')
      BY <3>1, <3>4 DEF Open, HeaderOf
    <3> QED
      BY <1>0, <2>2, <2>3, <2>5, <3>4, <3>5, <3>6 DEF FileInv, Expected
  <2> QED
    BY <2>3, <2>4, <2>5
<1>5. ASSUME NEW bytes \in EventBytes, WriteEvent(bytes) PROVE FileInv'
  <2>1. /\ phase = "open" /\ phase' = "open" /\ seq < MaxSeq
        /\ active' = active \o <<Event>>
        /\ seq' = seq + 1 /\ segment_events' = segment_events + 1
        /\ UNCHANGED <<backups, capture_id, segment_index, segment_first_seq>>
    BY <1>5 DEF WriteEvent, write_bytes
  <2>2. ActiveBegins /\ Len(active) = n + 1
    BY <2>1 DEF FileInv
  <2>3. Event \in Envelope /\ Event = EventOf(id, first + n)
    BY <1>0, EnvelopesWritten, WrittenRecords
  <2>4. /\ Len(active') = n + 2 /\ active'[n + 2] = Event
        /\ \A i \in 1..n + 1 : active'[i] = active[i]
    <3>1. /\ Len(active \o <<Event>>) = Len(active) + 1
          /\ (active \o <<Event>>)[Len(active) + 1] = Event
          /\ \A i \in 1..Len(active) : (active \o <<Event>>)[i] = active[i]
      BY <1>0, <2>3, ExtendByOne
    <3>2. Len(active) + 1 = n + 2 /\ 1..Len(active) = 1..n + 1
      BY <1>0, <2>2
    <3> QED
      BY <2>1, <3>1, <3>2
  <2>5. Begins(active', id, index, first, n + 1)
    <3>1. active'[1] = HeaderOf(id, index, first)
      BY <1>0, <2>2, <2>4 DEF ActiveBegins, Begins
    <3>2. ASSUME NEW i \in 2..n + 2 PROVE active'[i] = EventOf(id, first + i - 2)
      <4>1. CASE i = n + 2
        <5>1. first + i - 2 = first + n
          BY <1>0, <4>1
        <5> QED
          BY <2>3, <2>4, <4>1, <5>1
      <4>2. CASE i \in 2..n + 1
        BY <1>0, <2>2, <2>4, <4>2 DEF ActiveBegins, Begins
      <4> QED
        BY <1>0, <4>1, <4>2
    <3>3. (n + 1) + 1 = n + 2 /\ Len(active') > n + 1
      BY <1>0, <2>4
    <3> QED
      BY <3>1, <3>2, <3>3 DEF Begins
  <2>6. Open(active')
    BY <1>0, <2>4, <2>5, BeginsOpen DEF Open
  <2>7. ActiveBegins' /\ Len(active') = segment_events' + 1
    BY <1>0, <2>1, <2>4, <2>5 DEF ActiveBegins
  <2> QED
    BY <1>0, <2>1, <2>6, <2>7 DEF FileInv, Expected
<1>6. ASSUME NEW bytes \in EventBytes, StartRotation(bytes) PROVE FileInv'
  <2>1. ASSUME phase = "open", phase' = "rotation_footer", seq < MaxSeq,
               UNCHANGED <<capture_id, seq, active, on_disk, backups, counters, cause>>
        PROVE  FileInv'
    BY <1>1, <2>1
  <2> QED
    BY <1>2, <1>6, <2>1 DEF StartRotation
\* A footer closes the segment.
<1>7. ASSUME phase \in {"open", "rotation_footer"}, NEW lossless \in BOOLEAN,
             NEW stop_reason, NEW next_seq,
             \/ stop_reason = "rotation" /\ next_seq = seq /\ phase = "rotation_footer"
             \/ stop_reason = "duration" /\ next_seq = None,
             active' = active \o <<footer(stop_reason, next_seq, lossless)>>,
             phase' \in {"rotation_flush", "final_flush"},
             phase' = "rotation_flush" => phase = "rotation_footer",
             UNCHANGED <<backups, capture_id, seq, segment_index, segment_first_seq,
                         segment_events>>
      PROVE  FileInv'
  <2>1. ActiveBegins /\ Len(active) = n + 1
    BY <1>7 DEF FileInv
  <2> DEFINE last == FooterOf(id, index, first, n, stop_reason, next_seq, lossless)
  <2>2. footer(stop_reason, next_seq, lossless) = last /\ last \in Envelope
    BY <1>0, <1>7, EnvelopesWritten, WrittenRecords
  <2>3. /\ Len(active') = n + 2 /\ active'[n + 2] = last
        /\ \A i \in 1..n + 1 : active'[i] = active[i]
    <3> HIDE DEF last
    <3>1. /\ Len(active \o <<last>>) = Len(active) + 1
          /\ (active \o <<last>>)[Len(active) + 1] = last
          /\ \A i \in 1..Len(active) : (active \o <<last>>)[i] = active[i]
      BY <1>0, <2>2, ExtendByOne
    <3>2. Len(active) + 1 = n + 2 /\ 1..Len(active) = 1..n + 1
      BY <1>0, <2>1
    <3>3. active' = active \o <<last>>
      BY <1>7, <2>2
    <3> QED
      BY <3>1, <3>2, <3>3
  <2>4. Begins(active', id, index, first, n)
    <3>1. 1 \in 1..n + 1 /\ 2..n + 1 \subseteq 1..n + 1 /\ Len(active') > n
      BY <1>0, <2>3
    <3> HIDE DEF last
    <3> QED
      BY <2>1, <2>3, <3>1 DEF ActiveBegins, Begins
  <2>5. Closes(active', id, index, first, n)
    BY <1>0, <1>7, <2>3, <2>4 DEF Closes
  <2>6. ActiveCloses'
    BY <1>7, <2>5 DEF ActiveCloses
  <2> QED
    BY <1>0, <1>7, <2>6 DEF FileInv, Expected
<1>8. CASE FinishRotated
  <2>1. ASSUME NEW lossless \in BOOLEAN, NEW bytes \in FooterBytes,
               phase = "rotation_footer", phase' = "rotation_flush",
               write_bytes(<<footer("rotation", seq, lossless)>>, bytes),
               UNCHANGED <<capture_id, seq, backups, segment_index, segment_first_seq,
                           segment_events>>
        PROVE  FileInv'
    BY <1>7, <2>1 DEF write_bytes
  <2> QED
    BY <1>2, <1>8, <2>1 DEF FinishRotated, FinishSegment
<1>9. CASE Finish
  <2>1. ASSUME NEW lossless \in BOOLEAN, NEW bytes \in FooterBytes,
               phase = "open", phase' = "final_flush",
               write_bytes(<<footer("duration", None, lossless)>>, bytes),
               UNCHANGED <<capture_id, seq, backups, segment_index, segment_first_seq,
                           segment_events>>
        PROVE  FileInv'
    BY <1>7, <2>1 DEF write_bytes
  <2> QED
    BY <1>2, <1>9, <2>1 DEF Finish, FinishSegment
<1>10. CASE FlushSegment("rotation_flush", "rotate") \/ FlushSegment("final_flush", "done")
  BY <1>1, <1>10 DEF FlushSegment, Flush
<1>11. CASE Abort
  BY <1>2, <1>11 DEF Abort
<1>12. CASE Rotate
  <2>1. /\ phase = "rotate" /\ phase' = "next" /\ active' = <<>>
        /\ segment_first_seq' = seq /\ segment_events' = 0 /\ UNCHANGED seq
    BY <1>12 DEF Rotate
  <2>2. ActiveCloses /\ seq < MaxSeq
    BY <2>1 DEF FileInv
  <2>3. Whole(active)
    <3>1. n \in 0..MaxSeq
      BY <1>0, <2>2
    <3> QED
      BY <1>0, <2>2, <3>1 DEF Whole, ActiveCloses
  <2>4. ASSUME NEW i \in 1..Len(backups') PROVE Whole(backups'[i])
    <3>1. backups'[i] = active \/ \E j \in 1..Len(backups) : backups'[i] = backups[j]
      <4>1. /\ i = 1 => backups'[i] = active
            /\ i > 1 => i - 1 \in 1..Len(backups) /\ backups'[i] = backups[i - 1]
        BY <1>0, <1>12, RotateKeeps
      <4> QED
        BY <4>1
    <3> QED
      BY <2>3, <3>1 DEF FileInv
  <2>5. Open(active')
    BY <2>1 DEF Open
  <2> QED
    BY <1>0, <2>1, <2>2, <2>4, <2>5 DEF FileInv, Expected
<1>13. CASE WriteNext
  <2> DEFINE h == HeaderOf(id, index, first)
             e == EventOf(id, seq)
  <2>1. /\ phase = "next" /\ phase' = "open"
        /\ active' = active \o <<h, e>>
        /\ seq' = seq + 1 /\ segment_events' = segment_events + 1
        /\ UNCHANGED <<backups, capture_id, segment_index, segment_first_seq>>
    BY <1>13, WrittenRecords DEF WriteNext, write_bytes
  <2>2. active = <<>> /\ n = 0 /\ seq < MaxSeq
    BY <2>1 DEF TileInv, RoomInv, FileInv
  <2>3. h.type = "capture_start" /\ e.type = "event" /\ e = EventOf(id, first)
    <3>1. seq = first
      BY <1>0, <2>2
    <3> QED
      BY <3>1 DEF HeaderOf, EventOf
  <2> HIDE DEF h, e
  <2>4. Len(active') = 2 /\ active'[1] = h /\ active'[2] = e
    <3>1. <<>> \o <<h, e>> = <<h, e>>
      OBVIOUS
    <3> QED
      BY <2>1, <2>2, <3>1
  <2>5. Begins(active', id, index, first, 1)
    <3>1. \A i \in 2..2 : active'[i] = EventOf(id, first + i - 2)
      BY <1>0, <2>3, <2>4
    <3> QED
      BY <2>4, <3>1 DEF Begins, h
  <2>6. Open(active')
    BY <2>3, <2>4 DEF Open
  <2>7. ActiveBegins' /\ Len(active') = segment_events' + 1
    BY <1>0, <2>1, <2>2, <2>4, <2>5 DEF ActiveBegins
  <2> QED
    BY <1>0, <2>1, <2>2, <2>6, <2>7 DEF FileInv, Expected
<1>14. CASE Crash
  <2>1. /\ phase' = "crashed" /\ UNCHANGED <<capture_id, seq, backups, counters>>
    BY <1>14 DEF Crash
  <2>2. PICK whole \in on_disk..Len(active), torn \in {<<>>, <<[type |-> "malformed"]>>} :
          /\ torn # <<>> => whole < Len(active)
          /\ active' = SubSeq(active, 1, whole) \o torn
    BY <1>14 DEF Crash
  <2>3. /\ Len(active') = whole + Len(torn) /\ whole \in 0..Len(active)
        /\ \A i \in 1..whole : active'[i] = active[i]
        /\ \A i \in 1..Len(torn) : active'[whole + i] = torn[i]
        /\ whole = Len(active) => active' = active
    BY <1>0, <2>2, CrashKeeps
  <2>4. \A i \in 1..Len(torn) : torn[i].type # "capture_end" /\ i = 1
    <3>1. CASE torn = <<>>
      BY <3>1
    <3>2. CASE torn = <<[type |-> "malformed"]>>
      BY <3>2
    <3> QED
      BY <3>1, <3>2
  <2>5. CASE whole = Len(active)
    BY <1>1, <2>1, <2>3, <2>5
  <2>6. CASE whole < Len(active)
    <3>1. \A i \in 1..whole : active[i].type # "capture_end"
      <4>1. CASE Open(active)
        BY <1>0, <2>3, <4>1 DEF Open
      <4>2. CASE ActiveCloses
        <5>1. ActiveBegins /\ Len(active) = n + 2
          BY <4>2 DEF ActiveCloses, ActiveBegins, Closes
        <5>2. \A i \in 1..n + 1 : active[i].type # "capture_end"
          BY <1>0, <5>1, BeginsOpen DEF ActiveBegins
        <5>3. \A i \in 1..whole : i \in 1..n + 1
          BY <1>0, <2>3, <2>6, <5>1
        <5> QED
          BY <5>2, <5>3
      <4> QED
        BY <4>1, <4>2 DEF FileInv
    <3>2. Open(active')
      <4> SUFFICES ASSUME NEW i \in 1..Len(active') PROVE active'[i].type # "capture_end"
        BY DEF Open
      <4>1. CASE i \in 1..whole
        BY <2>3, <3>1, <4>1
      <4>2. CASE i > whole
        <5>1. Len(torn) \in Nat
          BY <2>2
        <5>2. PICK j \in 1..Len(torn) : i = whole + j
          <6>1. i - whole \in 1..Len(torn) /\ i = whole + (i - whole)
            BY <2>3, <4>2, <5>1
          <6> QED
            BY <6>1
        <5> QED
          BY <2>3, <2>4, <5>2
      <4> QED
        BY <2>3, <4>1, <4>2
    <3> QED
      BY <1>0, <2>1, <3>2 DEF FileInv, Expected, counters
  <2> QED
    BY <2>3, <2>5, <2>6
<1> QED
  BY <1>3, <1>4, <1>5, <1>6, <1>8, <1>9, <1>10, <1>11, <1>12, <1>13, <1>14 DEF Next

-----------------------------------------------------------------------------
\* Every set of numbers has a least one: in place of an induction.
LEMMA LeastNumber ==
  ASSUME NEW N \in SUBSET Nat, N # {}
  PROVE  \E n \in N : \A m \in N : n <= m
<1>1. PICK n \in N : \A m \in N : ~(<<m, n>> \in OpToRel(<, Nat))
  BY NatLessThanWellFounded, WFMin
<1>2. \A m \in N : ~(m < n)
  BY <1>1 DEF OpToRel
<1> QED
  BY <1>2

\* One record of replay's pass,
Step(reader, record) == IF reader.status = "reading" THEN ReadRecord(reader, record) ELSE reader

\* and the readers after each record of a stream.
Passes(p, stream, n) ==
  /\ p[0] = NewReader
  /\ \A i \in 1..n : p[i] = Step(p[i - 1], stream[i])

\* g folds the records at each set of positions, the largest last,
Folds(g, stream, n) ==
  g = [s \in SUBSET (1..n) |->
         IF s = {} THEN NewReader ELSE Step(g[s \ {Max(s)}], stream[Max(s)])]

\* and FoldLeft, unfolded, is the value of such a table at all positions.
LEMMA FoldUnfold ==
  ASSUME NEW stream, NEW n \in Nat, DOMAIN stream = 1..n
  PROVE  LET last == (CHOOSE g : Folds(g, stream, n))[1..n]
         IN  replay(stream) = IF last.status = "reading" THEN Conclude(last) ELSE last
BY DEF replay, FoldLeft, MapThenFoldSet, Folds, Step

\* The largest of a set of numbers up to a bound.
LEMMA MaxOf ==
  ASSUME NEW n \in Nat, NEW s \in SUBSET (1..n), n \in s
  PROVE  Max(s) = n
<1>1. \A x \in s : n >= x
  OBVIOUS
<1>2. \A x \in s : (\A y \in s : x >= y) => x = n
  BY <1>1
<1> QED
  BY <1>1, <1>2 DEF Max

\* There is such a table for every length.
LEMMA FoldExists ==
  ASSUME NEW stream, NEW n \in Nat
  PROVE  \E g : Folds(g, stream, n)
<1> DEFINE N == {m \in Nat : ~\E g : Folds(g, stream, m)}
<1> SUFFICES ASSUME N # {} PROVE FALSE
  OBVIOUS
<1>1. PICK m \in N : \A k \in N : m <= k
  BY LeastNumber
<1>2. m # 0
  <2> DEFINE g == [s \in SUBSET (1..0) |-> NewReader]
  <2>1. \A s \in SUBSET (1..0) : s = {}
    OBVIOUS
  <2>2. Folds(g, stream, 0)
    BY <2>1 DEF Folds
  <2> QED
    BY <2>2
<1>3. PICK k \in Nat : m = k + 1
  <2>1. m - 1 \in Nat /\ m = (m - 1) + 1
    BY <1>2
  <2> QED
    BY <2>1
<1>4. PICK g : Folds(g, stream, k)
  BY <1>1, <1>3
<1> DEFINE h == [s \in SUBSET (1..m) |->
                   IF m \in s THEN Step(g[s \ {m}], stream[m]) ELSE g[s]]
<1>5. ASSUME NEW s \in SUBSET (1..m), m \in s PROVE Max(s) = m /\ s \ {m} \in SUBSET (1..k)
  BY <1>3, <1>5, MaxOf
<1>6. ASSUME NEW s \in SUBSET (1..k) PROVE s \in SUBSET (1..m) /\ m \notin s /\ h[s] = g[s]
  BY <1>3
<1>7. ASSUME NEW s \in SUBSET (1..m), m \notin s PROVE s \in SUBSET (1..k)
  BY <1>3, <1>7
<1>8. ASSUME NEW s \in SUBSET (1..k), s # {} PROVE s \ {Max(s)} \in SUBSET (1..k)
  OBVIOUS
<1>9. ASSUME NEW s \in SUBSET (1..m)
      PROVE  h[s] = IF s = {} THEN NewReader ELSE Step(h[s \ {Max(s)}], stream[Max(s)])
  <2>1. CASE m \in s
    <3>1. h[s] = Step(g[s \ {m}], stream[m]) /\ s # {}
      BY <2>1
    <3>2. Max(s) = m /\ g[s \ {m}] = h[s \ {m}]
      BY <1>5, <1>6, <2>1
    <3> HIDE DEF h
    <3> QED
      BY <3>1, <3>2
  <2>2. CASE m \notin s
    <3>1. h[s] = g[s] /\ s \in SUBSET (1..k)
      BY <1>7, <2>2
    <3>2. g[s] = IF s = {} THEN NewReader ELSE Step(g[s \ {Max(s)}], stream[Max(s)])
      BY <1>4, <3>1 DEF Folds
    <3>3. s # {} => h[s \ {Max(s)}] = g[s \ {Max(s)}]
      BY <1>6, <1>8, <3>1
    <3> HIDE DEF h
    <3> QED
      BY <3>1, <3>2, <3>3
  <2> QED
    BY <2>1, <2>2
<1>10. Folds(h, stream, m)
  <2>1. h = [s \in SUBSET (1..m) |-> h[s]]
    OBVIOUS
  <2> HIDE DEF h
  <2> QED
    BY <1>9, <2>1 DEF Folds
<1> HIDE DEF h
<1> QED
  BY <1>1, <1>10

\* replay is a pass over the records, one after the other.
LEMMA ReplayPasses ==
  ASSUME NEW stream, NEW n \in Nat, DOMAIN stream = 1..n
  PROVE  \E p : /\ Passes(p, stream, n)
                /\ replay(stream) = IF p[n].status = "reading" THEN Conclude(p[n]) ELSE p[n]
<1> DEFINE g == CHOOSE h : Folds(h, stream, n)
           p == [i \in 0..n |-> g[1..i]]
<1>1. Folds(g, stream, n)
  BY FoldExists
<1>2. replay(stream) = IF g[1..n].status = "reading" THEN Conclude(g[1..n]) ELSE g[1..n]
  BY FoldUnfold
<1> HIDE DEF g
<1>3. p[0] = NewReader
  <2>1. 1..0 = {} /\ p[0] = g[{}] /\ {} \in SUBSET (1..n)
    OBVIOUS
  <2> HIDE DEF p
  <2> QED
    BY <1>1, <2>1 DEF Folds
<1>4. ASSUME NEW i \in 1..n PROVE p[i] = Step(p[i - 1], stream[i])
  <2>1. /\ 1..i \in SUBSET (1..n) /\ i \in 1..i
        /\ (1..i) \ {i} = 1..i - 1
    OBVIOUS
  <2>2. Max(1..i) = i
    BY <2>1, MaxOf
  <2>3. g[1..i] = Step(g[(1..i) \ {i}], stream[i])
    BY <1>1, <2>1, <2>2 DEF Folds
  <2>4. p[i] = g[1..i] /\ p[i - 1] = g[1..i - 1]
    OBVIOUS
  <2> HIDE DEF p
  <2> QED
    BY <2>1, <2>3, <2>4
<1>5. p[n] = g[1..n]
  OBVIOUS
<1> HIDE DEF p
<1>6. Passes(p, stream, n)
  BY <1>3, <1>4 DEF Passes
<1> QED
  BY <1>2, <1>5, <1>6

-----------------------------------------------------------------------------
\* A reader's fields.
Fields == {"status", "start", "end", "observed_events", "routes", "completed_routes"}

\* The reader has read the header and k events of a segment.
HasRead(r, id, index, first, k) ==
  /\ DOMAIN r = Fields
  /\ r.status = "reading" /\ r.start = HeaderOf(id, index, first) /\ r.end = None
  /\ r.observed_events = k

\* A header is a record, and so is its segment.
LEMMA HeaderIsSome ==
  ASSUME NEW id \in Nat, NEW index \in Nat, NEW first \in Nat
  PROVE  /\ HeaderOf(id, index, first) # None
         /\ HeaderOf(id, index, first).segment # None
         /\ first_seq(HeaderOf(id, index, first)) = first
<1>1. [index |-> index, first_seq |-> first] \in [index : Nat, first_seq : Nat]
  OBVIOUS
<1>2. HeaderOf(id, index, first) \in Envelope
  BY <1>1 DEF HeaderOf, Envelope
<1>3. [index |-> index, first_seq |-> first] # None
  BY <1>1, NoneAssumption
<1>4. HeaderOf(id, index, first).segment = [index |-> index, first_seq |-> first]
  BY DEF HeaderOf
<1>5. first_seq(HeaderOf(id, index, first)) = first
  BY <1>3, <1>4 DEF first_seq
<1> QED
  BY <1>2, <1>3, <1>4, <1>5, NoneAssumption

\* A footer is a record, and so is its segment.
LEMMA FooterIsSome ==
  ASSUME NEW id \in Nat, NEW index \in Nat, NEW first \in Nat, NEW n \in Nat, NEW f,
         \E stop_reason \in {"rotation", "duration"}, next_seq \in Nat \cup {None},
            lossless \in BOOLEAN :
           f = FooterOf(id, index, first, n, stop_reason, next_seq, lossless)
  PROVE  f # None /\ f.segment # None
<1>1. PICK stop_reason \in {"rotation", "duration"}, next_seq \in Nat \cup {None},
           lossless \in BOOLEAN :
             f = FooterOf(id, index, first, n, stop_reason, next_seq, lossless)
  OBVIOUS
<1> DEFINE sg == [index |-> index, first_seq |-> first, next_seq |-> next_seq]
<1>2. sg \in [index : Nat, first_seq : Nat, next_seq : Nat \cup {None}]
  OBVIOUS
<1>3. f.segment = sg
  BY <1>1 DEF FooterOf
<1>4. f \in Envelope
  BY <1>1, <1>2 DEF FooterOf, Envelope
<1> HIDE DEF sg
<1> QED
  BY <1>2, <1>3, <1>4, NoneAssumption

\* Reading the header.
LEMMA ReadHeader ==
  ASSUME NEW id \in Nat, NEW index \in Nat, NEW first \in Nat
  PROVE  HasRead(Step(NewReader, HeaderOf(id, index, first)), id, index, first, 0)
<1> DEFINE h == HeaderOf(id, index, first)
<1>1. h.type = "capture_start"
  BY DEF HeaderOf
<1> HIDE DEF h
<1>2. Step(NewReader, h) = ReadStart(NewReader, h)
  BY <1>1 DEF Step, ReadRecord, NewReader
<1>3. ReadStart(NewReader, h) =
        [NewReader EXCEPT !.start = h, !.routes = Map!New(route_capacity(h))]
  BY DEF ReadStart, NewReader
<1>4. LET q == Step(NewReader, h)
      IN  /\ DOMAIN q = Fields /\ q.status = "reading" /\ q.start = h /\ q.end = None
          /\ q.observed_events = 0
  BY <1>2, <1>3 DEF NewReader, Fields
<1> QED
  BY <1>4 DEF HasRead, h

\* Keeping track of an event's route changes nothing else.
LEMMA RoutesAside ==
  ASSUME NEW r, DOMAIN r = Fields, NEW e
  PROVE  LET q == RouteEvent(r, e)
         IN  /\ DOMAIN q = Fields /\ q.status = r.status /\ q.start = r.start
             /\ q.end = r.end /\ q.observed_events = r.observed_events
BY DEF RouteEvent, Fields

\* Reading the next event, of as many as a replay takes.
LEMMA ReadNextEvent ==
  ASSUME NEW id \in Nat, NEW index \in Nat, NEW first \in Nat, NEW k \in Nat, NEW r,
         HasRead(r, id, index, first, k)
  PROVE  LET q == Step(r, EventOf(id, first + k))
         IN  \/ k < MAX_REPLAY_EVENTS /\ HasRead(q, id, index, first, k + 1)
             \/ k >= MAX_REPLAY_EVENTS /\ q.status = "rejected"
<1> DEFINE e == EventOf(id, first + k)
           h == HeaderOf(id, index, first)
<1>1. /\ e.type = "event" /\ e.schema = CONTRACT_VERSION /\ e.capture_id = id /\ e.valid = TRUE
      /\ e.seq = first + k /\ h.capture_id = id
  BY DEF EventOf, HeaderOf
<1>2. h # None /\ first_seq(h) = first
  BY HeaderIsSome
<1>3. /\ DOMAIN r = Fields /\ r.status = "reading" /\ r.start = h /\ r.end = None
      /\ r.observed_events = k
  BY DEF HasRead
<1> HIDE DEF e, h
<1>4. Step(r, e) = ReadEvent(r, e)
  BY <1>1, <1>3 DEF Step, ReadRecord
<1>5. validate_event(e, h)
  BY <1>1 DEF validate_event
<1>6. MAX_REPLAY_EVENTS \in Nat
  BY ReplayAssumption
<1>7. CASE k < MAX_REPLAY_EVENTS
  <2> DEFINE s == [r EXCEPT !.observed_events = k + 1]
  <2>1. ReadEvent(r, e) = RouteEvent(s, e)
    BY <1>1, <1>2, <1>3, <1>5, <1>7 DEF ReadEvent
  <2>2. /\ DOMAIN s = Fields /\ s.status = "reading" /\ s.start = h /\ s.end = None
        /\ s.observed_events = k + 1
    BY <1>3 DEF Fields
  <2> HIDE DEF s
  <2>3. HasRead(RouteEvent(s, e), id, index, first, k + 1)
    BY <2>2, RoutesAside DEF HasRead, h
  <2> QED
    BY <1>4, <1>7, <2>1, <2>3 DEF e
<1>8. CASE k >= MAX_REPLAY_EVENTS
  <2>1. ReadEvent(r, e) = Reject(r)
    BY <1>3, <1>6, <1>8 DEF ReadEvent
  <2>2. Reject(r).status = "rejected"
    BY <1>3 DEF Reject, Fields
  <2> QED
    BY <1>4, <1>8, <2>1, <2>2 DEF e
<1> QED
  BY <1>6, <1>7, <1>8

\* Only a footer ends a trace.
LEMMA EndsAtFooter ==
  ASSUME NEW r, DOMAIN r = Fields, r.end = None, NEW e,
         e.type \in {"capture_start", "event", "malformed"}
  PROVE  DOMAIN Step(r, e) = Fields /\ Step(r, e).end = None
<1>1. DOMAIN Reject(r) = Fields /\ Reject(r).end = None
  BY DEF Reject, Fields
<1>2. ReadRecord(r, e) \in {ReadStart(r, e), ReadEvent(r, e), Reject(r)}
  BY DEF ReadRecord
<1>3. DOMAIN ReadStart(r, e) = Fields /\ ReadStart(r, e).end = None
  BY <1>1 DEF ReadStart, Fields
<1>4. DOMAIN ReadEvent(r, e) = Fields /\ ReadEvent(r, e).end = None
  <2> DEFINE s == [r EXCEPT !.observed_events = @ + 1]
  <2>1. DOMAIN s = Fields /\ s.end = None
    BY DEF Fields
  <2>2. ReadEvent(r, e) = RouteEvent(s, e) \/ ReadEvent(r, e) = Reject(r)
    BY DEF ReadEvent
  <2> HIDE DEF s
  <2> QED
    BY <1>1, <2>1, <2>2, RoutesAside
<1> QED
  BY <1>1, <1>2, <1>3, <1>4 DEF Step

\* A file without a footer is read as one.
LEMMA OpenFile ==
  ASSUME NEW file, NEW n \in Nat, DOMAIN file = 1..n,
         \A i \in 1..n : file[i].type \in {"capture_start", "event", "malformed"}
  PROVE  replay(file).end = None
<1>1. PICK p : /\ Passes(p, file, n)
               /\ replay(file) = IF p[n].status = "reading" THEN Conclude(p[n]) ELSE p[n]
  BY ReplayPasses
<1> DEFINE N == {i \in 0..n : ~(DOMAIN p[i] = Fields /\ p[i].end = None)}
<1>2. N = {}
  <2> SUFFICES ASSUME N # {} PROVE FALSE
    OBVIOUS
  <2>1. PICK i \in N : \A j \in N : i <= j
    <3>1. N \in SUBSET Nat
      OBVIOUS
    <3> HIDE DEF N
    <3> QED
      BY <3>1, LeastNumber
  <2>2. i # 0
    BY <1>1 DEF Passes, NewReader, Fields
  <2>3. i \in 1..n /\ i - 1 \in 0..n /\ i - 1 \notin N
    BY <2>1, <2>2
  <2>4. p[i] = Step(p[i - 1], file[i])
    BY <1>1, <2>3 DEF Passes
  <2>5. DOMAIN p[i] = Fields /\ p[i].end = None
    BY <2>3, <2>4, EndsAtFooter
  <2> QED
    BY <2>5
<1>3. DOMAIN p[n] = Fields /\ p[n].end = None
  <2>1. n \in 0..n
    OBVIOUS
  <2> QED
    BY <1>2, <2>1
<1>4. Conclude(p[n]).end = None
  BY <1>3 DEF Conclude, Reject, Fields
<1> QED
  BY <1>1, <1>3, <1>4

\* Reading the header and events of a segment: a replay takes all of them or gives
\* up at one that is too many.
LEMMA ReadSegment ==
  ASSUME NEW id \in Nat, NEW index \in Nat, NEW first \in Nat, NEW n \in Nat,
         NEW file, Begins(file, id, index, first, n),
         NEW m \in Nat, n + 1 <= m, NEW p, Passes(p, file, m)
  PROVE  \A k \in 0..n : \/ HasRead(p[k + 1], id, index, first, k) /\ k <= MAX_REPLAY_EVENTS
                         \/ p[k + 1].status = "rejected" /\ k > MAX_REPLAY_EVENTS
<1> DEFINE Good(k) == \/ HasRead(p[k + 1], id, index, first, k) /\ k <= MAX_REPLAY_EVENTS
                      \/ p[k + 1].status = "rejected" /\ k > MAX_REPLAY_EVENTS
           N == {k \in 0..n : ~Good(k)}
<1> SUFFICES ASSUME N # {} PROVE FALSE
  OBVIOUS
<1>1. PICK k \in N : \A j \in N : k <= j
  <2>1. N \in SUBSET Nat
    OBVIOUS
  <2> HIDE DEF N
  <2> QED
    BY <2>1, LeastNumber
<1>2. MAX_REPLAY_EVENTS \in Nat \ {0}
  BY ReplayAssumption
<1>3. k # 0
  <2>1. p[1] = Step(NewReader, HeaderOf(id, index, first))
    <3>1. 1 \in 1..m /\ 1 - 1 = 0
      OBVIOUS
    <3> QED
      BY <3>1 DEF Passes, Begins
  <2>2. HasRead(p[0 + 1], id, index, first, 0)
    BY <2>1, ReadHeader
  <2> QED
    BY <1>1, <1>2, <2>2
<1>4. PICK j \in Nat : k = j + 1
  <2>1. k - 1 \in Nat /\ k = (k - 1) + 1
    BY <1>3
  <2> QED
    BY <2>1
<1>5. j \in 0..n /\ Good(j)
  BY <1>1, <1>4
<1>6. p[k + 1] = Step(p[k], EventOf(id, first + j))
  <2>1. k + 1 \in 1..m /\ k + 1 \in 2..n + 1 /\ (k + 1) - 1 = k /\ first + (k + 1) - 2 = first + j
    BY <1>4
  <2> QED
    BY <2>1 DEF Passes, Begins
<1>7. CASE HasRead(p[k], id, index, first, j) /\ j <= MAX_REPLAY_EVENTS
  <2>1. \/ j < MAX_REPLAY_EVENTS /\ HasRead(p[k + 1], id, index, first, k)
        \/ j >= MAX_REPLAY_EVENTS /\ p[k + 1].status = "rejected"
    <3>1. PICK r : r = p[k] /\ HasRead(r, id, index, first, j)
      BY <1>7
    <3>2. PICK q : q = Step(r, EventOf(id, first + j))
      OBVIOUS
    <3>3. \/ j < MAX_REPLAY_EVENTS /\ HasRead(q, id, index, first, j + 1)
          \/ j >= MAX_REPLAY_EVENTS /\ q.status = "rejected"
      BY <3>1, <3>2, ReadNextEvent
    <3>4. q = p[k + 1]
      BY <1>6, <3>1, <3>2
    <3> QED
      BY <1>4, <3>3, <3>4
  <2>2. (j < MAX_REPLAY_EVENTS => k <= MAX_REPLAY_EVENTS)
        /\ (j >= MAX_REPLAY_EVENTS => k > MAX_REPLAY_EVENTS)
    BY <1>2, <1>4
  <2>3. Good(k)
    BY <2>1, <2>2
  <2> QED
    BY <1>1, <2>3
<1>8. CASE p[k].status = "rejected" /\ j > MAX_REPLAY_EVENTS
  <2>1. p[k + 1].status = "rejected"
    BY <1>6, <1>8 DEF Step
  <2>2. Good(k)
    BY <1>2, <1>4, <1>8, <2>1
  <2> QED
    BY <1>1, <2>2
<1> QED
  BY <1>4, <1>5, <1>7, <1>8

\* A closed segment is accepted, as what it is, if and only if it has no more events
\* than a replay takes.
LEMMA ClosedFile ==
  ASSUME NEW id \in Nat, NEW index \in Nat, NEW first \in Nat, NEW n \in Nat,
         NEW file, DOMAIN file = 1..n + 2, Closes(file, id, index, first, n)
  PROVE  LET reader == replay(file)
         IN  /\ n <= MAX_REPLAY_EVENTS => reader.status = "accepted" /\ reader.end # None
             /\ n > MAX_REPLAY_EVENTS => reader.status # "accepted"
             /\ reader.status = "accepted" =>
                  /\ reader.start = HeaderOf(id, index, first)
                  /\ reader.observed_events = n
<1>1. PICK p : /\ Passes(p, file, n + 2)
               /\ replay(file) = IF p[n + 2].status = "reading" THEN Conclude(p[n + 2])
                                 ELSE p[n + 2]
  BY ReplayPasses
<1>2. Begins(file, id, index, first, n)
  BY DEF Closes
<1>3. \/ HasRead(p[n + 1], id, index, first, n) /\ n <= MAX_REPLAY_EVENTS
      \/ p[n + 1].status = "rejected" /\ n > MAX_REPLAY_EVENTS
  <2>1. n \in 0..n /\ n + 2 \in Nat /\ n + 1 <= n + 2
    OBVIOUS
  <2> QED
    BY <1>1, <1>2, <2>1, ReadSegment
<1>4. PICK stop_reason \in {"rotation", "duration"}, next_seq \in Nat \cup {None},
           lossless \in BOOLEAN :
        /\ file[n + 2] = FooterOf(id, index, first, n, stop_reason, next_seq, lossless)
        /\ \/ stop_reason = "rotation" /\ next_seq = first + n
           \/ stop_reason = "duration" /\ next_seq = None
  <2>1. first + n \in Nat
    OBVIOUS
  <2> QED
    BY <2>1 DEF Closes
<1> DEFINE f == FooterOf(id, index, first, n, stop_reason, next_seq, lossless)
           h == HeaderOf(id, index, first)
<1>4a. \E why \in {"rotation", "duration"}, next \in Nat \cup {None}, b \in BOOLEAN :
        file[n + 2] = FooterOf(id, index, first, n, why, next, b)
  BY <1>4
<1>5. p[n + 2] = Step(p[n + 1], f)
  <2>1. n + 2 \in 1..n + 2 /\ (n + 2) - 1 = n + 1
    OBVIOUS
  <2> QED
    BY <1>1, <1>4, <2>1 DEF Passes
<1>6. CASE p[n + 1].status = "rejected" /\ n > MAX_REPLAY_EVENTS
  <2>1. p[n + 2].status = "rejected"
    BY <1>5, <1>6 DEF Step
  <2>2. ~(n <= MAX_REPLAY_EVENTS)
    BY <1>6, ReplayAssumption
  <2> QED
    BY <1>1, <2>1, <2>2
<1>7. CASE HasRead(p[n + 1], id, index, first, n) /\ n <= MAX_REPLAY_EVENTS
  <2> DEFINE r == p[n + 1]
             q == [r EXCEPT !.end = f]
  <2>1. /\ DOMAIN r = Fields /\ r.status = "reading" /\ r.start = h /\ r.end = None
        /\ r.observed_events = n
    BY <1>7 DEF HasRead
  <2>2. h # None /\ h.segment # None /\ f # None /\ f.segment # None
    <3>1. h # None /\ h.segment # None
      BY HeaderIsSome
    <3>2. f # None /\ f.segment # None
      <4>1. file[n + 2] # None /\ file[n + 2].segment # None
        BY <1>4a, FooterIsSome
      <4> QED
        BY <1>4, <4>1
    <3> QED
      BY <3>1, <3>2
  <2>3. /\ f.type = "capture_end" /\ f.schema = CONTRACT_VERSION /\ f.capture_id = id
        /\ f.events = n /\ f.complete = lossless /\ f.lossless = lossless
        /\ f.stop_reason = stop_reason
        /\ f.segment.index = index /\ f.segment.first_seq = first
        /\ f.segment.next_seq = next_seq
    BY DEF FooterOf
  <2>4. /\ h.schema = CONTRACT_VERSION /\ h.capture_id = id
        /\ h.segment.index = index /\ h.segment.first_seq = first
    BY DEF HeaderOf
  <2> HIDE DEF f, h, r
  <2>5. Step(r, f) = ReadEnd(r, f)
    BY <2>1, <2>3 DEF Step, ReadRecord
  <2>6. ReadEnd(r, f) = q
    BY <2>1, <2>2, <2>3, <2>4 DEF ReadEnd
  <2>7. /\ DOMAIN q = Fields /\ q.status = "reading" /\ q.start = h /\ q.end = f
        /\ q.observed_events = n
    BY <2>1 DEF Fields
  <2> HIDE DEF q
  <2>8. validate_segment(h, f, n)
    <3>1. first + n # None
      <4>1. first + n \in Nat
        OBVIOUS
      <4> QED
        BY <4>1, NoneAssumption
    <3> QED
      BY <1>4, <2>2, <2>3, <2>4, <3>1 DEF validate_segment
  <2>9. Conclude(q) = [q EXCEPT !.status = "accepted"]
    BY <2>2, <2>3, <2>4, <2>7, <2>8 DEF Conclude
  <2>10. LET c == Conclude(q)
         IN  /\ c.status = "accepted" /\ c.end # None /\ c.start = h
             /\ c.observed_events = n
    BY <2>2, <2>7, <2>9 DEF Fields
  <2>11. replay(file) = Conclude(q)
    BY <1>1, <1>5, <2>5, <2>6, <2>7 DEF r
  <2>12. ~(n > MAX_REPLAY_EVENTS)
    BY <1>7, ReplayAssumption
  <2> QED
    BY <1>7, <2>10, <2>11, <2>12 DEF h
<1> QED
  BY <1>3, <1>6, <1>7

\* The files of the type.
LEMMA EnvelopeTypes ==
  ASSUME NEW r \in Envelope
  PROVE  r.type \in {"capture_start", "event", "capture_end", "malformed"}
BY DEF Envelope

\* What the active file holds is no more than it claims.
LEMMA ActiveIsHonest == RoomInv /\ FilesTypeOK /\ FileInv => CompleteFileIsWhole
<1> SUFFICES ASSUME RoomInv, FilesTypeOK, FileInv,
                    complete(replay(SubSeq(active, 1, on_disk)))
             PROVE  LET reader == replay(SubSeq(active, 1, on_disk))
                    IN  /\ reader.observed_events = segment_events
                        /\ first_seq(reader.start) + segment_events = seq
  BY DEF CompleteFileIsWhole
<1> DEFINE file == SubSeq(active, 1, on_disk)
<1>0. /\ active \in Seq(Envelope) /\ on_disk \in 0..Len(active) /\ capture_id \in Nat
      /\ segment_index \in Nat /\ segment_first_seq \in Nat /\ segment_events \in Nat
  BY DEF FilesTypeOK, RoomInv
<1>1. /\ file \in Seq(Envelope) /\ Len(file) = on_disk
      /\ \A i \in 1..on_disk : file[i] = active[i]
  BY <1>0, Keep
<1>2. replay(file).status = "accepted" /\ replay(file).end # None
  BY DEF complete
<1>3. \E i \in 1..on_disk : active[i].type = "capture_end"
  <2> SUFFICES ASSUME \A i \in 1..on_disk : active[i].type # "capture_end"
               PROVE  replay(file).end = None
    BY <1>2
  <2>1. on_disk \in Nat /\ DOMAIN file = 1..on_disk
    BY <1>0, <1>1
  <2>2. ASSUME NEW i \in 1..on_disk
        PROVE  file[i].type \in {"capture_start", "event", "malformed"}
    <3>1. active[i] \in Envelope /\ active[i].type # "capture_end" /\ file[i] = active[i]
      BY <1>0, <1>1
    <3> HIDE DEF file
    <3> QED
      BY <3>1, EnvelopeTypes
  <2> HIDE DEF file
  <2> QED
    BY <2>1, <2>2, OpenFile
<1>4. ActiveCloses
  BY <1>0, <1>3 DEF FileInv, Open
<1> DEFINE n == segment_events
<1>5. Len(active) = n + 2 /\ ActiveBegins
  BY <1>4 DEF ActiveCloses, ActiveBegins, Closes
<1>6. on_disk = n + 2
  <2>1. \A i \in 1..n + 1 : active[i].type # "capture_end"
    BY <1>0, <1>5, BeginsOpen DEF ActiveBegins
  <2>2. on_disk > n + 1
    BY <1>0, <1>3, <1>5, <2>1
  <2> QED
    BY <1>0, <1>5, <2>2
<1>7. file = active
  BY <1>0, <1>5, <1>6
<1>8. /\ replay(active).start = HeaderOf(capture_id, segment_index, segment_first_seq)
      /\ replay(active).observed_events = n
  <2>1. DOMAIN active = 1..n + 2
    BY <1>0, <1>5
  <2>2. replay(active).status = "accepted"
    BY <1>2, <1>7
  <2> QED
    BY <1>0, <1>4, <2>1, <2>2, ClosedFile DEF ActiveCloses
<1>9. first_seq(replay(active).start) = segment_first_seq
  <2>1. first_seq(HeaderOf(capture_id, segment_index, segment_first_seq)) = segment_first_seq
    BY <1>0, HeaderIsSome
  <2> QED
    BY <1>8, <2>1
<1>10. segment_first_seq + n = seq
  BY DEF FileInv, Expected
<1> QED
  BY <1>7, <1>8, <1>9, <1>10

\* The segments of no more events than a replay takes replay, and they only.
LEMMA SegmentsReplay == RoomInv /\ FilesTypeOK /\ FileInv => RetainedSegmentsReplay
<1> SUFFICES ASSUME RoomInv, FilesTypeOK, FileInv PROVE RetainedSegmentsReplay
  OBVIOUS
<1>0. /\ active \in Seq(Envelope) /\ backups \in Seq(Seq(Envelope)) /\ capture_id \in Nat
      /\ segment_index \in Nat /\ segment_first_seq \in Nat /\ segment_events \in Nat
      /\ MaxSeq \in Nat /\ MAX_REPLAY_EVENTS \in Nat /\ seq \in Nat
      /\ seq = segment_first_seq + segment_events /\ seq <= MaxSeq
  BY OutputAssumption, ReplayAssumption DEF FilesTypeOK, RoomInv, FileInv, Expected
<1>1. ASSUME NEW file \in Seq(Envelope), NEW id \in Nat, NEW index \in Nat, NEW first \in Nat,
             NEW n \in 0..MaxSeq, Closes(file, id, index, first, n)
      PROVE  Replays(file) <=> WithinReplayLimit(file)
  <2>1. n \in Nat
    BY <1>0
  <2>2. DOMAIN file = 1..n + 2
    BY <1>1, <2>1 DEF Closes
  <2>3. Len(file) = n + 2
    BY <1>1, <2>1, <2>2
  <2>4. WithinReplayLimit(file) <=> n <= MAX_REPLAY_EVENTS
    BY <1>0, <2>1, <2>3 DEF WithinReplayLimit
  <2>5. /\ n <= MAX_REPLAY_EVENTS => replay(file).status = "accepted" /\ replay(file).end # None
        /\ n > MAX_REPLAY_EVENTS => replay(file).status # "accepted"
    BY <1>1, <2>1, <2>2, ClosedFile
  <2> QED
    BY <1>0, <2>1, <2>4, <2>5 DEF Replays
<1>2. ASSUME NEW i \in DOMAIN backups
      PROVE  Replays(backups[i]) <=> WithinReplayLimit(backups[i])
  <2>1. i \in 1..Len(backups) /\ backups[i] \in Seq(Envelope)
    BY <1>0
  <2>2. Whole(backups[i])
    BY <2>1 DEF FileInv
  <2>3. PICK id \in Nat, index \in Nat, first \in Nat, n \in 0..MaxSeq :
          Closes(backups[i], id, index, first, n)
    BY <2>2 DEF Whole
  <2> QED
    BY <1>1, <2>1, <2>3
<1>3. phase = "done" => (Replays(active) <=> WithinReplayLimit(active))
  <2> SUFFICES ASSUME phase = "done"
               PROVE  Replays(active) <=> WithinReplayLimit(active)
    OBVIOUS
  <2>1. ActiveCloses
    BY DEF FileInv
  <2>2. segment_events \in 0..MaxSeq
    BY <1>0
  <2> QED
    BY <1>0, <1>1, <2>1, <2>2 DEF ActiveCloses
<1> QED
  BY <1>2, <1>3 DEF RetainedSegmentsReplay

\* FileInv holds at first, and throughout.
LEMMA FileInvariance == Spec => [](RoomInv /\ TileInv /\ FileInv)
<1>1. Init => RoomInv /\ TileInv /\ FileInv
  <2> SUFFICES ASSUME Init PROVE TileInv /\ FileInv
    BY InitRoom
  <2>1. TileInv
    BY DEF Init, TileInv, FilesTypeOK
  <2>2. Open(active) /\ Expected /\ seq <= MaxSeq
    BY OutputAssumption DEF Init, Open, Expected
  <2>3. FileInv
    BY <2>2 DEF Init, FileInv
  <2> QED
    BY <2>1, <2>3
<1> QED
  BY <1>1, Inductive, TileStep, FileStep, PTL DEF Spec

\* Whatever happened to the writer, its file never passes for complete while an
\* event handed to it for that segment is missing: of any number of events, and
\* whether or not a replay takes them all.
THEOREM CompleteMeansWhole == Spec => []CompleteFileIsWhole
<1>1. RoomInv /\ TileInv /\ FileInv => CompleteFileIsWhole
  BY ActiveIsHonest DEF TileInv
<1> QED
  BY <1>1, FileInvariance, PTL

\* And every rotated file, like the last of a capture that ended well, is a whole
\* trace: whatever happened to the writer, it is read back as one unless it has more
\* events than a replay takes, and then it is refused.
THEOREM FilesKeepTheirWord == Spec => []FilesAreWhatTheyClaim
<1>1. RoomInv /\ TileInv /\ FileInv => FilesAreWhatTheyClaim
  BY ActiveIsHonest, SegmentsReplay DEF TileInv, FilesAreWhatTheyClaim
<1> QED
  BY <1>1, FileInvariance, PTL

-----------------------------------------------------------------------------
\* The rest of the writer's types.
BoundsOK ==
  /\ phase \in {"idle", "open", "rotation_footer", "rotation_flush", "rotate", "next",
                "final_flush", "done", "failed", "crashed"}
  /\ capture_id \in 0..MaxCaptures
  /\ Len(backups) <= max_backups
  /\ current_bytes <= max_bytes
  /\ cause \in {None, "event", "header", "footer", "elsewhere", "crash"}

\* A rotation leaves no more backups than are wanted.
LEMMA RotateBounds ==
  ASSUME FilesTypeOK, Rotate
  PROVE  Len(backups') <= max_backups
<1>1. PICK files \in prune_expired_segments(<<active>> \o backups, 1) :
        backups' = SubSeq(files, 1, Min({Len(files), max_backups}))
  BY DEF Rotate
<1>2. files \in Seq(Seq(Envelope))
  <2>1. <<active>> \in Seq(Seq(Envelope)) /\ backups \in Seq(Seq(Envelope))
    BY DEF FilesTypeOK
  <2>2. <<active>> \o backups \in Seq(Seq(Envelope))
    BY <2>1, Extend
  <2>3. PICK kept \in 1..Len(<<active>> \o backups) : files = SubSeq(<<active>> \o backups, 1, kept)
    BY <1>1 DEF prune_expired_segments
  <2> QED
    BY <2>2, <2>3, Keep
<1>3. Len(files) \in Nat /\ max_backups \in Nat
  BY <1>2, OutputAssumption
<1>4. Min({Len(files), max_backups}) \in 0..Len(files) /\ Min({Len(files), max_backups}) <= max_backups
  BY <1>3, MinOfTwo
<1>5. Len(backups') = Min({Len(files), max_backups})
  BY <1>1, <1>2, <1>4, Keep
<1> QED
  BY <1>4, <1>5

\* Each step keeps within the bounds.
LEMMA BoundsStep == RoomInv /\ TileInv /\ BoundsOK /\ [Next]_vars => BoundsOK'
<1> SUFFICES ASSUME RoomInv, TileInv, BoundsOK, [Next]_vars PROVE BoundsOK'
  OBVIOUS
<1>0. /\ FilesTypeOK /\ backups \in Seq(Seq(Envelope)) /\ current_bytes \in Nat
      /\ MaxCaptures \in Nat /\ capture_id \in 0..MaxCaptures
      /\ {max_bytes, FOOTER_RESERVE_BYTES, max_backups} \subseteq Nat
  BY OutputAssumption DEF TileInv, FilesTypeOK, RoomInv, BoundsOK
<1>1. ASSUME NEW why \in {"event", "header", "footer", "elsewhere", "crash"}, Fail(why)
      PROVE  BoundsOK'
  BY <1>1 DEF Fail, BoundsOK, counters
<1>2. CASE UNCHANGED vars
  BY <1>2 DEF vars, counters, BoundsOK
<1>3. CASE New
  <2>1. PICK kept \in 0..Len(backups) : backups' = SubSeq(backups, 1, kept)
    BY <1>3 DEF New, prune_expired_segments
  <2>2. Len(backups') <= max_backups
    <3>1. Len(backups') = kept /\ Len(backups) <= max_backups
      BY <1>0, <2>1, Keep DEF BoundsOK
    <3> QED
      BY <1>0, <2>1, <3>1
  <2>3. capture_id' \in 0..MaxCaptures
    BY <1>0, <1>3 DEF New
  <2>4. PICK bytes \in HeaderBytes :
          \/ phase' = "failed" /\ cause' = "header" /\ current_bytes' = 0
          \/ /\ phase' = "open" /\ cause' = None /\ current_bytes' = bytes
             /\ ~(bytes + FOOTER_RESERVE_BYTES > max_bytes)
    BY <1>3 DEF New
  <2>5. current_bytes' <= max_bytes
    BY <1>0, <2>4, Sizes
  <2> QED
    BY <2>2, <2>3, <2>4, <2>5 DEF BoundsOK
<1>4. ASSUME NEW bytes \in EventBytes, WriteEvent(bytes) PROVE BoundsOK'
  <2>1. current_bytes' = current_bytes + bytes /\ bytes \in Nat
    BY <1>4, Sizes DEF WriteEvent, write_bytes
  <2>2. current_bytes + bytes + FOOTER_RESERVE_BYTES <= max_bytes
    BY <1>4 DEF WriteEvent, Fits
  <2>3. current_bytes' <= max_bytes
    BY <1>0, <2>1, <2>2
  <2> QED
    BY <1>4, <2>3 DEF WriteEvent, BoundsOK
<1>5. ASSUME NEW bytes \in EventBytes, StartRotation(bytes) PROVE BoundsOK'
  <2>1. ASSUME phase' = "rotation_footer",
               UNCHANGED <<capture_id, seq, active, on_disk, backups, counters, cause>>
        PROVE  BoundsOK'
    BY <2>1 DEF BoundsOK, counters
  <2> QED
    BY <1>1, <1>5, <2>1 DEF StartRotation
<1>6. ASSUME NEW to \in {"rotation_flush", "final_flush"}, NEW bytes \in FooterBytes,
             ~(current_bytes + bytes > max_bytes), current_bytes' = current_bytes + bytes,
             phase' = to, UNCHANGED <<capture_id, backups, cause>>
      PROVE  BoundsOK'
  <2>1. current_bytes' <= max_bytes
    BY <1>0, <1>6, Sizes
  <2> QED
    BY <1>6, <2>1 DEF BoundsOK
<1>7. CASE FinishRotated
  BY <1>1, <1>6, <1>7 DEF FinishRotated, FinishSegment, write_bytes
<1>8. CASE Finish
  BY <1>1, <1>6, <1>8 DEF Finish, FinishSegment, write_bytes
<1>9. CASE FlushSegment("rotation_flush", "rotate") \/ FlushSegment("final_flush", "done")
  BY <1>9 DEF FlushSegment, BoundsOK, counters
<1>10. CASE Rotate
  <2>1. Len(backups') <= max_backups
    BY <1>0, <1>10, RotateBounds
  <2>2. phase' = "next" /\ current_bytes' = 0 /\ UNCHANGED <<capture_id, cause>>
    BY <1>10 DEF Rotate
  <2> QED
    BY <1>0, <2>1, <2>2 DEF BoundsOK
<1>11. CASE WriteNext
  <2>1. current_bytes' = current_bytes + (pending.header + pending.event)
    BY <1>11 DEF WriteNext, write_bytes
  <2>2. /\ current_bytes = 0 /\ pending \in [event : EventBytes, header : HeaderBytes]
        /\ pending.header + pending.event + FOOTER_RESERVE_BYTES <= max_bytes
    BY <1>11 DEF WriteNext, RoomInv
  <2>3. pending.header \in Nat /\ pending.event \in Nat
    BY <2>2, Sizes
  <2>4. current_bytes' <= max_bytes
    BY <1>0, <2>1, <2>2, <2>3
  <2> QED
    BY <1>11, <2>4 DEF WriteNext, BoundsOK
<1>12. CASE Abort
  BY <1>1, <1>12 DEF Abort
<1>13. CASE Crash
  BY <1>13 DEF Crash, BoundsOK, counters
<1> QED
  BY <1>2, <1>3, <1>4, <1>5, <1>7, <1>8, <1>9, <1>10, <1>11, <1>12, <1>13 DEF Next

\* The writer's variables are of their types: in particular a file holds at most the
\* bytes and a path at most the backups that were asked for.
THEOREM OutputTypeCorrect == Spec => []OutputTypeOK
<1>1. Init => BoundsOK
  BY OutputAssumption DEF Init, BoundsOK
<1>2. RoomInv /\ TileInv /\ FileInv /\ BoundsOK => OutputTypeOK
  <2> SUFFICES ASSUME RoomInv, TileInv, FileInv, BoundsOK PROVE OutputTypeOK
    OBVIOUS
  <2>1. /\ seq \in 0..MaxSeq /\ segment_first_seq \in 0..MaxSeq
        /\ segment_events \in 0..MaxSeq
    BY OutputAssumption DEF RoomInv, FileInv, Expected
  <2>2. current_bytes \in 0..max_bytes
    BY OutputAssumption DEF RoomInv, BoundsOK
  <2> QED
    BY <2>1, <2>2 DEF RoomInv, TileInv, FilesTypeOK, BoundsOK, OutputTypeOK
<1> QED
  BY <1>1, <1>2, BoundsStep, FileInvariance, PTL DEF Spec
=============================================================================
