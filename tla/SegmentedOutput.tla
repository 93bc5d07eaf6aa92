--------------------------- MODULE SegmentedOutput ---------------------------
(***************************************************************************)
(* The rotating output of `skbx capture`: segments within a byte budget,   *)
(* each with a header and, if all goes well, a footer, the oldest deleted; *)
(* read back with TraceReplay.  Captures follow each other on one path;    *)
(* any of them may be cut short.                                           *)
(*                                                                         *)
(* Sizes are small numbers of bytes.  The 256 KiB buffer in front of the   *)
(* file is abstracted to what may have reached the disk: some of the       *)
(* records, of which a crash or a failed write may tear one.  Renaming the *)
(* files (the crate file-rotate) is one step; compression is left out.     *)
(***************************************************************************)
EXTENDS TraceReplay

CONSTANTS
  max_bytes, FOOTER_RESERVE_BYTES, max_backups,
  HeaderBytes, EventBytes, FooterBytes,  \* sizes of the envelopes
  MaxCaptures,                           \* bound: captures on this path
  MaxSeq                                 \* bound: events of one capture

ASSUME OutputAssumption ==
  /\ {max_bytes, FOOTER_RESERVE_BYTES, max_backups} \subseteq Nat \ {0}
  /\ HeaderBytes \cup EventBytes \cup FooterBytes \subseteq Nat
  /\ MaxCaptures \in Nat /\ MaxSeq \in Nat
  /\ 1..MaxCaptures \subseteq Capture

VARIABLES
  phase,      \* where the writer is
  capture_id,
  seq,        \* the capture's next event
  active,     \* records written to the active file or its buffer
  on_disk,    \* how many of them have reached the file
  backups,    \* rotated files, path.1 first
  current_bytes, segment_index, segment_first_seq, segment_events,
  pending,    \* sizes of the event and header that wait for a rotation
  cause       \* history: what made the writer fail

counters == <<current_bytes, segment_index, segment_first_seq, segment_events>>
vars == <<phase, capture_id, seq, active, on_disk, backups, counters, pending, cause>>

-----------------------------------------------------------------------------
\* The records of a file: headers, events, footers, and a record torn by a crash.
Envelope ==
  [type : {"capture_start"}, schema : {CONTRACT_VERSION}, capture_id : Nat,
   route_cache_entries : {1}, segment : [index : Nat, first_seq : Nat]]
  \cup
  [type : {"event"}, schema : {CONTRACT_VERSION}, capture_id : Nat, valid : {TRUE},
   seq : Nat, skb : {CHOOSE p \in Skb : TRUE}, identity : {CHOOSE p \in Skb : TRUE},
   function : {CHOOSE f \in Function : TRUE}, match_origin : {"association"}]
  \cup
  [type : {"capture_end"}, schema : {CONTRACT_VERSION}, capture_id : Nat, events : Nat,
   complete : BOOLEAN, lossless : BOOLEAN,
   segment : [index : Nat, first_seq : Nat, next_seq : Nat \cup {None}],
   stop_reason : {"rotation", "duration"}]
  \cup
  [type : {"malformed"}]

\* Option's None is no value of the others.
ASSUME NoneAssumption ==
  None \notin Nat \cup [index : Nat, first_seq : Nat]
             \cup [index : Nat, first_seq : Nat, next_seq : Nat \cup {None}] \cup Envelope

header(index, first) ==
  [type |-> "capture_start", schema |-> CONTRACT_VERSION, capture_id |-> capture_id,
   route_cache_entries |-> 1, segment |-> [index |-> index, first_seq |-> first]]

Event ==
  [type |-> "event", schema |-> CONTRACT_VERSION, capture_id |-> capture_id, valid |-> TRUE,
   seq |-> seq, skb |-> CHOOSE p \in Skb : TRUE, identity |-> CHOOSE p \in Skb : TRUE,
   function |-> CHOOSE f \in Function : TRUE, match_origin |-> "association"]

\* Mutant: every footer declares the sequence number that follows.
footerAlwaysNext(stop_reason, next_seq, lossless) ==
  [type |-> "capture_end", schema |-> CONTRACT_VERSION, capture_id |-> capture_id,
   events |-> segment_events, complete |-> lossless, lossless |-> lossless,
   segment |-> [index |-> segment_index, first_seq |-> segment_first_seq,
                next_seq |-> seq],
   stop_reason |-> stop_reason]

footer(stop_reason, next_seq, lossless) ==
  [type |-> "capture_end", schema |-> CONTRACT_VERSION, capture_id |-> capture_id,
   events |-> segment_events, complete |-> lossless, lossless |-> lossless,
   segment |-> [index |-> segment_index, first_seq |-> segment_first_seq,
                next_seq |-> next_seq],
   stop_reason |-> stop_reason]

-----------------------------------------------------------------------------
\* Writing through the buffer: what was there before may now reach the disk, and
\* a record as large as the buffer does so at once.
write_bytes(records, bytes) ==
  /\ active' = active \o records
  /\ on_disk' \in {on_disk} \cup Len(active)..Len(active')
  /\ current_bytes' = current_bytes + bytes

Flush == on_disk' = Len(active) /\ UNCHANGED active

\* The writer returns an error; dropping its buffer writes what is in it.
Fail(why) ==
  /\ phase' = "failed"
  /\ cause' = why
  /\ Flush
  /\ UNCHANGED <<capture_id, seq, backups, counters, pending>>

\* The backups that are too old are removed, never the `youngest`; the oldest have
\* the largest numbers (the clock that dates them goes forward).
prune_expired_segments(files, youngest) ==
  {SubSeq(files, 1, kept) : kept \in youngest..Len(files)}

\* A capture truncates the path, keeps the backups of earlier ones, and fails at
\* once if the header leaves no room.
New ==
  /\ phase \in {"idle", "done", "failed", "crashed"}
  /\ capture_id < MaxCaptures
  /\ capture_id' = capture_id + 1
  /\ seq' = 0 /\ segment_index' = 0 /\ segment_first_seq' = 0 /\ segment_events' = 0
  /\ backups' \in prune_expired_segments(backups, 0)
  /\ UNCHANGED pending
  /\ \E bytes \in HeaderBytes :
       IF bytes + FOOTER_RESERVE_BYTES > max_bytes
         THEN /\ phase' = "failed" /\ cause' = "header"
              /\ active' = <<>> /\ on_disk' = 0 /\ current_bytes' = 0
         ELSE /\ phase' = "open" /\ cause' = None
              /\ active' = <<header(0, 0)'>> /\ on_disk' = 1 /\ current_bytes' = bytes

\* Mutant: the reserve for the footer is forgotten.
FitsTightly(bytes) == current_bytes + bytes <= max_bytes

Fits(bytes) == current_bytes + bytes + FOOTER_RESERVE_BYTES <= max_bytes

\* The number write_event expects, and the event's.  It refuses any other, which
\* SegmentsTile shows cannot happen.
Expected == seq = segment_first_seq + segment_events

\* write_event when the segment has room.
WriteEvent(bytes) ==
  /\ phase = "open" /\ seq < MaxSeq /\ Expected
  /\ Fits(bytes)
  /\ write_bytes(<<Event>>, bytes)
  /\ seq' = seq + 1
  /\ segment_events' = segment_events + 1
  /\ UNCHANGED <<phase, capture_id, backups, segment_index, segment_first_seq, pending, cause>>

\* write_event when it has none, up to the sampling of the segment's footer.
StartRotation(bytes) ==
  /\ phase = "open" /\ seq < MaxSeq /\ Expected
  /\ ~Fits(bytes)
  /\ IF segment_events = 0
       THEN Fail("event")
       ELSE \E next_header \in HeaderBytes :
              IF next_header + bytes + FOOTER_RESERVE_BYTES > max_bytes
                THEN Fail("event")
                ELSE /\ phase' = "rotation_footer"
                     /\ pending' = [event |-> bytes, header |-> next_header]
                     /\ UNCHANGED <<capture_id, seq, active, on_disk, backups, counters, cause>>

\* finish_segment.
FinishSegment(from, to, stop_reason, next_seq) ==
  /\ phase = from
  /\ \E bytes \in FooterBytes, lossless \in BOOLEAN :
       IF current_bytes + bytes > max_bytes
         THEN Fail("footer")
         ELSE /\ phase' = to
              /\ write_bytes(<<footer(stop_reason, next_seq, lossless)>>, bytes)
              /\ UNCHANGED <<capture_id, seq, backups, segment_index, segment_first_seq,
                             segment_events, pending, cause>>

FinishRotated == FinishSegment("rotation_footer", "rotation_flush", "rotation", seq)
Finish == FinishSegment("open", "final_flush", "duration", None)

FlushSegment(from, to) ==
  /\ phase = from
  /\ phase' = to
  /\ Flush
  /\ UNCHANGED <<capture_id, seq, backups, counters, pending, cause>>

\* Mutant: the next segment starts after the event that caused the rotation.
RotateSkipping ==
  /\ phase = "rotate"
  /\ phase' = "next"
  /\ \E files \in prune_expired_segments(<<active>> \o backups, 1) :
       backups' = SubSeq(files, 1, Min({Len(files), max_backups}))
  /\ active' = <<>> /\ on_disk' = 0 /\ current_bytes' = 0
  /\ segment_index' = segment_index + 1
  /\ segment_first_seq' = seq + 1
  /\ segment_events' = 0
  /\ UNCHANGED <<capture_id, seq, pending, cause>>

\* The active file becomes path.1, and the oldest goes if there are too many.
Rotate ==
  /\ phase = "rotate"
  /\ phase' = "next"
  /\ \E files \in prune_expired_segments(<<active>> \o backups, 1) :
       backups' = SubSeq(files, 1, Min({Len(files), max_backups}))
  /\ active' = <<>> /\ on_disk' = 0 /\ current_bytes' = 0
  /\ segment_index' = segment_index + 1
  /\ segment_first_seq' = seq
  /\ segment_events' = 0
  /\ UNCHANGED <<capture_id, seq, pending, cause>>

\* The next segment's header, and the event that had to wait for it.
WriteNext ==
  /\ phase = "next"
  /\ phase' = "open"
  /\ write_bytes(<<header(segment_index, segment_first_seq), Event>>,
                 pending.header + pending.event)
  /\ seq' = seq + 1
  /\ segment_events' = segment_events + 1
  /\ pending' = None
  /\ UNCHANGED <<capture_id, backups, segment_index, segment_first_seq, cause>>

\* capture() fails elsewhere and drops the writer without a footer.
Abort == phase = "open" /\ Fail("elsewhere")

\* The process is killed, or a write fails half way: of what is in the buffer some
\* records reach the file, and perhaps a part of one more.
Crash ==
  /\ phase \notin {"idle", "done", "failed", "crashed"}
  /\ phase' = "crashed"
  /\ cause' = "crash"
  /\ \E whole \in on_disk..Len(active), torn \in {<<>>, <<[type |-> "malformed"]>>} :
       /\ torn # <<>> => whole < Len(active)
       /\ active' = SubSeq(active, 1, whole) \o torn
  /\ on_disk' = Len(active')
  /\ UNCHANGED <<capture_id, seq, backups, counters, pending>>

-----------------------------------------------------------------------------
Init ==
  /\ phase = "idle" /\ capture_id = 0 /\ seq = 0
  /\ active = <<>> /\ on_disk = 0 /\ backups = <<>>
  /\ current_bytes = 0 /\ segment_index = 0 /\ segment_first_seq = 0 /\ segment_events = 0
  /\ pending = None /\ cause = None

Next ==
  \/ New
  \/ \E bytes \in EventBytes : WriteEvent(bytes) \/ StartRotation(bytes)
  \/ FinishRotated
  \/ FlushSegment("rotation_flush", "rotate")
  \/ Rotate
  \/ WriteNext
  \/ Finish
  \/ FlushSegment("final_flush", "done")
  \/ Abort
  \/ Crash

Spec == Init /\ [][Next]_vars

-----------------------------------------------------------------------------
OutputTypeOK ==
  /\ phase \in {"idle", "open", "rotation_footer", "rotation_flush", "rotate", "next",
                "final_flush", "done", "failed", "crashed"}
  /\ capture_id \in 0..MaxCaptures /\ seq \in 0..MaxSeq
  /\ active \in Seq(Envelope)
  /\ on_disk \in 0..Len(active)
  /\ Len(backups) <= max_backups
  /\ current_bytes \in 0..max_bytes
  /\ segment_index \in Nat /\ segment_first_seq \in 0..MaxSeq /\ segment_events \in 0..MaxSeq
  /\ pending = None \/ pending \in [event : EventBytes, header : HeaderBytes]
  /\ cause \in {None, "event", "header", "footer", "elsewhere", "crash"}

\* The reader takes the file as a whole trace, header to footer.
Replays(file) == replay(file).status = "accepted" /\ replay(file).end # None

\* Header and footer apart, the file holds no more events than a replay takes.
WithinReplayLimit(file) == Len(file) <= MAX_REPLAY_EVENTS + 2

\* Whatever happened to its capture, a rotated file is a whole trace, and so is the
\* last file of a capture that ended well: each replays on its own exactly when its
\* events are no more than a replay takes.  Nothing else can spoil it, and nothing
\* makes the writer rotate in time for the reader's limit.
RetainedSegmentsReplay ==
  /\ \A i \in DOMAIN backups : Replays(backups[i]) <=> WithinReplayLimit(backups[i])
  /\ phase = "done" => (Replays(active) <=> WithinReplayLimit(active))

\* "Every retained segment replays independently" (docs/pwru-parity.md:46).
EveryRetainedSegmentReplays == \A i \in DOMAIN backups : Replays(backups[i])

\* Reading the active file at any moment, whoever wrote it and however that
\* ended, never yields "complete" while an event handed to the writer for that
\* segment is missing from it.
CompleteFileIsWhole ==
  LET reader == replay(SubSeq(active, 1, on_disk))
  IN complete(reader) =>
       /\ reader.observed_events = segment_events
       /\ first_seq(reader.start) + segment_events = seq

\* What a reader finds under the path: whole segments, and an active file that
\* never passes for more than it is.
FilesAreWhatTheyClaim == RetainedSegmentsReplay /\ CompleteFileIsWhole

\* The retained files of a capture, oldest to newest, hold a contiguous stretch of
\* its events up to the last: no rotation, expiry, crash or later capture opens a
\* gap between two of them, and the writer never meets a number it must refuse.
SegmentsTile ==
  /\ phase = "open" => Expected
  /\ \A i \in DOMAIN backups :
       LET newer == IF i = 1 THEN active ELSE backups[i - 1]
           segment == Last(backups[i]).segment
       IN newer # <<>> /\ Head(newer).type = "capture_start"
            /\ Head(newer).capture_id = Head(backups[i]).capture_id =>
            /\ Head(newer).segment.index = segment.index + 1
            /\ Head(newer).segment.first_seq = segment.next_seq

\* While a segment has no footer there is room for one of the size reserved.
RoomForFooter ==
  phase \in {"open", "rotation_footer"} =>
    current_bytes + FOOTER_RESERVE_BYTES <= max_bytes

\* "The footer is mandatory": the writer never gives up because of it.
FooterIsMandatory == cause # "footer"
=============================================================================
