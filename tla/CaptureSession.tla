--------------------------- MODULE CaptureSession ---------------------------
(***************************************************************************)
(* One run of `skbx capture`: the main loop polls the ring, writes events, *)
(* rotates segments, and ends with a footer sampled from the loss tables   *)
(* while the probes of LossLedger keep firing.  Every map read of the      *)
(* sampling is a step of its own.                                          *)
(*                                                                         *)
(* Abstracted: the bytes that make a segment full (a rotation may be due   *)
(* at any event after a segment's first), and the failures of a map read   *)
(* or of output, which end the capture without a footer as a failed poll   *)
(* does, and of decoding, which cannot happen with the kernel program of   *)
(* the same build.                                                         *)
(***************************************************************************)
EXTENDS LossLedger

CONSTANTS
  MaxEvents,    \* --max-events
  MaxRotations  \* bound: segment rotations (0: the output is one plain file)

ASSUME SessionAssumption == MaxEvents \in Nat \ {0} /\ MaxRotations \in Nat

VARIABLES
  phase,        \* where capture() is
  batch,        \* records returned by sensor.poll() and not yet handled
  written,      \* events written, by seq
  stop_reason,
  boundary,     \* what the sampling under way is for
  todo,         \* keys or CPUs the walk under way must still visit
  sample,       \* the Reliability being read
  reliability_checkpoint,
  segments,     \* Reliability of each segment footer
  discarded,    \* history: polled records dropped at the event limit
  settled       \* history: packets whose losses were filed before sampling

sessionVars == <<phase, batch, written, stop_reason, boundary, todo, sample,
                 reliability_checkpoint, segments, discarded, settled>>
vars == <<kernelVars, sessionVars>>

Phases == {"top", "poll", "drain", "probes", "skbs", "stats", "recursion", "footer", "done", "failed"}

Reliability ==
  [kernel_reserve_failures : Nat,
   kernel_loss_by_probe : [Site -> Nat],
   kernel_unattributed_reserve_failures : Nat,
   kernel_loss_by_skb : [Key -> Nat],
   kernel_skb_loss_unattributed : Nat,
   kernel_recursion_misses : Nat]

DefaultReliability ==
  [kernel_reserve_failures |-> 0,
   kernel_loss_by_probe |-> [s \in Site |-> 0],
   kernel_unattributed_reserve_failures |-> 0,
   kernel_loss_by_skb |-> [k \in Key |-> 0],
   kernel_skb_loss_unattributed |-> 0,
   kernel_recursion_misses |-> 0]

SessionTypeOK ==
  /\ TypeOK
  /\ phase \in Phases
  /\ batch \in Seq(Key)
  /\ written \in Seq(Key)
  /\ stop_reason \in {"duration", "event_limit", "signal"}
  /\ boundary \in {"rotation", "end"}
  /\ todo \subseteq Site \cup Key \cup Cpu
  /\ sample \in Reliability
  /\ reliability_checkpoint \in Reliability
  /\ segments \in Seq(Reliability)
  /\ discarded \in Seq(Key)
  /\ settled \subseteq Skb

SessionInit ==
  /\ KernelInit
  /\ phase = "top"
  /\ batch = <<>>
  /\ written = <<>>
  /\ stop_reason = "duration"
  /\ boundary = "end"
  /\ todo = {}
  /\ sample = DefaultReliability
  /\ reliability_checkpoint = DefaultReliability
  /\ segments = <<>>
  /\ discarded = <<>>
  /\ settled = {}

-----------------------------------------------------------------------------
\* Reliability arithmetic.

Minus(a, b) == IF a >= b THEN a - b ELSE 0    \* saturating_sub

reliability_delta(current, previous) ==
  [kernel_reserve_failures |->
     Minus(current.kernel_reserve_failures, previous.kernel_reserve_failures),
   kernel_loss_by_probe |->
     [s \in Site |-> Minus(current.kernel_loss_by_probe[s], previous.kernel_loss_by_probe[s])],
   kernel_unattributed_reserve_failures |->
     Minus(current.kernel_unattributed_reserve_failures,
           previous.kernel_unattributed_reserve_failures),
   kernel_loss_by_skb |->
     [k \in Key |-> Minus(current.kernel_loss_by_skb[k], previous.kernel_loss_by_skb[k])],
   kernel_skb_loss_unattributed |->
     Minus(current.kernel_skb_loss_unattributed, previous.kernel_skb_loss_unattributed),
   kernel_recursion_misses |->
     Minus(current.kernel_recursion_misses, previous.kernel_recursion_misses)]

complete(r) == r.kernel_reserve_failures = 0 /\ r.kernel_recursion_misses = 0

loss_is_fully_attributed(r) ==
  r.kernel_skb_loss_unattributed = 0 /\ r.kernel_recursion_misses = 0

losses_for_skb(r, p) ==
  SumOver([s \in Site |-> r.kernel_loss_by_skb[[skb |-> p, site |-> s]]], Site)

\* What `skbx explain` says of packet p on the strength of footer r.
skb_evidence(r, p) ==
  IF ~loss_is_fully_attributed(r) THEN "Unknown"
  ELSE IF losses_for_skb(r, p) = 0 THEN "Complete"
  ELSE "Lost"

-----------------------------------------------------------------------------
\* The main loop.

\* The first read of a sampling: the walk of probe_site_loss starts, and must
\* visit the entries the map holds now.
StartSampling(for) ==
  /\ phase' = "probes"
  /\ boundary' = for
  /\ todo' = KnownSites
  /\ sample' = DefaultReliability
  /\ settled' = {k.skb : k \in {l \in Key : lost[l] > Cardinality(Filing(l))}}

\* The deadline has passed, a signal was delivered, or the limit is reached.
\* The deadline leaves stop_reason as it stands.
Stop ==
  /\ phase = "top"
  /\ \/ UNCHANGED stop_reason
     \/ stop_reason' = "signal"
     \/ Len(written) >= MaxEvents /\ stop_reason' = "event_limit"
  /\ StartSampling("end")
  /\ UNCHANGED <<kernelVars, batch, written, reliability_checkpoint, segments, discarded>>

StartPoll ==
  /\ phase = "top"
  /\ Len(written) < MaxEvents
  /\ phase' = "poll"
  /\ UNCHANGED <<kernelVars, batch, written, stop_reason, boundary, todo, sample,
                 reliability_checkpoint, segments, discarded, settled>>

\* on_ring_sample, called by ring_buffer__poll for each record in the ring.
PollRecord ==
  /\ phase = "poll"
  /\ Consume
  /\ batch' = Append(batch, Head(ring))
  /\ UNCHANGED <<phase, written, stop_reason, boundary, todo, sample,
                 reliability_checkpoint, segments, discarded, settled>>

\* Mutant: what the callback collected is cleared on the way out.
PollReturnClears ==
  /\ phase = "poll"
  /\ ring = <<>>
  /\ phase' = "drain"
  /\ batch' = <<>>
  /\ UNCHANGED <<kernelVars, written, stop_reason, boundary, todo, sample,
                 reliability_checkpoint, segments, discarded, settled>>

\* ring_buffer__poll returns once it finds the ring empty.
PollReturn ==
  /\ phase = "poll"
  /\ ring = <<>>
  /\ phase' = "drain"
  /\ UNCHANGED <<kernelVars, batch, written, stop_reason, boundary, todo, sample,
                 reliability_checkpoint, segments, discarded, settled>>

\* A signal that arrives while ring_buffer__poll waits makes it fail with EINTR,
\* and capture() returns that error: no footer is written.
Interrupted ==
  /\ phase = "poll"
  /\ batch = <<>>
  /\ phase' = "failed"
  /\ UNCHANGED <<kernelVars, batch, written, stop_reason, boundary, todo, sample,
                 reliability_checkpoint, segments, discarded, settled>>

DrainDone ==
  /\ phase = "drain"
  /\ batch = <<>>
  /\ phase' = "top"
  /\ UNCHANGED <<kernelVars, batch, written, stop_reason, boundary, todo, sample,
                 reliability_checkpoint, segments, discarded, settled>>

\* The for loop breaks on the limit; the rest of the batch is dropped.
DrainLimit ==
  /\ phase = "drain"
  /\ batch # <<>>
  /\ Len(written) >= MaxEvents
  /\ stop_reason' = "event_limit"
  /\ discarded' = batch
  /\ batch' = <<>>
  /\ phase' = "top"
  /\ UNCHANGED <<kernelVars, written, boundary, todo, sample,
                 reliability_checkpoint, segments, settled>>

CanWrite == phase = "drain" /\ batch # <<>> /\ Len(written) < MaxEvents

WriteEvent ==
  /\ CanWrite
  /\ written' = Append(written, Head(batch))
  /\ batch' = Tail(batch)
  /\ UNCHANGED <<kernelVars, phase, stop_reason, boundary, todo, sample,
                 reliability_checkpoint, segments, discarded, settled>>

\* The event does not fit: write_event samples the boundary's reliability.
\* A segment is only closed once it holds an event, and the event that causes a
\* rotation goes to the next one.
StartRotation ==
  /\ CanWrite
  /\ Len(segments) < MaxRotations
  /\ written # <<>>
  /\ StartSampling("rotation")
  /\ UNCHANGED <<kernelVars, batch, written, stop_reason, reliability_checkpoint,
                 segments, discarded>>

-----------------------------------------------------------------------------
\* Sampling: probes, then packets, then totals, then recursion misses.

\* probe_loss(): one key of the walk.  Keys inserted since it began may be
\* visited or not, and a key may be visited again.
SampleProbe(s) ==
  /\ phase = "probes"
  /\ s \in KnownSites
  /\ sample' = [sample EXCEPT !.kernel_loss_by_probe[s] =
                  SumOver(probe_site_loss[s], Cpu)]
  /\ todo' = todo \ {s}
  /\ UNCHANGED <<kernelVars, phase, batch, written, stop_reason, boundary,
                 reliability_checkpoint, segments, discarded, settled>>

ProbesRead ==
  /\ phase = "probes"
  /\ todo = {}
  /\ phase' = "skbs"
  /\ todo' = Filed
  /\ UNCHANGED <<kernelVars, batch, written, stop_reason, boundary, sample,
                 reliability_checkpoint, segments, discarded, settled>>

\* Mutant: rows are pushed to a list, which a revisited key enters twice.
SampleSkbPushed(k) ==
  /\ phase = "skbs"
  /\ k \in Filed
  /\ sample' = [sample EXCEPT !.kernel_loss_by_skb[k] = @ + skb_loss[k]]
  /\ todo' = todo \ {k}
  /\ UNCHANGED <<kernelVars, phase, batch, written, stop_reason, boundary,
                 reliability_checkpoint, segments, discarded, settled>>

\* skb_loss(): one key of the walk.
SampleSkb(k) ==
  /\ phase = "skbs"
  /\ k \in Filed
  /\ sample' = [sample EXCEPT !.kernel_loss_by_skb[k] = skb_loss[k]]
  /\ todo' = todo \ {k}
  /\ UNCHANGED <<kernelVars, phase, batch, written, stop_reason, boundary,
                 reliability_checkpoint, segments, discarded, settled>>

SkbsRead ==
  /\ phase = "skbs"
  /\ todo = {}
  /\ phase' = "stats"
  /\ todo' = Cpu
  /\ UNCHANGED <<kernelVars, batch, written, stop_reason, boundary, sample,
                 reliability_checkpoint, segments, discarded, settled>>

\* Mutant: the footer forgets the losses that found the table full.
SampleCpuAttributedOnly(c) ==
  /\ phase = "stats"
  /\ c \in todo
  /\ sample' = [sample EXCEPT
       !.kernel_reserve_failures = @ + reserve_failures[c],
       !.kernel_unattributed_reserve_failures = @ + unattributed_reserve_failures[c]]
  /\ todo' = todo \ {c}
  /\ phase' = IF todo' = {} THEN "recursion" ELSE phase
  /\ UNCHANGED <<kernelVars, batch, written, stop_reason, boundary,
                 reliability_checkpoint, segments, discarded, settled>>

\* stats(): one CPU's slot of telemetry, added to the totals.
SampleCpu(c) ==
  /\ phase = "stats"
  /\ c \in todo
  /\ sample' = [sample EXCEPT
       !.kernel_reserve_failures = @ + reserve_failures[c],
       !.kernel_unattributed_reserve_failures = @ + unattributed_reserve_failures[c],
       !.kernel_skb_loss_unattributed = @ + unattributed_skb_losses[c]]
  /\ todo' = todo \ {c}
  /\ phase' = IF todo' = {} THEN "recursion" ELSE phase
  /\ UNCHANGED <<kernelVars, batch, written, stop_reason, boundary,
                 reliability_checkpoint, segments, discarded, settled>>

SampleRecursion ==
  /\ phase = "recursion"
  /\ sample' = [sample EXCEPT !.kernel_recursion_misses = recursion_misses]
  /\ phase' = "footer"
  /\ UNCHANGED <<kernelVars, batch, written, stop_reason, boundary, todo,
                 reliability_checkpoint, segments, discarded, settled>>

\* Mutant: the checkpoint stays at the first segment's.
FinishRotationStale ==
  /\ phase = "footer"
  /\ boundary = "rotation"
  /\ segments' = Append(segments, reliability_delta(sample, reliability_checkpoint))
  /\ written' = Append(written, Head(batch))
  /\ batch' = Tail(batch)
  /\ phase' = "drain"
  /\ sample' = DefaultReliability
  /\ settled' = {}
  /\ UNCHANGED <<kernelVars, stop_reason, boundary, todo, reliability_checkpoint, discarded>>

\* The rotation's footer, the checkpoint, and the event that caused it.
FinishRotation ==
  /\ phase = "footer"
  /\ boundary = "rotation"
  /\ segments' = Append(segments, reliability_delta(sample, reliability_checkpoint))
  /\ reliability_checkpoint' = sample
  /\ written' = Append(written, Head(batch))
  /\ batch' = Tail(batch)
  /\ phase' = "drain"
  /\ sample' = DefaultReliability
  /\ settled' = {}
  /\ UNCHANGED <<kernelVars, stop_reason, boundary, todo, discarded>>

\* The last footer.  A segmented capture writes the last segment's share of it.
Finish ==
  /\ phase = "footer"
  /\ boundary = "end"
  /\ segments' = Append(segments, reliability_delta(sample, reliability_checkpoint))
  /\ phase' = "done"
  /\ UNCHANGED <<kernelVars, batch, written, stop_reason, boundary, todo, sample,
                 reliability_checkpoint, discarded, settled>>

LoopStep ==
  \/ Stop \/ StartPoll \/ PollRecord \/ PollReturn
  \/ Interrupted \/ DrainDone \/ DrainLimit \/ WriteEvent \/ StartRotation

SampleStep ==
  \/ \E s \in Site : SampleProbe(s)
  \/ ProbesRead
  \/ \E k \in Key : SampleSkb(k)
  \/ SkbsRead
  \/ \E c \in Cpu : SampleCpu(c)
  \/ SampleRecursion

\* The links are detached when the sensor is dropped, after the footer.
ProbesFire ==
  /\ phase \notin {"done", "failed"}
  /\ KernelNext
  /\ UNCHANGED sessionVars

SessionNext ==
  \/ ProbesFire
  \/ LoopStep
  \/ SampleStep
  \/ FinishRotation
  \/ Finish

SessionSpec == SessionInit /\ [][SessionNext]_vars

-----------------------------------------------------------------------------
FooterRead == phase \in {"footer", "done"} /\ boundary = "end"

SumProbes(r) == SumOver(r.kernel_loss_by_probe, Site)
SumSkbs(r) == SumOver(r.kernel_loss_by_skb, Key)

\* Over a whole capture a breakdown never exceeds the total it refines, however
\* many failures land between the reads: the tables are read before the totals,
\* and the kernel bumps the total before either table.
BreakdownWithinTotal ==
  phase \in {"footer", "done"} =>
    /\ SumProbes(sample) + sample.kernel_unattributed_reserve_failures
         <= sample.kernel_reserve_failures
    /\ SumSkbs(sample) + sample.kernel_skb_loss_unattributed
         <= sample.kernel_reserve_failures

\* What the footer does guarantee about absence: a packet whose loss was filed,
\* or found the table full, before the sampling began is never declared
\* complete, and such a capture is never declared complete.
SettledLossIsNeverCleared ==
  FooterRead =>
    \A p \in settled : skb_evidence(sample, p) # "Complete" /\ ~complete(sample)

\* Segment footers telescope: added up, they are the capture's footer.  Each is
\* the difference of two samples whose walks may have seen different keys.
SegmentsSumToCapture ==
  phase = "done" =>
    LET Sum(field(_)) == SumOver([i \in DOMAIN segments |-> field(segments[i])], DOMAIN segments)
    IN /\ Sum(LAMBDA r : r.kernel_reserve_failures) = sample.kernel_reserve_failures
       /\ Sum(LAMBDA r : r.kernel_unattributed_reserve_failures)
            = sample.kernel_unattributed_reserve_failures
       /\ Sum(LAMBDA r : r.kernel_skb_loss_unattributed) = sample.kernel_skb_loss_unattributed
       /\ Sum(LAMBDA r : r.kernel_recursion_misses) = sample.kernel_recursion_misses
       /\ \A s \in Site : Sum(LAMBDA r : r.kernel_loss_by_probe[s])
                            = sample.kernel_loss_by_probe[s]
       /\ \A k \in Key : Sum(LAMBDA r : r.kernel_loss_by_skb[k])
                            = sample.kernel_loss_by_skb[k]

\* Every probe hit is in exactly one place: written, polled, in the ring,
\* dropped at the event limit, refused by the ring, missed, or not yet emitted.
EveryHitIsAccountedFor ==
  hits = Len(written) + Len(batch) + Len(ring) + Len(discarded)
         + SumOver(lost, Key) + recursion_misses
         + Cardinality({c \in Cpu : handler[c] = "reserve"})
=============================================================================
