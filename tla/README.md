# A TLA+ verification of skbx

skbx observes which kernel functions handle a packet, records what it saw in a
`traceq` file that ends with a reliability footer, and compares such files
across hosts (skbx Arc). Its promise is a negative one: *if the footer says so,
what is absent from the trace did not happen*. This directory models the parts
of the program that have to be right for that promise, checks them with TLC,
and proves the most important properties with TLAPS.

## The system

| Component | Code | State it keeps | Operations | Interacts with |
|---|---|---|---|---|
| kernel loss ledger | `skbx.bpf.c` | ring buffer, per-CPU `telemetry`, `skb_loss`, `probe_site_loss` | reserve/submit a record; account for a refused one | every CPU's probe handlers share it; the capture session reads it |
| packet lineage, XDP pairing | `skbx.bpf.c` | LRU maps from packet address, buffer and stack to an identity; `lineage_sequence` | match, adopt, clone, copy, replace, free; XDP entry and exit | asks the filters; supplies the identity the ledger files a loss under |
| capture session | `skbx-cli/src/main.rs`, `skbx-sensor/src/live.rs`, `skbx-contract` | polled batch, `seq`, stop reason, reliability checkpoint | poll, write, rotate, sample, finish | consumes the ring, reads the loss maps, drives the writer |
| segmented output | `segmented_output.rs` | bytes, index and events of the open segment | write, rotate, finish, prune | asks the session for a segment's reliability |
| replay, explain, routes | `replay.rs`, `bounded.rs` | bounded maps of routes and packets, previous sequence number | one step per record | reads the files the session wrote |
| filters, metadata | `filter.rs`, `metadata.rs`, `pcap_filter.rs`, `skbx.bpf.c` | none (compiled programs) | parse, compile against BTF, evaluate in the kernel | decides what a handler reports |
| probe plan, attachment | `plan.rs`, `live.rs`, `skbx-cli/src/main.rs` | the links held, the header, the ready file | select functions, load, attach, fall back, signal readiness | precedes the session; installs the kernel programs |
| Arc control plane | `skbx-arc/src/state.rs`, `api.rs` | sensors, missions, leases, evidence, a generation counter | register, create, arm, poll, submit | HTTP clients; correlates the evidence |
| Arc agent | `skbx-agent` | its run: assignment, artifact | register, poll, upload | the control plane, over requests that may be lost |
| mission contract, correlation | `skbx-mission` | none | validate; match events of adjacent sensors | called by a submission |
| route tracer | `skbx-route` | the current hop, counters, budgets; claims about addresses | send, receive, time out; replay; look up, validate, apply | a UDP socket and its error queue; two HTTPS services |
| host inspection, console, site | `doctor.rs`, `symbols.rs`, `drop_reason.rs`, `btf_dump.rs`, `bpf_helpers.rs`, `demo.rs`, docs, scripts | none | read-only | |

What is hard in it:

* **Concurrency in the kernel program.** Handlers on every CPU share two bounded
  tables through separate lookup, insert and add calls; user space walks the same
  tables while they change, table by table.
* **What a refusal means.** A full ring, a full table and the kernel's recursion
  guard each lose something else, and the footer must keep them apart.
* **Addresses outlive what they name.** Identities are filed under addresses of packets,
  buffers, stacks and contexts, all of which the kernel hands out again, and under a
  pid_tgid that an interrupt shares with the task it interrupts and idle CPUs with each
  other. A packet's clones share its buffer, and several CPUs look up, number and file
  it at once.
* **Start-up against a host that moves.** Every load and link may be refused, BPF
  programs come and go while they are enumerated, an enumeration skips what it cannot
  read, and the automatic backend tries twice.
* **A network that answers late, never, or from elsewhere**, while the run's duration and
  three budgets run out.
* **Boundaries.** The event limit inside a polled batch, a rotation inside it, a
  signal inside the poll, the difference of two samples.
* **Retries in Arc.** Leases expire and are renewed while the first holder is still
  running, uploads are repeated or lost, the clock may step back, and five handlers
  each maintain a part of the record a mission's status is derived from.

What makes each component correct:

* ledger: every refused record is counted once, in its CPU's total, and filed once
  or admitted as unfiled; the absence of a packet from the table means something;
* session: no breakdown exceeds its total; a settled loss is never cleared; every
  hit is accounted for; segments add up to the capture;
* lineage: an identity names one packet and a packet has one identity, up to what the
  code admits; an XDP exit is reported as its entry was; a helper's observation is of a
  packet that is alive;
* filters: the kernel's verdict is the value of the expression that was written, with
  fields that may be unreadable; the two hooks that apply filters agree;
* set-up: no function asked for disappears; the header says what is attached; a
  set-up that fails leaves nothing behind;
* control plane: status, assignments, leases and evidence agree; evidence is
  write-once; a finished mission stays finished; a generation names one lease;
* correlation: an edge matches as many observations as can be matched, one to one, at the
  least cost, and claims no more agreement than the matches have;
* agent: what it was told of its upload is true;
* segmented output: retained segments are whole traces, tile the capture and never
  overstate what they hold; there is always room for the footer reserved;
* replay: exactly the well-formed traces are accepted; a route is a stretch of its
  packet's events, and what is missing from the routes is admitted;
* route tracer: a stream replays as it was written and no other way; the stop reason is
  true; what an enrichment lacks is explained; both commands end;
* bounded map: exact capacity, bounded queue, least recently inserted goes first.

## Modules

    LossLedger  <--extends--  CaptureSession         PacketLineage

    ArcControl  <--extends--  ArcFleet
        |  ^--extends--  ArcEvidence  --extends-->  Correlation
        | refines
    MissionLifecycle (abstract)

    BoundedMap  <--instance--  TraceReplay  <--extends--  TraceFile
        ^                          ^
    BoundedMapLife             SegmentedOutput
        | refines
    RecencyMap (abstract)

    MetadataPath  <--extends--  ScalarFilter  <--+
                                                 |--extends--  CaptureFilters
    ProbePlan     <--extends--  CaptureSetup  <--+

    RouteStream  <--extends--  RouteTrace  <--extends--  RouteEnrichment

A module's theorems are in `<module>Proofs`: `CaptureSessionProofs`, which also has those
about `LossLedger`; `PacketLineageProofs`, `BoundedMapProofs` (of `BoundedMapLife`),
`TraceFileProofs`, `SegmentedOutputProofs`, `CaptureSetupProofs` and `RouteTraceProofs`, which
also has those about `RouteEnrichment`. `ArcProofs` has those of `ArcControl` and `ArcFleet`.

`MC*.tla` add model values and symmetry sets for TLC, and the inputs of the set-up and of
the correlation. Each module with state has a type invariant (`TypeOK`, `SessionTypeOK`, ...); the runs
spend their properties on other things, and where a component has proofs the type
invariant is the first of them.

### LossLedger - the kernel side

One handler per CPU; each of its map calls is an action, so that the steps of two
CPUs interleave between any two calls. `handler[c]` is the next call, `hit[c]` the
packet and probe it reports.

| Action | Code |
|---|---|
| `Hit`, `Miss` | a probe fires on an idle CPU; on a busy one the kernel counts a recursion miss |
| `Emit`, `Refuse` | `bpf_ringbuf_reserve`/`output` succeeds or fails |
| `CountFailure` | `counters->reserve_failures++` |
| `FindSkbLoss`, `AddSkbLoss`, `InsertSkbLoss`, `RefindSkbLoss` | the four calls of `record_skb_loss` |
| `FindProbeSite`, `AddProbeSite`, `InsertProbeSite` | the rest of `record_reserve_failure` |
| `Consume` | user space takes a record |

An entry of a table exists exactly when its count is not zero (entries are created
holding 1 and never deleted), so the tables are total functions to Nat. `lost` and
`unfiled` are history variables the code does not have.

### CaptureSession - the main loop

Extends the ledger: the probes go on firing until the sensor is dropped. `phase`
is where `capture()` is. The poll is one action per record plus its return (the
library returns when it finds the ring empty); the batch is drained event by event;
a rotation may be due at any event but a segment's first. A sampling reads the
probe table, then the packet table, then each CPU's slot of `telemetry`, then the
recursion misses, one action per key or CPU: a walk must visit the keys present when
it began, may or may not visit later ones, and may visit a key twice. A footer is
the sample (or its difference from the checkpoint).

`Interrupted` is a signal that arrives inside the poll: the library's call fails with
EINTR and the capture ends without a footer.

### ArcControl - the control plane

Each handler holds the write lock for its whole body, so it is one action:
`RegisterSensor`, `CreateMission`, `ArmMission`, `NextAssignment`,
`SubmitArtifact`; `SetClock` moves the clock anywhere. Rejected requests and repeats
that are only answered change nothing. Artifacts are model values; the only thing
the control plane reads off one is whether its footer is complete. `correlated` is the
set of sensors whose traces a mission's edges were computed from.

`MissionLifecycle` is what this promises about a mission, without sensors' leases,
clocks and retries; `ArcControl` implements it with `evidence` mapped to the stored
artifacts.

### Correlation, ArcEvidence - matching what the sensors saw

`Correlation` is `correlate_adjacent` as pure operators: the common clock
(`global_timestamp`), the partition by flow, the sweep that collects candidates with a
cursor that only moves forward (`correlation_candidates`), and the minimum-cost maximum
matching along shortest augmenting paths: `Residual` is the graph with the used edges
turned round, `Settle` is Bellman-Ford in the order of the code's scan, `Augment` flips
the edges of the path found. A tuple is a pair of endpoints, its protocols left out.
`ArcEvidence` puts it next to the control plane and judges the edges of every pair of
traces in `TracePairs` by what a matching is for (`CorrelationsAreBest`): the reference
takes all one-to-one sets of viable pairs, with no order, cursor or path. It holds for any
traces, so it is evaluated once and asked for when two sensors' evidence is in.

### ArcFleet - agents and requests

Extends the control plane: agents run `run_fixture_once` (register, poll, upload),
their requests are in flight until the server handles them or they are lost, an
agent may die with its request still in flight, and several agents may serve one
sensor. `Operate` is everybody else: the clock, the console, and any client that calls any
handler, also in the name of an agent's sensor.

### BoundedMap, BoundedMapLife - the bounded map

`BoundedMap` is the map as operators on a record of its fields: `New`, `Insert`
(= `Put`, then `Evict`, then `Compact`), `Remove`. The deque of nodes is the set of its
nodes, because they are pushed in the order of their generations; popping from the
front until the map fits is then one comparison with a generation (`PopTo`).
`BoundedMapLife` is any sequence of insertions and removals; `RecencyMap` is what that
promises, without a queue.

### TraceReplay, TraceFile - the reader

`TraceReplay` is `replay` as operators on a record of its local variables:
`ReadStart`, `ReadEvent` (with `RouteEvent`), `ReadEnd`, `Conclude`; `replay(stream)`
folds them over a sequence of records. `TraceFile` reads one file record by record,
where the next record is any that a writer would put there or, in the faulty family of
files, that with a field wrong, a record again, or a line that is none. A torn last
line is the same as a wrong one. A rejection ends the pass.

### PacketLineage - whose observation is it

The model has the kernel's side (`skb`: which address is which packet in which buffer;
`frame`: the XDP frames being run; `call`: who is inside a hooked function) and the
program's maps, by their names in the code.

| Action | Code |
|---|---|
| `Begin` | the first lookups of `should_trace`: tracked, filed under the buffer, or neither |
| `Withdraw` | the sk_buff is filed, and the entry of its buffer withdrawn |
| `TraceTracked`, `TraceFiltered`, `TraceMatched` | the filter and the second lookup; a match without an identity takes a number |
| `FileTracked` | the number is filed under the sk_buff |
| `Report` | the identity is filed under the buffer, the stack associated, the record sent |
| `Free` | `skbx_skb_lifetime_end` on kfree_skbmem, then the address is free |
| `CloneEntry`, `Clone`/`Copy`, `CloneExit` | the two hooks on skb_clone and skb_copy around the call |
| `ReplaceEntry`, `Replace`, `ReplaceExit` | those on skb_pp_cow_data and veth_convert_skb_to_xdp_buff |
| `XdpEntry`, `XdpExit` | the fentry and fexit programs on an XDP program, in the contexts of `Driver` |
| `StackAssociated` | a helper or map operation on a stack that has handled a packet |
| `Allocate` | the kernel sends a packet |
| `EvictTracked`, `EvictLineage`, `EvictStackAnchor`, `EvictSkbAnchor` | an LRU map drops an entry, each map by itself |

`hook[c]` is how far context `c` has come in a hook on an sk_buff, and with which identity;
other contexts take their steps in between. One context at a time has an sk_buff in hand
(`HeldBy`), as in the kernel, but its clones share the buffer and other contexts handle
them. What the filter says is open at every hook: fields change on the way. An XDP program
runs on a frame whose buffer nobody else has, so its lookup, match and filing are one step.

History variables say which packets the code gives no promise for. `inherited` are packets
that met what another left under their buffer; `mistaken` are clones given what a call on
another packet left under the pid_tgid; `split` are packets whose entry was evicted, was
taken by a call of the same pid_tgid, was not filed when they were copied or replaced, or
that took a number while another hook on them was under way (`crowded`, contexts, says which
those are) or their entry was still to be filed by an exit hook. `loose` are stack anchors
whose other direction was evicted. The invariants hold of all others; that the
exceptions happen is said below, where the code and its documents differ.

### MetadataPath, ScalarFilter, ProbePlan - what a capture is asked for

`MetadataPath` resolves a path to a field against BTF into a plan of reads (offsets in
bits, anonymous members, pointers, bitfields) and says what the kernel program reads
by it; `RawField` is what is at the path. `ScalarFilter` is the parser, the expansion
into groups of conditions, their compilation and the kernel's verdict; `Meaning` is
the three-valued value of the expression. It also holds `configured_filter_match`
and `configured_xdp_filter_match`, the two places filters are applied. `ProbePlan` is
`build_probe_plan_with_bpf_helpers`: which functions are probed, at which argument, by
stack, or reported as missing.

### CaptureSetup - from the command line to the main loop

`setup` goes through resolve, plan, planned, load, attach, tc, entries, exits, sensor, output
and signal to running or failed. One action per step: `ResolveFilters`, `BuildPlan`, `AcceptPlan`,
`Load`, `Attach` (one link), `KprobesDone`, `AttachTracer` (one BPF program), `TracersDone`,
`SensorReady`, `WriteHeader`, `SignalReady`. The host may refuse any of them, which ends the attempt
(`AttemptFails`: the automatic backend goes back to load once) or the command (`Fail`).
`BpfProgramsChange` is everybody else. `Enumerate` finds any subset of the BPF programs of a
type: one whose information or BTF cannot be read is skipped without a word; `missed` is the
history of that. A step forgets the inputs no later one reads. Kprobes are
attached by stages, which are a table of 16 positions in the order of the code.

What a request's filters compile to is left open (`Compiled`, `Refused`), because set-up goes the
same way whatever it is. `CaptureFilters` supplies `compile_filters` and `filters_refused` from
`ScalarFilter`, and the run takes those.

### RouteStream, RouteTrace, RouteEnrichment - the route tracer

`RouteStream` is the records of a stream and `replay` over them, as a fold.
`RouteTrace` is `trace_udp`: `StartHop`, `SendProbe` or `SendFails`, then `TimeOut` or `Receive`, `EndHop`,
`Finish`; `Fail` is an error that ends it without a footer. The network (`Answer`) may
answer any probe in flight at any time, so that an answer may wait in the error
queue when the next probe is sent; `Elapse` is the duration. `RouteEnrichment` takes up a
written stream: `StartEnrichment`, then one request per action (`LookUp` of an address,
`Validate` of an origin, `Recall` of one known already), `FileClaims`, `GiveUpOrigins` and
`GiveUpAddresses` when a budget is spent, `Expire` for its duration, `ApplyClaims`.

### SegmentedOutput - the writer of segments

`write_event` is `WriteEvent` when the segment has room, and otherwise
`StartRotation`, `FinishRotated`, the flush, `Rotate` and `WriteNext`, so that a crash
may come between any two; `Finish` and a flush end the capture. `Fail` is an error the
writer returns, `Abort` one of `capture()` elsewhere: both drop the buffer, which
writes it out. `Crash` is a kill or a failed write: any part of what was buffered may
have reached the file, the last record torn. `active` and `backups` hold the records
`TraceReplay` reads, so the properties ask `replay` about the files. What a footer says
of the losses is the subject of `CaptureSession`; here it is lossless or not.

## Runs

| Run | Question | Instance |
|---|---|---|
| `LossLedger` | no refused record is lost, doubled or misfiled; absence means something; every loss surfaces | 2 CPUs, 2 packets, 2 probes, ring of 1, both tables of 1, 4 hits, weakly fair handlers |
| `CaptureSession` | what a footer sampled under fire guarantees; segments add up | 2 CPUs, 2 packets, 1 probe, limit of 3, 2 rotations, 4 hits |
| `ArcFleet` | the record stays consistent and implements the abstract lifecycle; the edges between sensors are the best matching; agents are told the truth | 2 sensors, 2 missions, 2 artifacts, clock 0..2, lease 1, 3 generations, any client; 2 agents of 1 sensor; 42,294 pairs of traces (below) |
| `BoundedMap` | the map and its queue keep their bounds; the oldest insertion is forgotten | 4 keys, capacity 2, 10 insertions |
| `TraceReplay` | which streams are accepted; what routes say | 4 events; 1 packet with any one fault per record, 2 packets x 2 addresses x 2 functions, 3 packets in a map of 2; 2 hops |
| `SegmentedOutput` | what the files on disk say after rotations, failures and crashes | 2 captures of 4 events, 2 backups, budget of 6 bytes with 2 reserved; segments of up to 3 events for a reader that takes 2 |
| `RouteTrace` | streams replay as written; stop reasons and gaps are true; commands end | up to 3 hops of up to 2 probes, 3 probes in all; a private or a public router before the target; 4 lookups |
| `PacketLineage` | which packets may end up with whose identity; whose packet a helper is reported for | 2 sk_buffs, 2 buffers, 2 contexts of one pid_tgid that also run XDP, 2 stacks, 2 packets, 2 identities, 1 eviction of an identity, any of stack anchors |
| `CaptureSetup` | filters mean what is written, no name is lost, set-up is all or nothing | every expression of up to 5 tokens and longer ones at the bounds, 12 memories; 4 kernel functions; every backend and option; 3 BPF programs, any of them missed, and 2 changes of them |
| `LineageReuse`, `FooterReserve`, `ReplayLimit` | sentences of the documents the code does not keep (below) | small variants of the above |

Why the bounds are enough: with tables of one entry and two packets at two probes the
tables overflow while another CPU is between its lookup and its insert, which takes
two CPUs. Four hits let both lose a record twice. In a session four hits fill the
ring, overflow a table and still leave one to land between any two reads; three
segments are the fewest with one that has a neighbour on either side. Three
generations let a lease expire and be renewed while another mission is leased; a
clock of three readings with a lease of one tick expires, steps back and expires
again. Two agents are the fewest that race for one lease,
and two sensors the fewest that one mission needs. The pairs of traces are all those of up to three observations of one flow at five
times on either side; all those of two observations with two times, two lengths, three
flows, either direction and a tunnel; and clocks that start apart with or without
uncertainty. Three on a side, with a window of one, let an augmenting path take back a
match that another observation needs, and the cursor pass an observation that is too
early for one but not for all; a byte costs as much as the window. A queue is compacted when it exceeds eight nodes, which takes nine insertions.
Four events let a route be opened, evicted, opened again and re-entered, and exceed two
hops; one more than the limit is read and refused. Two backups keep a rotated segment
with a neighbour on either side while a third rotation deletes the oldest, and a second
capture on the same path finds the first one's. Three probes are enough for one that
times out, one that takes its late answer and one more, over one, two or three hops.
Two sk_buffs and two buffers are the fewest with a clone and its original, and with two packets
every address is used again; two contexts of one pid_tgid are enough to take each
other's entry. Two contexts with a hook each are what a race between lookup and filing takes.
Two stacks let one sk_buff move from
one to the other and a second take its place. Segments of two and of three events are on either
side of the reader's limit, and one event more or less is all that limit tells apart. A byte of the set-up's memories has two bits, so that signs, masks and the order
of bytes show in small numbers; its words are little-endian and there is a readable word after an
object's fields, as there is in a slab. Nesting is bounded at 1 (16 in the code) and
anonymous depth at 2 (8), each with expressions and types on both sides of the bound;
the number of conditions at 4 as in the code. Three constraints keep the largest runs within
minutes, by leaving out combinations and never a behaviour of one of the parts. In `ArcFleet`,
once an agent has started, there is one sensor, other clients only create and arm
missions (`OthersStandBack`) and the last lease or clock reading is the last event
(`AgentsHaveOneSensor`); until then any client does anything. In `PacketLineage`, once a stack
has handled an sk_buff there is one context at a time, one identity and no entry lost or met
under a used buffer (`StacksHaveOneContext`), because stack anchors and identities do not
depend on each other; and while an XDP program runs, one hook or call does
(`FramesMeetOneContext`), because the frame's buffer is nobody else's. The theorems about
these modules are under no such constraint. Deadlock checking is off in all of them: each
system stops at its bound (hits, generations, events, insertions, packets) or when the
capture, the file or the trace is done.

Fairness. `LossSurfaces` needs weak fairness of each CPU's handler (`FairSpec` of
`LossLedger`). A BPF program has no loop that waits and is verified to terminate, and the
CPU runs it to completion; user space is under no fairness at all, since the claim does
not depend on it. `CommandsEnd` needs weak fairness of `trace_udp`'s own steps and of the
enrichment's (`EnrichmentSpec`): every poll has a timeout, so the program's next step is
always taken in the end, and every HTTPS request has one too. The network and the
clock are under none: the claim holds when nobody ever answers.

### Where the code and its documents differ

* **FooterReserve.** The writer keeps 1024 bytes for a footer whose breakdowns grow with
  the number of packets and probes that lost something; a footer that does not fit ends
  the capture without one. What holds instead is `RoomForFooter`.
* **ReplayLimit.** A replay takes 1,000,000 events (replay.rs:119); a segment is bounded by its
  bytes only, so not "every retained segment replays independently"
  (docs/pwru-parity.md:46). What holds instead is `FilesAreWhatTheyClaim`: rotated files are
  whole traces, and replay refuses one for that limit alone.
* **LineageReuse.** A freed packet's identity stays filed under its buffer. The next packet
  in that buffer is reported as the old one, without being filtered. What holds
  instead is `IdentityNamesOnePacket`: only packets that met such an entry are affected.
  `should_trace_xdp` has the same lookup for a frame in a used buffer (skbx.bpf.c:1406).

The models contain four more, without a run of their own: each is a history variable, and the
invariant that excepts it says that nothing else is affected.

* A packet and its clone on two CPUs, both matching before either is filed under the buffer,
  get a number each (skbx.bpf.c:1264-1304), although lineage is said to "continue a monotonic
  lineage through clone/copy" (skbx-contract/src/lib.rs:182). `split` names such packets;
  `PacketHasOneIdentity` says that it takes two hooks under way at once, or a lost entry.
* Two idle CPUs clone at once; the clone of one's packet is filed under the identity of the
  other's (skbx.bpf.c:2193), against the same sentence. `mistaken` names such packets;
  `IdentityNamesOnePacket` says that an identity names one packet of all others that met no
  used buffer.
* The association of a stack outlives the sk_buff when its other direction was evicted
  (skbx.bpf.c:2173), although "both directions are deleted at `kfree_skbmem`"
  (docs/pwru-parity.md:26). `loose` names such anchors; `AnchorsLeadToLiveSkbs` is about the
  others.
* The second enumeration of XDP programs may skip one whose entry is traced (live.rs:898, 979),
  so that links are not always "paired" (docs/pwru-parity.md:30) and the capture starts all the
  same. `missed` names such programs; `XdpEntriesHaveExits` says that only they lack an exit.

### What the checks do not establish

The following is how the code behaves; the models contain it and no property denies it.

* The footer reads the per-packet table before the totals. A failure in between is
  counted but not filed, and its packet is not in the table. What holds is
  `SettledLossIsNeverCleared` (losses filed before the sampling are never cleared) and
  `BreakdownWithinTotal`.
* Records polled after the event limit was reached are dropped and in no counter of
  the footer; `EveryHitIsAccountedFor` names them as such.
* `explain` judges by the footer of the one segment it reads, which holds that segment's
  losses only. `SegmentsSumToCapture` is about all of them.
* A poll serves the first waiting mission by name. Polling during a lease returns another
  mission's generation when an earlier-named one was armed meanwhile; an upload for the
  first is still accepted (`HeldAssignmentStaysAcceptable`).
* An ICMP answer that arrives after its probe's timeout is taken for the next probe's,
  although docs/route.html:163 has a response prove that an address answered "a particular
  probe". `StopReasonIsTrue` bounds the effect: the target is never found
  nearer than it is.
* Observations are partitioned by their outer tuple before tunnel tuples are looked at,
  so a packet seen encapsulated by one sensor and bare by the next is never a candidate:
  the tunnel agreement of docs/arc.md:108 can tell only of tuples of one flow. The
  cost that is minimised there as "timestamp distance" includes the lengths and the
  evidence.
* Filter comparisons outside `Faithful`: with -1 on a signed field narrower than 64 bits,
  on signed bitfields, by order on big-endian fields, or with a literal the field
  cannot hold. The code compares masked or raw bits there.
* A signal inside the poll ends the capture without a footer; a poll that never finds the ring
  empty never returns; nested handlers on one CPU may lose a plain increment. The
  models of the ledger and the session do not claim otherwise.
* The hooks on calls (clone, copy, replacement and free) and `StackAssociated` are one step
  each. Two of them with one pid_tgid could also interleave between their lookup and their
  deletion, and the sk_buff a helper is reported for could be freed between the lookups and
  the reading of its fields. The steps inside `associate_stack` are one as well; the stack
  and the sk_buff it names are both the context's own, and what another can do in between is
  to remove an entry, as an eviction does.
* Every sk_buff is taken to pass kfree_skbmem on its way to being free, where the hook is.
* What an evicted entry does to a packet's identity: the maps are documented as bounded, and
  `split` admits it. `pending_clones`, `pending_skb_replacements` and `xdp_entry_states` are
  LRU maps of 4096 entries as well; those in use are bounded by the calls and XDP programs
  under way, and their eviction is left out.
* The window of start-up: hooks are attached one after the other while packets pass.
  `PacketLineage` starts with all of them in place. A frame between entry and exit at
  that moment leaves an entry behind; kfree_skbmem traced as a function may file the
  freed packet again, depending on the order the kernel runs two probes in. A ready
  file that cannot be created leaves a header-only output, which replay reports as
  incomplete.

## Proofs

Eight modules hold the theorems. Each handler, and each operation of a data structure, has a
lemma that says what it does to the records; an invariant's step lemma has one step per
action and uses those. An invariant that is not inductive as it stands is proved
from one that is, which is named in the module and described here.

For every number of CPUs, packets, probes and table sizes (`CaptureSessionProofs`):

* `TypeCorrect`;
* `Exhaustive`: while no CPU has an unattributed loss, every packet that lost an
  observation is in the table or in a handler's hands. It is not inductive: a loss
  that was given up is neither. `LedgerInv` adds `EveryLossIsSomewhere` (filed, being
  filed, or remembered as unfiled) and `UnfiledIsAdmitted` (a CPU with an unfiled
  loss has counted one);
* `Conserved`: `LossIsConserved`, the two conservation laws. `ConservationInv` adds
  `InsertFindsNoCount`: a handler about to create a probe's entry, which sets its slot to 1,
  has nothing in that slot, because only its own CPU writes it.

For every capture, with any limit and any number of rotations (`CaptureSessionProofs` as well):

* `SessionRunsLedger`: a session is a behaviour of the ledger, so that `LedgerInv` and
  `ConservationInv` hold while it samples;
* `SessionTypeCorrect` (`LoopInv`) and `HitsAccounted` (`EveryHitIsAccountedFor`);
* `BreakdownHolds`, `SettledLoss` and `SegmentsAddUp`. The tables move while they are read, and
  each claim about a finished footer is the last instance of one that holds throughout the
  sampling: what has been read is no more than what is there now (`CoverInv`); the
  breakdowns read so far are explained by the totals read so far and the CPUs still unread
  (`BreakdownInv`, which needs `FiledIsCounted`: the packet table is the sum over CPUs of what
  they counted and neither gave up nor are still filing); a settled loss has been read or is
  still to be visited (`SettledInv`); what has been read is past the last checkpoint or still to
  be visited (`OvertakesInv`), which makes no difference of two samples negative, so that
  the segments telescope (`SegmentsInv`).

For every number of sk_buffs, buffers, contexts, stacks, packets and identities, and any
sharing of pid_tgids (`PacketLineageProofs`):

* `LineageTypeCorrect`, `XdpPairs` and `AnchorsLead`, from `BaseInv`: a call or a hook in progress
  holds live sk_buffs that no other context holds. `AnchorsLead` lets either map evict: what
  `EvictSkbAnchor` orphans is `loose` until the stack handles another sk_buff;
* `IdentityIsOnePackets` (`IdentityNamesOnePacket`), from `IdentityInv`: a packet owns an identity
  when it was observed under it or a hook on it has it in hand (`Owns`), and whatever would
  give an identity to an observation (the entry of the sk_buff, of its buffer, of an XDP
  context, the one a call or a hook has read) is of a packet that owns it or of one that
  `inherited` it or was `mistaken`. A number is handed out once. It rests on `PlaceInv`: a buffer
  is of one packet, nothing is filed under a free address, and what a call makes is of its packet;
* `PacketKeepsIdentity` (`PacketHasOneIdentity`), from `FollowInv`: wherever a packet is, its
  identity is filed under the buffer, unless a hook on that buffer is to file it
  (`Refiled`) or an exit hook is (`Unfiled`; together `Waits`); and before it has one it is on
  one buffer only, so that the first match files for all of it. A hook that has looked and
  found nothing may be about to take a number for a packet that has one since
  (`Decides`): then another hook was under way on the packet, and `Crowding` says that both were
  told of it, so that the second number puts the packet in `split`. That is the race of
  two CPUs on one packet described above, and the theorem says that there is no other way.

For every set of sensors, missions and artifacts, any lease duration and clock
(`ArcProofs`):

* `TypeCorrect`, whose content is that every target stays a registered sensor;
* `EvidenceIsConsistent`, from `RecordInv`, which adds `AssignmentsAgree`: an
  assignment exists exactly for the targets of an armed mission and was leased if it
  says so;
* `StatusIsConsistent`, from `ControlInv == RecordInv /\ StatusAgrees`, and
  `SensorViewIsConsistent` (`SensorViewAgrees`), inductive on top of it;
* `EvidenceStaysFinal`, `GenerationsStayUnique`, `LeasesOutlived`: the action
  properties and the uniqueness of generations;
* `Refinement`: the control plane implements `MissionLifecycle`.

For every number of agents, and any of them on one sensor (`ArcProofs` as well):

* `FleetTypeCorrect`, and `FleetRunsControl`: with agents, requests in flight, losses and deaths,
  and other clients, the control plane still does nothing but what `ArcControl` says;
* `OutcomesStayTrue`, `AssignmentsStayGood` and `GenerationsStayForward`, from `FleetInv`:
  what an agent can have in flight in each state (`InFlightAgrees`), that the assignment it was
  answered or holds was given to its sensor under that lease or an older one
  (`GivenAgrees`), and that an upload's answer is true from the moment it is given, before
  the agent acts on it (`OutcomeAgrees`). No step of the control plane takes these back.

For every set of keys and values and every capacity (`BoundedMapProofs`):

* `TypeCorrect`, `Bounds`, `Covers` and `Refinement`, all from `MapInv`: a map is `Sound`
  (its queue holds the node of every key's last insertion, and no two nodes share a
  generation) and within its bounds. Soundness is what makes the front of the queue
  find the oldest key, and what bounds the queue: after a compaction it is the image
  of the key set.

For every file of any length with any of the faults, and every bound on its events
(`TraceFileProofs`):

* `AcceptsTraces`: one pass accepts exactly the well-formed traces. `ReadInv` says of a
  reader that has not given up that its variables describe what it has read (`Good`: a
  header, that many events in order, perhaps a footer), and of one that has, that
  what it gave up on makes the file no trace whatever follows;
* `ReplayTypeCorrect`;
* `RoutesAreTrue` (`RoutesTellWhatHappened`) and `GapsAreAccountedFor`
  (`EvictionsAccountForGaps`), from `RoutesInv`, for every number of packets tracked at once.
  Every route tells a stretch of its packet's events. The open one reaches to the packet's
  latest event and starts at a known one (`OpenOK`); a packet's completed ones follow each
  other, and the open one follows them (`CompletedOK`). While nothing was evicted every event
  is in a route, and each eviction leaves at least the event that began the evicted route
  in none (`Accounted`).

For every budget, all sizes of envelopes, any number of captures, rotations and crashes
(`SegmentedOutputProofs`):

* `ReserveKept`: there is always room for a footer of the reserved size. `RoomInv` adds
  that the sizes checked before a rotation still hold when, several steps later, the
  next header and event are written;
* `NeverOutOfSequence`: the number `write_event` expects is always the event's;
* `OutputTypeCorrect`;
* `FilesTile` (`SegmentsTile`), from `TileInv`: what the file being written and those
  behind it have to do with the writer's counters in each of its phases;
* `CompleteMeansWhole`: whatever crashed or failed, a file that is read as complete has
  every event handed to the writer for it. `FileInv` says that every file is the beginning
  of a segment and a rotated one all of it;
* `FilesKeepTheirWord` (`FilesAreWhatTheyClaim`): `replay` reads a rotated file, and the last one
  of a capture that ended well, as a whole trace if and only if it has no more events than a
  replay takes. `ClosedFile` has both directions, for segments of any length.

For every kernel, every set of functions, backend and option, and whatever the filters compile
to (`CaptureSetupProofs`), from `SetupInv`, which says of each phase what has been attached so
far:

* `NamesAreAccountedFor` (`EveryNameIsAccountedFor`): a plan probes or reports every name it was
  asked for;
* `HeaderIsTrue` (`HeaderTellsWhatIsAttached`): while kprobes are linked, the links made and
  the functions left are together the stages the plan calls for (`AttachingOK`), also
  after the automatic backend has gone back to load;
* `AllOrNothing` (`FailureLeavesNothing`): libbpf was asked to load exactly the programs that are
  then linked (`StagesAreActive`), which is why set-up never fails by itself;
* `EntriesHaveExits` (`XdpEntriesHaveExits`): a program whose entry is traced cannot be unloaded,
  so that it is still loaded when exits are enumerated, whatever else came and went, and then
  found or `missed`.

For every plan, path and network, and every budget and answer of an enrichment
(`RouteTraceProofs`):

* `RouteTypeCorrect`: no counter exceeds the plan, and no more answers are under way than
  probes were sent;
* `StopReasonsAreTrue`, from `TraceInv`: the probes sent, the sequence number and the
  observations recorded are one number in three places, and whatever is in the socket's
  queue answers a probe of this hop or of an earlier one (`WireOK`), so that a late
  answer of the target never shortens the path; the records show which hops were probed to
  their end (`StreamOK`), and that outlives the enrichment, which rewrites them;
* `ReplaysAsWritten` (`ReplaysExactlyWhatWasWritten`), from `ReplayInv`: what `trace_udp` counts
  probe by probe is what a replay of the hops recorded so far would count, the probe that
  is waited for aside, and the enrichment changes none of it. For the other half: without one
  of the hops there are fewer probes than the footer counts (their places are mapped one
  to one into the places of the other hops' probes), a record doubled or two exchanged break
  the order of TTLs or the frame of the stream;
* `GapsAccountedFor` (`EnrichmentAccountsForGaps`), from `EnrichmentInv`: an eligible address is on
  the list, being looked up, filed or given up for a budget the report names, and
  an origin has its verdict, is still to be validated, or lacks it for that or for a
  failed request, also when the failure is one remembered from another address.

### What they assume

The named ASSUMEs of the modules. `Cpu`, `Skb` and `Site` are finite: there are finitely
many CPUs, 64-bit identities, and probes of a plan. Mission identifiers are naturals, so that
the order the code scans them in is total. The placeholder `None` is none of the values it
stands in for, as Rust's `None` and the kernel's 0 are not. Each agent has one sensor. A set-up
request names one of the three backends the command line knows, a kernel function's parameters
are a sequence, a map helper has one of the four roles, and there is a program for every argument
position that is probed. The contexts that run XDP programs (`Driver`) are contexts. Bounds on
events, packets, identities, captures and generations are naturals, of any size: the
theorems say nothing of what happens when a 64-bit counter wraps. `Family`, the faults of the files,
is any set of kinds of them.

### How induction over data is avoided

A theorem that takes an operator cannot be used here, so induction is done by taking a least
counterexample: a smallest subset on which a sum is not what is claimed (`LeastSet`), a least
number (`LeastNat`, `LeastNumber`, `LeastNatural`, `LeastArgument`). `CaptureSessionProofs` first shows that a sum over a finite set is
what a recursive table of all its subsets says (`SumUnfold`, `AdderExists`), which gives
`SumTake`, `SumChange`, `SumSwap` and the rest; `SegmentedOutputProofs` that a fold
over a sequence goes through the states of a pass (`FoldUnfold`, `FoldExists`,
`ReplayPasses`).

### Model-checked only

* `LossSurfaces` and `CommandsEnd`: liveness under fairness is beyond the prover;
* `FiltersMeanWhatIsAsked` (of `CaptureFilters`): the parser and the resolver of paths are
  RECURSIVE operators, and what they compute for every expression needs induction over it;
* `CorrelationsAreBest` (of `ArcEvidence`): the matching is RECURSIVE as well, and that augmenting
  paths end in a best one is an induction over the graph.

## Not modelled, and why

Tests of options that need nothing but the command line; event conversion and text
output; `snapshot` and static assets, which only read; artifact decoding, which is a
precondition of a submission; the validation of identifiers and plans and the wording of
an edge (`skbx-mission`); the saturation of 64-bit times there; the tallies and route
patterns of a replay's summary and the neighbours an explanation lists; compression, and
the steps inside the crate that renames segments; libpcap's compiler and the cBPF
interpreter, which are what a packet is accepted by; the sizes and addresses of
maps; name resolution, times and the demonstration stream of the route tracer; nested
handlers on one CPU. Host inspection, console, demonstration data, site and scripts have
no state of their own.

An ICMP error of local origin is counted as a reply by `trace_udp` and as a local
error by its `replay`; Linux queues one for a datagram larger than the path's MTU, and the
probes carry four bytes, so the error queue of `RouteTrace` holds none.

## Plan

Done: the ledger, the session, Arc and its agents, the bounded map, the reader, the segment
writer, the lineage, the set-up and the route tracer, with proofs of their safety
properties; the filters and the correlation, model-checked. Next: `TraceReplay` extended by
the summary's patterns and by `explain` reading a file that is still being written or
rotated.
