----------------------------- MODULE LossLedger -----------------------------
(***************************************************************************)
(* The kernel side of a capture: probe handlers running on every CPU emit  *)
(* one record per observation into the shared ring buffer, and account for *)
(* each record the ring refuses in three places -- the CPU's own telemetry *)
(* slot, the per-packet table `skb_loss` and the per-probe table           *)
(* `probe_site_loss`.  The tables are bounded and shared by all CPUs, and  *)
(* a handler reaches them through separate map calls, so the steps of two  *)
(* handlers interleave between any two calls.                              *)
(*                                                                         *)
(* An entry of either table exists exactly when a count in it is not zero: *)
(* it is created holding a 1 and nothing deletes it.                       *)
(***************************************************************************)
EXTENDS Naturals, Sequences, FiniteSetsExt

CONSTANTS
  Cpu,             \* CPUs, each running at most one probe handler at a time
  Skb,             \* packet identities
  Site,            \* probes: a kernel function or a TC/XDP program
  RingSlots,       \* records the ring buffer holds
  SkbLossEntries,  \* max_entries of skb_loss
  MaxProbeSites,   \* max_entries of probe_site_loss
  NoKey,           \* what an idle CPU's handler reports
  MaxHits          \* bound: probe hits in one behaviour

ASSUME CpuAssumption == Cpu # {} /\ IsFiniteSet(Cpu)
ASSUME SkbAssumption == IsFiniteSet(Skb)    \* 64-bit identities
ASSUME SiteAssumption == IsFiniteSet(Site)  \* the probes of one plan
ASSUME SizeAssumption ==
  /\ RingSlots \in Nat
  /\ SkbLossEntries \in Nat
  /\ MaxProbeSites \in Nat
  /\ MaxHits \in Nat

\* struct skb_loss_key: the packet and the probe that lost the observation.
Key == [skb : Skb, site : Site]

ASSUME NoKeyAssumption == NoKey \notin Key

VARIABLES
  handler,           \* handler[c]: the next step of the handler on CPU c
  hit,               \* hit[c]: the observation that handler reports
  ring,              \* committed records, oldest first
  reserve_failures,  \* telemetry, per CPU ...
  unattributed_reserve_failures,
  unattributed_skb_losses,
  skb_loss,          \* skb_loss[k]: losses filed against packet and probe
  probe_site_loss,   \* probe_site_loss[s][c]: losses of probe s on CPU c
  recursion_misses,  \* hits the kernel skipped on a CPU already in a handler
  hits,              \* bound: hits so far
  lost,              \* history: lost[k], records of k the ring refused
  unfiled            \* history: unfiled[c][k], those c could not file

telemetry == <<reserve_failures, unattributed_reserve_failures, unattributed_skb_losses>>
history == <<lost, unfiled>>
kernelVars == <<handler, hit, ring, telemetry, skb_loss, probe_site_loss,
                recursion_misses, hits, history>>

Steps == {"idle", "reserve", "count", "find", "add", "insert", "refind",
          "probe", "probeAdd", "probeInsert"}

TypeOK ==
  /\ handler \in [Cpu -> Steps]
  /\ hit \in [Cpu -> Key \cup {NoKey}]
  /\ \A c \in Cpu : hit[c] = NoKey <=> handler[c] = "idle"
  /\ ring \in Seq(Key)
  /\ reserve_failures \in [Cpu -> Nat]
  /\ unattributed_reserve_failures \in [Cpu -> Nat]
  /\ unattributed_skb_losses \in [Cpu -> Nat]
  /\ skb_loss \in [Key -> Nat]
  /\ probe_site_loss \in [Site -> [Cpu -> Nat]]
  /\ recursion_misses \in Nat
  /\ hits \in Nat
  /\ lost \in [Key -> Nat]
  /\ unfiled \in [Cpu -> [Key -> Nat]]

KernelInit ==
  /\ handler = [c \in Cpu |-> "idle"]
  /\ hit = [c \in Cpu |-> NoKey]
  /\ ring = <<>>
  /\ reserve_failures = [c \in Cpu |-> 0]
  /\ unattributed_reserve_failures = [c \in Cpu |-> 0]
  /\ unattributed_skb_losses = [c \in Cpu |-> 0]
  /\ skb_loss = [k \in Key |-> 0]
  /\ probe_site_loss = [s \in Site |-> [c \in Cpu |-> 0]]
  /\ recursion_misses = 0
  /\ hits = 0
  /\ lost = [k \in Key |-> 0]
  /\ unfiled = [c \in Cpu |-> [k \in Key |-> 0]]

-----------------------------------------------------------------------------
Filed == {k \in Key : skb_loss[k] # 0}
KnownSites == {s \in Site : \E c \in Cpu : probe_site_loss[s][c] # 0}

At(c, step) == handler[c] = step
Goto(c, step) == handler' = [handler EXCEPT ![c] = step]

Return(c) == Goto(c, "idle") /\ hit' = [hit EXCEPT ![c] = NoKey]

\* A probe fires for a packet on an idle CPU.
Hit(c, k) ==
  /\ At(c, "idle")
  /\ hits < MaxHits
  /\ Goto(c, "reserve")
  /\ hit' = [hit EXCEPT ![c] = k]
  /\ hits' = hits + 1
  /\ UNCHANGED <<ring, telemetry, skb_loss, probe_site_loss, recursion_misses, history>>

\* A probe fires on a CPU whose handler is still running: the kernel does not
\* call the program and counts the miss.
Miss(c) ==
  /\ ~At(c, "idle")
  /\ hits < MaxHits
  /\ hits' = hits + 1
  /\ recursion_misses' = recursion_misses + 1
  /\ UNCHANGED <<handler, hit, ring, telemetry, skb_loss, probe_site_loss, history>>

\* bpf_ringbuf_reserve (or bpf_ringbuf_output) and submit.
Emit(c) ==
  /\ At(c, "reserve")
  /\ Len(ring) < RingSlots
  /\ ring' = Append(ring, hit[c])
  /\ Return(c)
  /\ UNCHANGED <<telemetry, skb_loss, probe_site_loss, recursion_misses, hits, history>>

Refuse(c) ==
  /\ At(c, "reserve")
  /\ Len(ring) >= RingSlots
  /\ Goto(c, "count")
  /\ lost' = [lost EXCEPT ![hit[c]] = @ + 1]
  /\ UNCHANGED <<hit, ring, telemetry, skb_loss, probe_site_loss, recursion_misses, hits, unfiled>>

\* counters->reserve_failures++, before either table is touched.
CountFailure(c) ==
  /\ At(c, "count")
  /\ reserve_failures' = [reserve_failures EXCEPT ![c] = @ + 1]
  /\ Goto(c, "find")
  /\ UNCHANGED <<hit, ring, unattributed_reserve_failures, unattributed_skb_losses,
                 skb_loss, probe_site_loss, recursion_misses, hits, history>>

\* The first lookup of record_skb_loss.
FindSkbLoss(c) ==
  /\ At(c, "find")
  /\ Goto(c, IF hit[c] \in Filed THEN "add" ELSE "insert")
  /\ UNCHANGED <<hit, ring, telemetry, skb_loss, probe_site_loss, recursion_misses, hits, history>>

\* __sync_fetch_and_add on the entry found.
AddSkbLoss(c) ==
  /\ At(c, "add")
  /\ skb_loss' = [skb_loss EXCEPT ![hit[c]] = @ + 1]
  /\ Goto(c, "probe")
  /\ UNCHANGED <<hit, ring, telemetry, probe_site_loss, recursion_misses, hits, history>>

\* Mutant: BPF_ANY, which overwrites what another CPU filed since the lookup.
InsertSkbLossAny(c) ==
  /\ At(c, "insert")
  /\ IF hit[c] \in Filed \/ Cardinality(Filed) < SkbLossEntries
       THEN skb_loss' = [skb_loss EXCEPT ![hit[c]] = 1] /\ Goto(c, "probe")
       ELSE Goto(c, "refind") /\ UNCHANGED skb_loss
  /\ UNCHANGED <<hit, ring, telemetry, probe_site_loss, recursion_misses, hits, history>>

\* bpf_map_update_elem(..., BPF_NOEXIST): refused when another CPU inserted the
\* key since the lookup, and when the table is full.
InsertSkbLoss(c) ==
  /\ At(c, "insert")
  /\ IF hit[c] \notin Filed /\ Cardinality(Filed) < SkbLossEntries
       THEN skb_loss' = [skb_loss EXCEPT ![hit[c]] = 1] /\ Goto(c, "probe")
       ELSE Goto(c, "refind") /\ UNCHANGED skb_loss
  /\ UNCHANGED <<hit, ring, telemetry, probe_site_loss, recursion_misses, hits, history>>

\* Mutant: a failed insert is taken for a lost race, and a full table goes
\* uncounted.
RefindSkbLossSilent(c) ==
  /\ At(c, "refind")
  /\ IF hit[c] \in Filed
       THEN Goto(c, "add") /\ UNCHANGED unfiled
       ELSE unfiled' = [unfiled EXCEPT ![c][hit[c]] = @ + 1] /\ Goto(c, "probe")
  /\ UNCHANGED <<hit, ring, telemetry, skb_loss, probe_site_loss, recursion_misses, hits, lost>>

\* The second lookup: a lost race still has an entry, a full table has none.
RefindSkbLoss(c) ==
  /\ At(c, "refind")
  /\ IF hit[c] \in Filed
       THEN Goto(c, "add") /\ UNCHANGED <<unattributed_skb_losses, unfiled>>
       ELSE /\ unattributed_skb_losses' = [unattributed_skb_losses EXCEPT ![c] = @ + 1]
            /\ unfiled' = [unfiled EXCEPT ![c][hit[c]] = @ + 1]
            /\ Goto(c, "probe")
  /\ UNCHANGED <<hit, ring, reserve_failures, unattributed_reserve_failures, skb_loss,
                 probe_site_loss, recursion_misses, hits, lost>>

FindProbeSite(c) ==
  /\ At(c, "probe")
  /\ Goto(c, IF hit[c].site \in KnownSites THEN "probeAdd" ELSE "probeInsert")
  /\ UNCHANGED <<hit, ring, telemetry, skb_loss, probe_site_loss, recursion_misses, hits, history>>

\* *attributed += 1, on this CPU's slot of the entry.
AddProbeSite(c) ==
  /\ At(c, "probeAdd")
  /\ probe_site_loss' = [probe_site_loss EXCEPT ![hit[c].site][c] = @ + 1]
  /\ Return(c)
  /\ UNCHANGED <<ring, telemetry, skb_loss, recursion_misses, hits, history>>

\* bpf_map_update_elem(..., BPF_ANY): sets this CPU's slot, creating the entry
\* if no other CPU has since the lookup; fails only for a new key in a full map.
InsertProbeSite(c) ==
  /\ At(c, "probeInsert")
  /\ IF hit[c].site \in KnownSites \/ Cardinality(KnownSites) < MaxProbeSites
       THEN /\ probe_site_loss' = [probe_site_loss EXCEPT ![hit[c].site][c] = 1]
            /\ UNCHANGED unattributed_reserve_failures
       ELSE /\ unattributed_reserve_failures' =
                 [unattributed_reserve_failures EXCEPT ![c] = @ + 1]
            /\ UNCHANGED probe_site_loss
  /\ Return(c)
  /\ UNCHANGED <<ring, reserve_failures, unattributed_skb_losses, skb_loss,
                 recursion_misses, hits, history>>

HandlerStep(c) ==
  \/ Emit(c)
  \/ Refuse(c)
  \/ CountFailure(c)
  \/ FindSkbLoss(c)
  \/ AddSkbLoss(c)
  \/ InsertSkbLoss(c)
  \/ RefindSkbLoss(c)
  \/ FindProbeSite(c)
  \/ AddProbeSite(c)
  \/ InsertProbeSite(c)

KernelNext ==
  \E c \in Cpu : (\E k \in Key : Hit(c, k)) \/ Miss(c) \/ HandlerStep(c)

\* User space consumes the oldest record.
Consume ==
  /\ ring # <<>>
  /\ ring' = Tail(ring)
  /\ UNCHANGED <<handler, hit, telemetry, skb_loss, probe_site_loss,
                 recursion_misses, hits, history>>

Next == KernelNext \/ Consume

Spec == KernelInit /\ [][Next]_kernelVars

Fairness == \A c \in Cpu : WF_kernelVars(HandlerStep(c))

FairSpec == Spec /\ Fairness

-----------------------------------------------------------------------------
\* CPUs that lost a record of k and have neither filed it nor given up.
Filing(k) ==
  {c \in Cpu : hit[c] = k /\ handler[c] \in {"count", "find", "add", "insert", "refind"}}

\* The failure CPU c has counted but not yet attributed to its probe, if any.
Attributing(c) ==
  IF handler[c] \in {"find", "add", "insert", "refind", "probe", "probeAdd", "probeInsert"}
    THEN 1 ELSE 0

SumOver(f, S) == MapThenSumSet(LAMBDA x : f[x], S)

UnfiledBy(k) == SumOver([c \in Cpu |-> unfiled[c][k]], Cpu)
AttributedOn(c) == SumOver([s \in Site |-> probe_site_loss[s][c]], Site)

\* No loss is filed twice, overwritten or dropped: what the ring refused of a
\* packet at a probe is what the table holds for it, plus what found the table
\* full, plus what a handler is still filing.  The lookup, the BPF_NOEXIST
\* insert and the second lookup of record_skb_loss are separate map calls, and
\* two CPUs losing the same packet at the same probe interleave in them.
LedgerConservation ==
  \A k \in Key : lost[k] = skb_loss[k] + UnfiledBy(k) + Cardinality(Filing(k))

\* The per-probe slots of a CPU, its unattributed counter and the failure it
\* is working on add up to its total: BPF_ANY may not overwrite a count, and
\* a full map costs the attribution, never the failure.
ProbeConservation ==
  \A c \in Cpu :
    reserve_failures[c] =
      AttributedOn(c) + unattributed_reserve_failures[c] + Attributing(c)

\* No failure is lost, doubled or misfiled, in either ledger.
LossIsConserved == LedgerConservation /\ ProbeConservation

\* The claim the per-packet table exists for ("while this is zero,
\* kernel_loss_by_skb is exhaustive"): as long as no CPU found the table full,
\* every packet that lost an observation is in it, or a handler is still on
\* its way to put it there.
ExhaustiveWhileUnattributedIsZero ==
  (\A c \in Cpu : unattributed_skb_losses[c] = 0) =>
    \A k \in Key : lost[k] > 0 => k \in Filed \/ Filing(k) # {}

\* A lost observation surfaces: its packet gets an entry, or a CPU admits that
\* some loss could not be filed.
LossSurfaces ==
  \A k \in Key :
    lost[k] > 0 ~> k \in Filed \/ \E c \in Cpu : unattributed_skb_losses[c] > 0
=============================================================================
