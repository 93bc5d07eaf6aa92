---------------------------- MODULE CaptureSetup ----------------------------
(***************************************************************************)
(* `skbx capture` up to its main loop: the options are validated, filters  *)
(* and probes resolved, the kernel programs loaded and attached link by    *)
(* link, the output created and readiness signalled.  The host may refuse  *)
(* any load, link or file; BPF programs come and go while they are being   *)
(* traced.                                                                 *)
(*                                                                         *)
(* Left open: what filters are compiled to and when they are refused       *)
(* (CaptureFilters).                                                       *)
(*                                                                         *)
(* Abstracted: the sizes and addresses of maps, and the tests of options   *)
(* that need nothing but the command line.  What a phase no longer needs   *)
(* (the query, the filters once they are in the kernel's rodata) is        *)
(* forgotten, so that the phases add to the states and do not multiply.    *)
(***************************************************************************)
EXTENDS ProbePlan

CONSTANTS
  Request,       \* captures asked for: [filter, query, options]
  Compiled(_),   \* what the filters asked for are compiled to
  Refused(_, _), \* by the options and the compiled filters
  BpfProgram,    \* traceable BPF programs: function from name to "tc" or "xdp"
  MapRole,       \* "lookup", "update", "delete" or "none", by function name
  MaxChanges     \* bound: BPF programs loaded or unloaded by others

VARIABLES
  setup,         \* where the command is
  request,       \* what is still to be resolved, or Absent
  filters,       \* compiled filters, or Absent
  plan,          \* the probe plan, or Absent
  options,       \* [backend, track_skb, by_stackid, tc, xdp, replaced, ready]
  attempt,       \* the backend being tried
  autoload,      \* programs of the object that are loaded
  stages,        \* links still to be made, in order
  links,         \* [program, on, backend] of every link held
  targets,       \* BPF programs enumerated and not yet traced
  missed,        \* history: BPF programs the last enumeration passed over
  bpf_loaded,    \* BPF programs in the kernel
  changes,       \* bound: loads and unloads so far
  start,         \* the header's claims, or Absent
  artifact,      \* the output exists
  ready_file,    \* "absent", "stale" or "fresh"
  blame          \* history: who made set-up fail

setupVars == <<setup, request, filters, plan, options, attempt, autoload, stages, links,
               targets, missed, bpf_loaded, changes, start, artifact, ready_file, blame>>

SetupInit ==
  /\ setup = "resolve"
  /\ request \in Request
  /\ options = request.options
  /\ filters = Absent /\ plan = Absent /\ start = Absent
  /\ attempt = IF options.backend = "auto" THEN "kprobe-multi" ELSE options.backend
  /\ autoload = {} /\ stages = <<>> /\ links = {} /\ targets = {} /\ missed = {}
  /\ bpf_loaded \in SUBSET DOMAIN BpfProgram
  /\ (~options.tc /\ ~options.xdp => bpf_loaded = {})
  /\ changes = 0
  /\ artifact = FALSE
  /\ ready_file \in (IF options.ready THEN {"absent", "stale"} ELSE {"absent"})
  /\ blame = "nobody"

-----------------------------------------------------------------------------
\* What the code decides from the plan and the options.

StackProbes(probes) == {p.function : p \in {q \in probes : q.skb_argument = Absent}}
Role(probes, role) == {f \in StackProbes(probes) : MapRole[f] = role}
At(probes, argument) ==
  {p.function : p \in {q \in probes : q.skb_argument # Absent /\ q.skb_argument = argument}}

TrackStack(opts, probes) == opts.by_stackid \/ StackProbes(probes) # {}

SkbProgram == <<"skbx_skb_arg1", "skbx_skb_arg2", "skbx_skb_arg3", "skbx_skb_arg4",
                "skbx_skb_arg5">>

\* The command line knows three backends; a function has the role that the end of
\* its name says; there is a program for every argument the plan looks at.
ASSUME SetupAssumption ==
  /\ MAX_KPROBE_ARGUMENT \in 0..Len(SkbProgram)
  /\ \A f \in Available : MapRole[f] \in {"none", "lookup", "update", "delete"}
  /\ \A asked \in Request : asked.options.backend \in {"auto", "kprobe-multi", "kprobe"}

\* Functions that replace an skb, by the program that watches their entry.
Replacement == [skbx_replacement_arg2_entry |-> "skb_pp_cow_data",
                skbx_replacement_arg3_entry |-> "veth_convert_skb_to_xdp_buff"]

Replaced(opts, entry) ==
  IF opts.track_skb THEN {Replacement[entry]} \cap opts.replaced ELSE {}

If(condition, set) == IF condition THEN set ELSE {}

\* Mutant: the lifetime program is loaded for one of its two uses.
LifetimeActiveForSkb(opts, probes) == opts.track_skb
LifetimeActive(opts, probes) == opts.track_skb \/ TrackStack(opts, probes)

\* The programs attach_once() asks libbpf to load.
Active(opts, probes) ==
  {SkbProgram[p.skb_argument] : p \in {q \in probes : q.skb_argument # Absent}}
  \cup If(opts.track_skb, {"skbx_clone_entry", "skbx_clone_exit"})
  \cup If(LifetimeActive(opts, probes), {"skbx_skb_lifetime_end"})
  \cup If(Role(probes, "none") # {} /\ TrackStack(opts, probes), {"skbx_stack_associated"})
  \cup If(Role(probes, "lookup") # {} /\ TrackStack(opts, probes), {"skbx_map_lookup"})
  \cup If(Role(probes, "update") # {} /\ TrackStack(opts, probes), {"skbx_map_update"})
  \cup If(Role(probes, "delete") # {} /\ TrackStack(opts, probes), {"skbx_map_delete"})
  \cup {entry \in DOMAIN Replacement : Replaced(opts, entry) # {}}
  \cup If(\E entry \in DOMAIN Replacement : Replaced(opts, entry) # {}, {"skbx_replacement_exit"})

\* Programs whose functions may be linked as one kprobe-multi group.
Grouped == Range(SkbProgram) \cup
  {"skbx_stack_associated", "skbx_map_lookup", "skbx_map_update", "skbx_map_delete"}

Stage(program, functions) == [program |-> program, on |-> functions]

ByArgument(probes, a) == Stage(SkbProgram[a], At(probes, a))
ByStack(opts, probes, program, role) ==
  Stage(program, If(TrackStack(opts, probes), Role(probes, role)))

\* The links it then makes, in this order; those on no function are passed over.
Stages(opts, probes) ==
  LET clones == If(opts.track_skb, {"skb_clone", "skb_copy"})
      freed == If(opts.track_skb \/ TrackStack(opts, probes), {"kfree_skbmem"})
      cow == Replaced(opts, "skbx_replacement_arg2_entry")
      veth == Replaced(opts, "skbx_replacement_arg3_entry")
  IN <<ByArgument(probes, 1), ByArgument(probes, 2), ByArgument(probes, 3),
       ByArgument(probes, 4), ByArgument(probes, 5),
       ByStack(opts, probes, "skbx_stack_associated", "none"),
       ByStack(opts, probes, "skbx_map_lookup", "lookup"),
       ByStack(opts, probes, "skbx_map_update", "update"),
       ByStack(opts, probes, "skbx_map_delete", "delete"),
       Stage("skbx_skb_lifetime_end", freed),
       Stage("skbx_clone_entry", clones),
       Stage("skbx_clone_exit", clones),
       Stage("skbx_replacement_arg2_entry", cow),
       Stage("skbx_replacement_exit", cow),
       Stage("skbx_replacement_arg3_entry", veth),
       Stage("skbx_replacement_exit", veth)>>

-----------------------------------------------------------------------------
\* Failure, and the second attempt of the automatic backend.

kernelSide == <<autoload, stages, links, targets, missed>>

Drop ==
  /\ links' = {} /\ autoload' = {} /\ stages' = <<>> /\ targets' = {} /\ missed' = {}

Fail(who) ==
  /\ setup' = "failed"
  /\ blame' = who
  /\ Drop

\* Mutant: the links of the first attempt are still held during the second.
AttemptFailsKeepingLinks(who) ==
  IF options.backend = "auto" /\ attempt = "kprobe-multi"
    THEN /\ setup' = "load"
         /\ attempt' = "kprobe"
         /\ autoload' = {} /\ stages' = <<>> /\ targets' = {} /\ missed' = {}
         /\ UNCHANGED <<links, blame>>
    ELSE Fail(who) /\ UNCHANGED attempt

\* attach_once() returns an error: what it built is dropped.
AttemptFails(who) ==
  IF options.backend = "auto" /\ attempt = "kprobe-multi"
    THEN /\ setup' = "load"
         /\ attempt' = "kprobe"
         /\ Drop
         /\ UNCHANGED blame
    ELSE Fail(who) /\ UNCHANGED attempt

-----------------------------------------------------------------------------
\* Resolution.

\* prepare_ready_file(), then the filters, then whether there is one to track by.
ResolveFilters ==
  /\ setup = "resolve"
  /\ ready_file' = IF options.ready THEN "absent" ELSE ready_file
  /\ LET compiled == Compiled(request.filter)
     IN /\ filters' = compiled
        /\ IF Refused(options, compiled) THEN Fail("request")
           ELSE setup' = "plan" /\ UNCHANGED <<blame, kernelSide>>
  /\ UNCHANGED <<request, plan, options, attempt, bpf_loaded, changes, start, artifact>>

\* No function is asked for, only BPF programs.
DynamicOnly(query) ==
  /\ options.tc \/ options.xdp
  /\ query.exact = {} /\ query.pattern = Absent /\ query.non_skb = {} /\ query.helpers = {}
  /\ query.modules = {} /\ ~query.all_modules

BuildPlan ==
  /\ setup = "plan"
  /\ LET query == request.query
     IN IF ~DynamicOnly(query) /\ PlanFails(query) THEN Fail("request") /\ UNCHANGED plan
        ELSE /\ plan' = IF DynamicOnly(query) THEN {} ELSE build_probe_plan_with_bpf_helpers(query)
             /\ setup' = "planned"
             /\ UNCHANGED <<blame, kernelSide>>
  /\ filters' = Absent
  /\ UNCHANGED <<request, options, attempt, bpf_loaded, changes, start, artifact, ready_file>>

\* Only what can be attached goes on; the rest was reported.  libpcap may refuse
\* a filter it is given.
AcceptPlan ==
  /\ setup = "planned"
  /\ request' = Absent
  /\ plan' = Attachments(plan)
  /\ \/ /\ Attachments(plan) # {} \/ options.tc \/ options.xdp
        /\ setup' = "load"
        /\ UNCHANGED <<blame, kernelSide>>
     \/ /\ \/ Attachments(plan) = {} /\ ~options.tc /\ ~options.xdp
           \/ request.filter.pcap \cup request.filter.tunnel # {}
        /\ Fail("request")
  /\ UNCHANGED <<filters, options, attempt, bpf_loaded, changes, start, artifact, ready_file>>

-----------------------------------------------------------------------------
\* Attachment.

Load ==
  /\ setup = "load"
  /\ \/ /\ autoload' = Active(options, plan)
        /\ stages' = Stages(options, plan)
        /\ setup' = "attach"
        /\ UNCHANGED <<attempt, links, targets, missed, blame>>
     \/ AttemptFails("host")
  /\ UNCHANGED <<request, filters, plan, options, bpf_loaded, changes, start, artifact, ready_file>>

\* The functions the next link is for: the whole group, or one of it.
NextLinks(stage) ==
  IF stage.program \in Grouped /\ attempt = "kprobe-multi" THEN {stage.on} ELSE {{f} : f \in stage.on}

LinkOf(stage, f) ==
  [program |-> stage.program, on |-> f, backend |-> IF stage.program \in Grouped THEN attempt ELSE "kprobe"]

\* The stage that is next: those before it have no function left.
Due(i) == stages[i].on # {} /\ \A j \in 1..(i - 1) : stages[j].on = {}

Attach ==
  /\ setup = "attach"
  /\ \E i \in DOMAIN stages :
       /\ Due(i)
       /\ \/ /\ stages[i].program \in autoload
             /\ \E functions \in NextLinks(stages[i]) :
                  /\ links' = links \cup {LinkOf(stages[i], f) : f \in functions}
                  /\ stages' = [stages EXCEPT ![i].on = @ \ functions]
             /\ UNCHANGED <<setup, attempt, autoload, targets, missed, blame>>
          \/ AttemptFails(IF stages[i].program \in autoload THEN "host" ELSE "program")
  /\ UNCHANGED <<request, filters, plan, options, bpf_loaded, changes, start, artifact, ready_file>>

\* TC programs, then XDP entries, then XDP exits.
Tracer == [tc |-> "skbx_trace_tc", entries |-> "skbx_trace_xdp", exits |-> "skbx_trace_xdp_exit"]
Traced(kind) == IF kind = "tc" THEN "tc" ELSE "xdp"

AfterKprobes == IF options.tc THEN "tc" ELSE IF options.xdp THEN "entries" ELSE "sensor"
After(kind) ==
  IF kind = "tc" THEN (IF options.xdp THEN "entries" ELSE "sensor")
  ELSE IF kind = "entries" THEN "exits" ELSE "sensor"

Loaded(kind) == {b \in bpf_loaded : BpfProgram[b] = Traced(kind)}

\* The programs of that type now in the kernel.  One whose information or BTF cannot
\* be read is passed over in silence, and ProgInfoIter ends at the first that it
\* cannot open: any of them may be missed, each time.
Enumerate(kind) ==
  /\ setup' = kind
  /\ IF kind \in DOMAIN Tracer
       THEN targets' \in SUBSET Loaded(kind) /\ missed' = Loaded(kind) \ targets'
       ELSE targets' = {} /\ UNCHANGED missed

KprobesDone ==
  /\ setup = "attach"
  /\ \A i \in DOMAIN stages : stages[i].on = {}
  /\ stages' = <<>>
  /\ Enumerate(AfterKprobes)
  /\ UNCHANGED <<request, filters, plan, options, attempt, autoload, links,
                 bpf_loaded, changes, start, artifact, ready_file, blame>>

\* Mutant: a program that cannot be traced is passed over.
TracerFailsQuietly ==
  /\ \E b \in targets : targets' = targets \ {b}
  /\ UNCHANGED <<setup, attempt, autoload, stages, links, missed, blame>>

\* One that cannot be loaded, opened or attached ends the attempt.
TracerFails == AttemptFails("host")

\* attach_dynamic_programs(): one target.  One that is gone cannot be opened.
AttachTracer ==
  /\ setup \in DOMAIN Tracer
  /\ \/ \E b \in targets \cap bpf_loaded :
          /\ links' = links \cup {[program |-> Tracer[setup], on |-> b, backend |-> "tracing"]}
          /\ targets' = targets \ {b}
          /\ UNCHANGED <<setup, attempt, autoload, stages, missed, blame>>
     \/ targets # {} /\ TracerFails
  /\ UNCHANGED <<request, filters, plan, options, bpf_loaded, changes, start, artifact, ready_file>>

LinkedBy(program) == {l.on : l \in {k \in links : k.program = program}}

\* bpf_programs, filled by tracer links; an XDP program counts once.
bpf_programs ==
  LinkedBy("skbx_trace_tc") \cup LinkedBy("skbx_trace_xdp") \cup LinkedBy("skbx_trace_xdp_exit")

TracersDone ==
  /\ setup \in DOMAIN Tracer
  /\ targets = {}
  /\ IF \/ setup = "tc" /\ LinkedBy("skbx_trace_tc") = {}
        \/ setup = "exits" /\ ~\E b \in bpf_programs : BpfProgram[b] = "xdp"
       THEN AttemptFails("host")
       ELSE Enumerate(After(setup)) /\ UNCHANGED <<attempt, autoload, stages, links, blame>>
  /\ UNCHANGED <<request, filters, plan, options, bpf_loaded, changes, start, artifact, ready_file>>

\* The maps are opened, the ring created, and the header takes what was attached
\* from the sensor.
SensorReady ==
  /\ setup = "sensor"
  /\ \/ /\ start' = [probes |-> {[function |-> p.function, module |-> p.module] : p \in plan},
                     attachment_backend |-> attempt,
                     identity_hooks |-> UNION {Replaced(options, e) : e \in DOMAIN Replacement},
                     bpf_programs |-> bpf_programs]
        /\ setup' = "output"
        /\ UNCHANGED <<kernelSide, attempt, blame>>
     \/ AttemptFails("host") /\ UNCHANGED start
  /\ UNCHANGED <<request, filters, plan, options, bpf_loaded, changes, artifact, ready_file>>

-----------------------------------------------------------------------------
\* Output.

\* The output is created, and its header written and flushed, or not.
WriteHeader ==
  /\ setup = "output"
  /\ artifact' \in BOOLEAN
  /\ \/ artifact' /\ setup' = "signal" /\ UNCHANGED <<blame, kernelSide>>
     \/ Fail("output")
  /\ UNCHANGED <<request, filters, plan, options, attempt, bpf_loaded, changes, start, ready_file>>

\* signal_ready() creates the file and fails when it exists.
SignalReady ==
  /\ setup = "signal"
  /\ \/ /\ ~options.ready \/ ready_file = "absent"
        /\ ready_file' = IF options.ready THEN "fresh" ELSE ready_file
        /\ setup' = "running"
        /\ UNCHANGED <<blame, kernelSide>>
     \/ options.ready /\ Fail("output") /\ UNCHANGED ready_file
  /\ UNCHANGED <<request, filters, plan, options, attempt, bpf_loaded, changes, start, artifact>>

-----------------------------------------------------------------------------
\* The host: a BPF program comes or goes.  A tracing link holds its target.

Attaching == {"attach", "tc", "entries", "exits"}

BpfProgramsChange ==
  /\ setup \in Attaching
  /\ options.tc \/ options.xdp
  /\ changes < MaxChanges
  /\ changes' = changes + 1
  /\ \E b \in DOMAIN BpfProgram :
       \/ b \notin bpf_loaded /\ bpf_loaded' = bpf_loaded \cup {b}
       \/ b \in bpf_loaded \ bpf_programs /\ bpf_loaded' = bpf_loaded \ {b}
  /\ UNCHANGED <<setup, request, filters, plan, options, attempt, autoload, stages, links,
                 targets, missed, start, artifact, ready_file, blame>>

SetupNext ==
  \/ ResolveFilters \/ BuildPlan \/ AcceptPlan
  \/ Load \/ Attach \/ KprobesDone \/ AttachTracer \/ TracersDone \/ SensorReady
  \/ WriteHeader \/ SignalReady
  \/ BpfProgramsChange

SetupSpec == SetupInit /\ [][SetupNext]_setupVars

-----------------------------------------------------------------------------
AccountsFor(probes, query) ==
  LET Named(n) == {f \in Functions(query) : f.name = n}
      AsSkb(n) == {f \in Named(n) : skb_argument(f) # Absent}
      Direct(n) == {p \in probes : p.function = n /\ p.skb_argument # Absent}
      ByItsStack(n) == \E p \in probes : p.function = n /\ p.skb_argument = Absent
                                            /\ p.module = Absent /\ ~p.asserted
  IN /\ \A n \in query.exact \cup query.helpers :
          {<<p.module, p.skb_argument>> : p \in Direct(n)}
            = {<<f.module, skb_argument(f)>> : f \in AsSkb(n)}
     /\ {p.function : p \in {q \in probes : q.asserted}}
          = {n \in query.exact : AsSkb(n) = {} /\ ~ByItsStack(n)}
              \cup {n \in query.non_skb : AsSkb(n) = Named(n)}
              \cup {n \in query.helpers : Named(n) = {}}

\* A function asked for is probed where it exists as asked, or is named in the
\* plan as missing, unless it is probed by its stack; and a probe sits at the
\* packet argument its program reads.
EveryNameIsAccountedFor ==
  setup = "planned" /\ ~DynamicOnly(request.query) => AccountsFor(plan, request.query)

Attached == setup \in {"output", "signal", "running"}

\* Every link is of the attempt that succeeded, and the header names what they
\* are linked to: every probe, the functions whose packet replacement is
\* followed at both ends, and the BPF programs.
HeaderTellsWhatIsAttached ==
  Attached =>
    LET grouped == {l \in links : l.program \in Grouped}
    IN /\ {p.function : p \in start.probes} = {l.on : l \in grouped}
       /\ \A l \in grouped : l.backend = start.attachment_backend
       /\ \A f \in options.replaced \cup start.identity_hooks :
            f \in start.identity_hooks <=>
              /\ f \in LinkedBy("skbx_replacement_exit")
              /\ \E e \in DOMAIN Replacement : f \in LinkedBy(e)
       /\ start.bpf_programs = {l.on : l \in {k \in links : k.backend = "tracing"}}
       /\ {l.program : l \in {k \in links : k.backend # "tracing"}} = autoload

\* A frame that is traced on its way into an XDP program is traced on its way
\* out: the exits are found by a second look at the kernel, after programs may
\* have come and gone, and only a program this look could not read is left without.
XdpEntriesHaveExits ==
  Attached => LinkedBy("skbx_trace_xdp") \ missed \subseteq LinkedBy("skbx_trace_xdp_exit")

\* Set-up never fails by itself, and when it fails nothing stays attached, and
\* there is no output unless the output is what failed.
FailureLeavesNothing ==
  /\ blame # "program"
  /\ setup = "failed" => links = {} /\ (artifact => blame = "output")
  /\ ready_file = "fresh" => setup = "running" /\ artifact
=============================================================================
