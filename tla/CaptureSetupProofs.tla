------------------------- MODULE CaptureSetupProofs -------------------------
(***************************************************************************)
(* For every kernel, every capture asked for and whatever its filters      *)
(* compile to: a plan accounts for the names it was asked for, the header  *)
(* names what is attached, XDP entries have exits where the program could  *)
(* be read, and set-up is all or nothing.                                  *)
(*                                                                         *)
(* SetupInv says of each phase what has been attached so far.  While       *)
(* kprobes are linked (AttachingOK), the links made and the functions left *)
(* are together the stages that the plan calls for; later (LinkedOK) the   *)
(* links but those of tracers are all of them.  That libbpf was asked to   *)
(* load exactly the programs that are then linked (StagesAreActive) is why *)
(* set-up never fails by itself.  An XDP program whose entry is traced     *)
(* cannot be unloaded, so that it is there when exits are enumerated, and  *)
(* found unless its information or BTF cannot be read (XdpOK).             *)
(***************************************************************************)
EXTENDS CaptureSetup, WellFoundedInduction, TLAPS

-----------------------------------------------------------------------------
\* Plans.

\* A set of naturals has a least element.
LEMMA LeastArgument ==
  ASSUME NEW S \in SUBSET Nat, S # {}
  PROVE  Min(S) \in S
<1> DEFINE R == {ss \in Nat \X Nat : ss[1] < ss[2]}
<1>1. IsWellFoundedOn(R, Nat)
  BY NatLessThanWellFounded DEF OpToRel
<1>2. PICK x \in S : \A y \in S : <<y, x>> \notin R
  <2> HIDE DEF R
  <2> QED
    BY <1>1, WFMin
<1>3. \A y \in S : x <= y
  <2> SUFFICES ASSUME NEW y \in S PROVE x <= y
    OBVIOUS
  <2>1. <<y, x>> \notin R
    BY <1>2
  <2> QED
    BY <2>1
<1> HIDE DEF R
<1> QED
  BY <1>2, <1>3 DEF Min

\* A function is probed at an argument that a program reads, or by its stack.
LEMMA ArgumentRange ==
  ASSUME NEW f \in KernelFunction
  PROVE  skb_argument(f) \in 1..MAX_KPROBE_ARGUMENT \cup {Absent}
<1> DEFINE S == {i \in DOMAIN f.parameters :
                   i <= MAX_KPROBE_ARGUMENT /\ f.parameters[i] = "skb"}
<1>1. DOMAIN f.parameters = 1..Len(f.parameters) /\ Len(f.parameters) \in Nat
  BY PlanAssumption
<1>2. S \subseteq 1..MAX_KPROBE_ARGUMENT
  BY <1>1, PlanAssumption
<1>3. ASSUME S # {} PROVE Min(S) \in 1..MAX_KPROBE_ARGUMENT
  <2> HIDE DEF S
  <2>1. S \in SUBSET Nat
    BY <1>2, PlanAssumption
  <2> QED
    BY <1>2, <1>3, <2>1, LeastArgument
<1>4. skb_argument(f) = IF S = {} THEN Absent ELSE Min(S)
  BY DEF skb_argument
<1> HIDE DEF S
<1> QED
  BY <1>3, <1>4

\* What is found: a function is probed at its packet when it is selected, and by
\* its stack when it is asked for without one.
LEMMA FoundProbes ==
  ASSUME NEW query
  PROVE  /\ \A p \in discover_btf(query) : \E f \in Functions(query) :
              /\ p = Probe(f, skb_argument(f))
              /\ IF skb_argument(f) = Absent THEN f.name \in non_skb(query)
                 ELSE selected(query, f.name)
         /\ \A f \in Functions(query) :
              (IF skb_argument(f) = Absent THEN f.name \in non_skb(query)
               ELSE selected(query, f.name))
                => Probe(f, skb_argument(f)) \in discover_btf(query)
  BY DEF discover_btf

\* A probe's fields.
LEMMA ProbeFields ==
  ASSUME NEW f, NEW argument
  PROVE  /\ Probe(f, argument).function = f.name
         /\ Probe(f, argument).module = f.module
         /\ Probe(f, argument).skb_argument = argument
         /\ ~Probe(f, argument).asserted
  BY DEF Probe

\* Those of a name that was not found.
LEMMA AssertedFields ==
  ASSUME NEW name
  PROVE  /\ CallerAsserted(name).function = name
         /\ CallerAsserted(name).module = Absent
         /\ CallerAsserted(name).skb_argument = Absent
         /\ CallerAsserted(name).asserted
         /\ ~CallerAsserted(name).available
  BY DEF CallerAsserted

\* A plan accounts for every name it was asked for.
LEMMA PlanAccounts ==
  ASSUME NEW query
  PROVE  AccountsFor(build_probe_plan_with_bpf_helpers(query), query)
<1> DEFINE found == discover_btf(query)
           probes == build_probe_plan_with_bpf_helpers(query)
           lost == {m \in Missing(query, found) : ~Deduplicated(m, found)}
           Named(n) == {f \in Functions(query) : f.name = n}
           AsSkb(n) == {f \in Named(n) : skb_argument(f) # Absent}
           Direct(n) == {p \in probes : p.function = n /\ p.skb_argument # Absent}
           ByItsStack(n) == \E p \in probes : p.function = n /\ p.skb_argument = Absent
                                                 /\ p.module = Absent /\ ~p.asserted
<1>1. probes = found \cup {CallerAsserted(n) : n \in lost}
  BY DEF build_probe_plan_with_bpf_helpers
<1>2. \A p \in found : ~p.asserted
  BY FoundProbes, ProbeFields
<1>3. \A f \in Functions(query) :
        /\ skb_argument(f) # Absent /\ f.name \in query.exact \cup query.helpers =>
             Probe(f, skb_argument(f)) \in found
        /\ skb_argument(f) = Absent /\ f.name \in query.non_skb \cup query.helpers =>
             Probe(f, skb_argument(f)) \in found
  BY FoundProbes DEF selected, non_skb
<1>4. \A p \in found : \E f \in Functions(query) : p = Probe(f, skb_argument(f))
  BY FoundProbes
<1> HIDE DEF found, probes, lost
<1>5. ASSUME NEW n \in query.exact \cup query.helpers
      PROVE  {<<p.module, p.skb_argument>> : p \in Direct(n)}
               = {<<f.module, skb_argument(f)>> : f \in AsSkb(n)}
  <2>1. ASSUME NEW p \in Direct(n)
        PROVE  <<p.module, p.skb_argument>> \in {<<f.module, skb_argument(f)>> : f \in AsSkb(n)}
    <3>1. p \in found
      BY <1>1, AssertedFields
    <3>2. PICK f \in Functions(query) : p = Probe(f, skb_argument(f))
      BY <1>4, <3>1
    <3> QED
      BY <3>2, ProbeFields
  <2>2. ASSUME NEW f \in AsSkb(n)
        PROVE  <<f.module, skb_argument(f)>> \in {<<p.module, p.skb_argument>> : p \in Direct(n)}
    <3>1. Probe(f, skb_argument(f)) \in found
      BY <1>3
    <3>2. Probe(f, skb_argument(f)) \in Direct(n)
      BY <1>1, <3>1, ProbeFields
    <3> QED
      BY <3>2, ProbeFields
  <2> QED
    BY <2>1, <2>2
<1>6. {p.function : p \in {q \in probes : q.asserted}} = lost
  BY <1>1, <1>2, AssertedFields
<1>7. ASSUME NEW n
      PROVE  (\E p \in found : p.function = n /\ p.skb_argument # Absent
                /\ n \in query.exact \cup query.helpers)
               <=> AsSkb(n) # {} /\ n \in query.exact \cup query.helpers
  BY <1>3, <1>4, ProbeFields
<1>8. ASSUME NEW n
      PROVE  (\E p \in found : p.function = n /\ p.skb_argument = Absent
                /\ n \in query.non_skb \cup query.helpers)
               <=> AsSkb(n) # Named(n) /\ n \in query.non_skb \cup query.helpers
  BY <1>3, <1>4, ProbeFields
<1>9. \A n : Deduplicated(n, found) <=> ByItsStack(n)
  BY <1>1, <1>2, AssertedFields DEF Deduplicated
<1>10. lost = {n \in query.exact : AsSkb(n) = {} /\ ~ByItsStack(n)}
                \cup {n \in query.non_skb : AsSkb(n) = Named(n)}
                \cup {n \in query.helpers : Named(n) = {}}
  <2>1. \A n : n \in lost <=> n \in Missing(query, found) /\ ~ByItsStack(n)
    BY <1>9 DEF lost, Missing
  <2>2. \A n : ByItsStack(n) =>
          \E p \in found : p.function = n /\ p.skb_argument = Absent
    BY <1>9 DEF Deduplicated
  <2>3. \A n : n \in Missing(query, found) <=>
          \/ n \in query.exact /\ ~\E p \in found : p.function = n /\ p.skb_argument # Absent
          \/ n \in query.non_skb /\ ~\E p \in found : p.function = n /\ p.skb_argument = Absent
          \/ n \in query.helpers /\ ~\E p \in found : p.function = n
    BY DEF Missing
  <2>4. \A n : n \in query.helpers =>
          ((\E p \in found : p.function = n) <=> Named(n) # {})
    BY <1>7, <1>8
  <2> QED
    BY <1>7, <1>8, <2>1, <2>2, <2>3, <2>4
<1> QED
  BY <1>5, <1>6, <1>10 DEF AccountsFor, probes

-----------------------------------------------------------------------------
\* Stages.

\* Probes that a plan has.
ProbesOK(probes) ==
  \A p \in probes : /\ p.skb_argument \in 1..MAX_KPROBE_ARGUMENT \cup {Absent}
                    /\ p.function \in Available

\* The stages one by one.
LEMMA StageList ==
  ASSUME NEW opts, NEW probes
  PROVE  LET s == Stages(opts, probes)
             cow == Replaced(opts, "skbx_replacement_arg2_entry")
             veth == Replaced(opts, "skbx_replacement_arg3_entry")
             clones == If(opts.track_skb, {"skb_clone", "skb_copy"})
         IN /\ DOMAIN s = 1..16
            /\ \A a \in 1..5 : s[a] = ByArgument(probes, a)
            /\ s[6] = ByStack(opts, probes, "skbx_stack_associated", "none")
            /\ s[7] = ByStack(opts, probes, "skbx_map_lookup", "lookup")
            /\ s[8] = ByStack(opts, probes, "skbx_map_update", "update")
            /\ s[9] = ByStack(opts, probes, "skbx_map_delete", "delete")
            /\ s[10] = Stage("skbx_skb_lifetime_end",
                             If(opts.track_skb \/ TrackStack(opts, probes), {"kfree_skbmem"}))
            /\ s[11] = Stage("skbx_clone_entry", clones)
            /\ s[12] = Stage("skbx_clone_exit", clones)
            /\ s[13] = Stage("skbx_replacement_arg2_entry", cow)
            /\ s[14] = Stage("skbx_replacement_exit", cow)
            /\ s[15] = Stage("skbx_replacement_arg3_entry", veth)
            /\ s[16] = Stage("skbx_replacement_exit", veth)
<1> DEFINE s == Stages(opts, probes)
<1>1. DOMAIN s = 1..16
  BY DEF Stages
<1>2. /\ s[1] = ByArgument(probes, 1) /\ s[2] = ByArgument(probes, 2)
      /\ s[3] = ByArgument(probes, 3) /\ s[4] = ByArgument(probes, 4)
      /\ s[5] = ByArgument(probes, 5)
  BY DEF Stages
<1>3. \A a \in 1..5 : s[a] = ByArgument(probes, a)
  BY <1>2
<1> QED
  BY <1>1, <1>3 DEF Stages

\* A stage's fields.
LEMMA StageFields ==
  ASSUME NEW program, NEW functions
  PROVE  /\ Stage(program, functions).program = program
         /\ Stage(program, functions).on = functions
  BY DEF Stage

\* The programs by argument, as a table.
LEMMA SkbPrograms ==
  /\ DOMAIN SkbProgram = 1..5
  /\ SkbProgram[1] = "skbx_skb_arg1" /\ SkbProgram[2] = "skbx_skb_arg2"
  /\ SkbProgram[3] = "skbx_skb_arg3" /\ SkbProgram[4] = "skbx_skb_arg4"
  /\ SkbProgram[5] = "skbx_skb_arg5"
  /\ Range(SkbProgram) = {"skbx_skb_arg1", "skbx_skb_arg2", "skbx_skb_arg3", "skbx_skb_arg4",
                          "skbx_skb_arg5"}
  /\ MAX_KPROBE_ARGUMENT \in 0..5
<1>1. /\ DOMAIN SkbProgram = 1..5
      /\ SkbProgram[1] = "skbx_skb_arg1" /\ SkbProgram[2] = "skbx_skb_arg2"
      /\ SkbProgram[3] = "skbx_skb_arg3" /\ SkbProgram[4] = "skbx_skb_arg4"
      /\ SkbProgram[5] = "skbx_skb_arg5" /\ Len(SkbProgram) = 5
  BY DEF SkbProgram
<1>2. MAX_KPROBE_ARGUMENT \in 0..5
  BY <1>1, SetupAssumption
<1>3. Range(SkbProgram) = {SkbProgram[a] : a \in 1..5}
  BY <1>1 DEF Range
<1>4. {SkbProgram[a] : a \in 1..5} = {SkbProgram[1], SkbProgram[2], SkbProgram[3], SkbProgram[4],
                                     SkbProgram[5]}
  OBVIOUS
<1> QED
  BY <1>1, <1>2, <1>3, <1>4

\* The programs that trace BPF programs.
Tracers == {"skbx_trace_tc", "skbx_trace_xdp", "skbx_trace_xdp_exit"}

\* A stage is a program and functions, and none is for BPF programs.
LEMMA StagePrograms ==
  ASSUME NEW opts, NEW probes, NEW i \in 1..16
  PROVE  LET s == Stages(opts, probes)[i]
         IN s = Stage(s.program, s.on) /\ s.program \notin Tracers
<1> DEFINE Fits(s) == s = Stage(s.program, s.on) /\ s.program \notin Tracers
           st == Stages(opts, probes)
<1>1. ASSUME NEW program, NEW functions, program \notin Tracers
      PROVE  Fits(Stage(program, functions))
  BY <1>1, StageFields
<1>2. \A program \in Grouped : program \notin Tracers
  BY SkbPrograms DEF Grouped, Tracers
<1>3. \A a \in 1..5 : SkbProgram[a] \in Grouped
  BY SkbPrograms DEF Grouped
<1> HIDE DEF Fits, st
<1>4. \A a \in 1..5 : Fits(ByArgument(probes, a))
  BY <1>1, <1>2, <1>3 DEF ByArgument
<1>5. \A a \in 1..5 : st[a] = ByArgument(probes, a)
  BY StageList DEF st
<1>6. \A a \in 1..5 : Fits(st[a])
  BY <1>4, <1>5
<1>7. Fits(st[6]) /\ Fits(st[7]) /\ Fits(st[8]) /\ Fits(st[9])
  BY <1>1, StageList DEF st, ByStack, Tracers
<1>8. Fits(st[10]) /\ Fits(st[11]) /\ Fits(st[12]) /\ Fits(st[13])
  BY <1>1, StageList DEF st, Tracers
<1>9. Fits(st[14]) /\ Fits(st[15]) /\ Fits(st[16])
  BY <1>1, StageList DEF st, Tracers
<1>10. \/ i \in 1..5 \/ i = 6 \/ i = 7 \/ i = 8 \/ i = 9 \/ i = 10 \/ i = 11 \/ i = 12
       \/ i = 13 \/ i = 14 \/ i = 15 \/ i = 16
  OBVIOUS
<1>11. Fits(st[i])
  BY <1>6, <1>7, <1>8, <1>9, <1>10
<1> QED
  BY <1>11 DEF Fits, st

\* The fields of the stages.
LEMMA StageTable ==
  ASSUME NEW opts, NEW probes
  PROVE  LET s == Stages(opts, probes)
             stack == TrackStack(opts, probes)
             cow == Replaced(opts, "skbx_replacement_arg2_entry")
             veth == Replaced(opts, "skbx_replacement_arg3_entry")
             clones == If(opts.track_skb, {"skb_clone", "skb_copy"})
         IN /\ \A a \in 1..5 : s[a].program = SkbProgram[a] /\ s[a].on = At(probes, a)
            /\ s[6].program = "skbx_stack_associated" /\ s[6].on = If(stack, Role(probes, "none"))
            /\ s[7].program = "skbx_map_lookup" /\ s[7].on = If(stack, Role(probes, "lookup"))
            /\ s[8].program = "skbx_map_update" /\ s[8].on = If(stack, Role(probes, "update"))
            /\ s[9].program = "skbx_map_delete" /\ s[9].on = If(stack, Role(probes, "delete"))
            /\ s[10].program = "skbx_skb_lifetime_end"
            /\ s[10].on = If(opts.track_skb \/ stack, {"kfree_skbmem"})
            /\ s[11].program = "skbx_clone_entry" /\ s[11].on = clones
            /\ s[12].program = "skbx_clone_exit" /\ s[12].on = clones
            /\ s[13].program = "skbx_replacement_arg2_entry" /\ s[13].on = cow
            /\ s[14].program = "skbx_replacement_exit" /\ s[14].on = cow
            /\ s[15].program = "skbx_replacement_arg3_entry" /\ s[15].on = veth
            /\ s[16].program = "skbx_replacement_exit" /\ s[16].on = veth
  BY StageList, StageFields DEF ByArgument, ByStack

\* A program has something to watch exactly when libbpf is asked to load it.
LEMMA StagesAreActive ==
  ASSUME NEW opts, NEW probes, ProbesOK(probes)
  PROVE  LET s == Stages(opts, probes)
         IN \A program : program \in Active(opts, probes) <=>
              \E i \in 1..16 : s[i].program = program /\ s[i].on # {}
<1> DEFINE s == Stages(opts, probes)
           stack == TrackStack(opts, probes)
           cow == Replaced(opts, "skbx_replacement_arg2_entry")
           veth == Replaced(opts, "skbx_replacement_arg3_entry")
<1>1. \A a \in 1..5 : At(probes, a) # {} <=>
        \E p \in probes : p.skb_argument # Absent /\ p.skb_argument = a
  BY DEF At
<1>2. \A p \in probes : p.skb_argument # Absent => p.skb_argument \in 1..5
  BY SkbPrograms DEF ProbesOK
<1>3. \A program : program \in {SkbProgram[p.skb_argument] : p \in {q \in probes : q.skb_argument # Absent}}
        <=> \E i \in 1..5 : s[i].program = program /\ s[i].on # {}
  BY <1>1, <1>2, StageTable
<1>4. \A program : program \in If(opts.track_skb, {"skbx_clone_entry", "skbx_clone_exit"})
        <=> \E i \in 11..12 : s[i].program = program /\ s[i].on # {}
  BY StageTable DEF If
<1>5. \A program : program \in If(LifetimeActive(opts, probes), {"skbx_skb_lifetime_end"})
        <=> s[10].program = program /\ s[10].on # {}
  BY StageTable DEF If, LifetimeActive
<1>6. \A program :
        /\ program \in If(Role(probes, "none") # {} /\ stack, {"skbx_stack_associated"})
             <=> s[6].program = program /\ s[6].on # {}
        /\ program \in If(Role(probes, "lookup") # {} /\ stack, {"skbx_map_lookup"})
             <=> s[7].program = program /\ s[7].on # {}
        /\ program \in If(Role(probes, "update") # {} /\ stack, {"skbx_map_update"})
             <=> s[8].program = program /\ s[8].on # {}
        /\ program \in If(Role(probes, "delete") # {} /\ stack, {"skbx_map_delete"})
             <=> s[9].program = program /\ s[9].on # {}
  BY StageTable DEF If
<1>7. DOMAIN Replacement = {"skbx_replacement_arg2_entry", "skbx_replacement_arg3_entry"}
  BY DEF Replacement
<1>8. \A program :
        program \in {entry \in DOMAIN Replacement : Replaced(opts, entry) # {}}
          <=> \E i \in {13, 15} : s[i].program = program /\ s[i].on # {}
  BY <1>7, StageTable
<1>9. \A program :
        program \in If(\E entry \in DOMAIN Replacement : Replaced(opts, entry) # {},
                       {"skbx_replacement_exit"})
          <=> \E i \in {14, 16} : s[i].program = program /\ s[i].on # {}
  BY <1>7, StageTable DEF If
<1>10. \A i : i \in 1..16 <=>
         \/ i \in 1..5 \/ i = 6 \/ i = 7 \/ i = 8 \/ i = 9 \/ i = 10 \/ i \in 11..12
         \/ i \in {13, 15} \/ i \in {14, 16}
  OBVIOUS
<1> DEFINE Has(i, program) == s[i].program = program /\ s[i].on # {}
<1>11. SUFFICES ASSUME NEW program
                PROVE  program \in Active(opts, probes) <=> \E i \in 1..16 : Has(i, program)
  OBVIOUS
<1>12. program \in Active(opts, probes) <=>
         \/ \E i \in 1..5 : Has(i, program)
         \/ \E i \in 11..12 : Has(i, program)
         \/ Has(10, program) \/ Has(6, program) \/ Has(7, program) \/ Has(8, program)
         \/ Has(9, program)
         \/ \E i \in {13, 15} : Has(i, program)
         \/ \E i \in {14, 16} : Has(i, program)
  <2> HIDE DEF s, stack
  <2> QED
    BY <1>3, <1>4, <1>5, <1>6, <1>8, <1>9, Zenon DEF Active, stack
<1> HIDE DEF Has
<1> QED
  BY <1>10, <1>12

\* The programs that may be linked in groups are linked to the functions of the
\* probes.
LEMMA GroupedAreProbes ==
  ASSUME NEW opts, NEW probes, ProbesOK(probes), NEW f
  PROVE  LET s == Stages(opts, probes)
         IN (\E i \in 1..16 : s[i].program \in Grouped /\ f \in s[i].on)
              <=> \E p \in probes : f = p.function
<1> DEFINE s == Stages(opts, probes)
<1>1. \A i \in 1..16 : s[i].program \in Grouped <=> i \in 1..9
  <2>1. \A i \in 1..5 : s[i].program \in Grouped
    BY StageTable, SkbPrograms DEF Grouped
  <2>2. /\ s[6].program \in Grouped /\ s[7].program \in Grouped
        /\ s[8].program \in Grouped /\ s[9].program \in Grouped
    BY StageTable DEF Grouped
  <2>3. /\ s[10].program \notin Grouped /\ s[11].program \notin Grouped
        /\ s[12].program \notin Grouped /\ s[13].program \notin Grouped
        /\ s[14].program \notin Grouped /\ s[15].program \notin Grouped
        /\ s[16].program \notin Grouped
    BY StageTable, SkbPrograms DEF Grouped
  <2> HIDE DEF s
  <2> QED
    BY <2>1, <2>2, <2>3
<1>2. (\E i \in 1..5 : f \in s[i].on) <=>
        \E p \in probes : f = p.function /\ p.skb_argument # Absent
  <2>1. \A i \in 1..5 : f \in s[i].on <=>
          \E p \in probes : f = p.function /\ p.skb_argument # Absent /\ p.skb_argument = i
    BY StageTable DEF At
  <2>2. \A p \in probes : p.skb_argument # Absent => p.skb_argument \in 1..5
    BY SkbPrograms DEF ProbesOK
  <2> HIDE DEF s
  <2> QED
    BY <2>1, <2>2
<1>3. (\E i \in 6..9 : f \in s[i].on) <=>
        \E p \in probes : f = p.function /\ p.skb_argument = Absent
  <2>1. f \in StackProbes(probes) <=> \E p \in probes : f = p.function /\ p.skb_argument = Absent
    BY DEF StackProbes
  <2>2. f \in StackProbes(probes) =>
          TrackStack(opts, probes) /\ MapRole[f] \in {"none", "lookup", "update", "delete"}
    BY SetupAssumption DEF TrackStack, StackProbes, ProbesOK
  <2>3. \A role : f \in Role(probes, role) <=> f \in StackProbes(probes) /\ MapRole[f] = role
    BY DEF Role
  <2>4. /\ f \in s[6].on <=> TrackStack(opts, probes) /\ f \in Role(probes, "none")
        /\ f \in s[7].on <=> TrackStack(opts, probes) /\ f \in Role(probes, "lookup")
        /\ f \in s[8].on <=> TrackStack(opts, probes) /\ f \in Role(probes, "update")
        /\ f \in s[9].on <=> TrackStack(opts, probes) /\ f \in Role(probes, "delete")
    BY StageTable DEF If
  <2>5. \A i : i \in 6..9 <=> i = 6 \/ i = 7 \/ i = 8 \/ i = 9
    OBVIOUS
  <2> HIDE DEF s
  <2> QED
    BY <2>1, <2>2, <2>3, <2>4, <2>5
<1> HIDE DEF s
<1>4. \A i : i \in 1..9 <=> i \in 1..5 \/ i \in 6..9
  OBVIOUS
<1> QED
  BY <1>1, <1>2, <1>3, <1>4 DEF s

\* The two ends of a replacement are linked to the same functions.
LEMMA ReplacementEnds ==
  ASSUME NEW opts, NEW probes, NEW f
  PROVE  LET s == Stages(opts, probes)
         IN /\ \A e \in DOMAIN Replacement :
                 (\E i \in 1..16 : s[i].program = e /\ f \in s[i].on) <=> f \in Replaced(opts, e)
            /\ (\E i \in 1..16 : s[i].program = "skbx_replacement_exit" /\ f \in s[i].on)
                 <=> \E e \in DOMAIN Replacement : f \in Replaced(opts, e)
<1> DEFINE s == Stages(opts, probes)
<1>1. DOMAIN Replacement = {"skbx_replacement_arg2_entry", "skbx_replacement_arg3_entry"}
  BY DEF Replacement
<1>2. \A a \in 1..5 : s[a].program \in {"skbx_skb_arg1", "skbx_skb_arg2", "skbx_skb_arg3",
                                         "skbx_skb_arg4", "skbx_skb_arg5"}
  BY StageTable, SkbPrograms DEF Range
<1>3. \A i \in 1..16 : \/ i \in 1..5 \/ i = 6 \/ i = 7 \/ i = 8 \/ i = 9 \/ i = 10 \/ i = 11
                       \/ i = 12 \/ i = 13 \/ i = 14 \/ i = 15 \/ i = 16
  OBVIOUS
<1>4. \A i \in 1..16 :
        /\ s[i].program = "skbx_replacement_arg2_entry" <=> i = 13
        /\ s[i].program = "skbx_replacement_arg3_entry" <=> i = 15
        /\ s[i].program = "skbx_replacement_exit" <=> i \in {14, 16}
  BY <1>2, <1>3, StageTable
<1>5. /\ s[13].on = Replaced(opts, "skbx_replacement_arg2_entry") /\ s[14].on = s[13].on
      /\ s[15].on = Replaced(opts, "skbx_replacement_arg3_entry") /\ s[16].on = s[15].on
  BY StageTable
<1> HIDE DEF s
<1> QED
  BY <1>1, <1>4, <1>5 DEF s

-----------------------------------------------------------------------------
\* The invariant.

\* The attempt under way is of a backend that exists.
RequestOK ==
  /\ options.backend \in {"auto", "kprobe-multi", "kprobe"}
  /\ attempt \in {"kprobe-multi", "kprobe"}

\* Phases with kprobes linked, and with a plan that can be attached.
Linked == {"tc", "entries", "exits", "sensor", "output", "signal", "running"}
Loadable == {"load", "attach"} \cup Linked

\* The plan is the query's, and then what of it can be attached.
PlanOK ==
  /\ setup = "planned" =>
       plan = IF DynamicOnly(request.query) THEN {}
              ELSE build_probe_plan_with_bpf_helpers(request.query)
  /\ setup \in Loadable => ProbesOK(plan)

\* The links of an attempt when some functions are left.
LinksBut(left) ==
  LET s == Stages(options, plan)
  IN UNION {{LinkOf(s[i], f) : f \in s[i].on \ left[i]} : i \in DOMAIN s}

\* While kprobes are being linked: what is linked and what is left are the stages.
AttachingOK ==
  setup = "attach" =>
    LET s == Stages(options, plan)
    IN /\ autoload = Active(options, plan)
       /\ DOMAIN stages = DOMAIN s
       /\ \A i \in DOMAIN s :
            stages[i] = Stage(s[i].program, stages[i].on) /\ stages[i].on \subseteq s[i].on
       /\ links = LinksBut([i \in DOMAIN s |-> stages[i].on])

\* Then all kprobes are linked, and the other links are tracers'.
LinkedOK ==
  setup \in Linked =>
    /\ autoload = Active(options, plan)
    /\ {l \in links : l.backend # "tracing"} = LinksBut([i \in 1..16 |-> {}])
    /\ \A l \in links : l.backend = "tracing" => l.program \in Tracers

\* An XDP program that is traced stays loaded, is found or missed when exits are
\* enumerated, and if found is then traced or a target.
XdpOK ==
  LET entries == LinkedBy("skbx_trace_xdp")
      exits == LinkedBy("skbx_trace_xdp_exit")
  IN /\ setup = "tc" => entries = {}
     /\ setup = "entries" =>
          /\ entries \subseteq {b \in bpf_loaded : BpfProgram[b] = "xdp"}
          /\ \A b \in targets : BpfProgram[b] = "xdp"
     /\ setup = "exits" => entries \ missed \subseteq exits \cup targets
     /\ setup \in {"sensor", "output", "signal", "running"} => entries \ missed \subseteq exits

\* The header's claims are what the sensor says of itself, then and later.
StartOK ==
  Attached =>
    start = [probes |-> {[function |-> p.function, module |-> p.module] : p \in plan},
             attachment_backend |-> attempt,
             identity_hooks |-> UNION {Replaced(options, e) : e \in DOMAIN Replacement},
             bpf_programs |-> bpf_programs]

\* Nothing is held before an attempt and after a failure.
HeldOK == setup \in {"resolve", "plan", "planned", "load", "failed"} => links = {}

\* Who may be blamed, and what there is of the output.
OutputOK ==
  /\ blame # "program"
  /\ artifact => setup \in {"signal", "running", "failed"}
  /\ setup \in {"signal", "running"} => artifact
  /\ setup = "failed" /\ artifact => blame = "output"
  /\ ready_file = "fresh" => setup = "running"

\* The invariant of set-up.
SetupInv ==
  /\ RequestOK /\ PlanOK /\ AttachingOK /\ LinkedOK
  /\ XdpOK /\ StartOK /\ HeldOK /\ OutputOK

-----------------------------------------------------------------------------
\* Its steps.

\* The links of an attempt.
LEMMA LinksButFacts ==
  ASSUME RequestOK, NEW left, NEW l \in LinksBut(left)
  PROVE  \E i \in 1..16 :
           LET s == Stages(options, plan)[i]
           IN /\ \E f \in s.on \ left[i] : l = LinkOf(s, f)
              /\ l.program = s.program /\ l.on \in s.on
              /\ l.backend = IF s.program \in Grouped THEN attempt ELSE "kprobe"
              /\ l.backend # "tracing"
              /\ l.program \notin Tracers
<1> DEFINE s == Stages(options, plan)
<1>1. PICK i \in DOMAIN s : \E f \in s[i].on \ left[i] : l = LinkOf(s[i], f)
  <2>1. LinksBut(left) = UNION {{LinkOf(s[i], f) : f \in s[i].on \ left[i]} : i \in DOMAIN s}
    BY DEF LinksBut
  <2> HIDE DEF s
  <2>2. PICK i \in DOMAIN s : l \in {LinkOf(s[i], f) : f \in s[i].on \ left[i]}
    BY <2>1
  <2> QED
    BY <2>2
<1> PICK f \in s[i].on \ left[i] : l = LinkOf(s[i], f)
  BY <1>1
<1>2. i \in 1..16
  BY StageList
<1>3. s[i].program \notin Tracers
  BY <1>2, StagePrograms
<1> HIDE DEF s
<1>4. /\ l.program = s[i].program /\ l.on = f
      /\ l.backend = IF s[i].program \in Grouped THEN attempt ELSE "kprobe"
  BY <1>1 DEF LinkOf
<1> QED
  BY <1>1, <1>2, <1>3, <1>4 DEF RequestOK, s

\* A failed attempt leaves nothing behind, whether it was the last or not.
LEMMA FailedAttempt ==
  ASSUME SetupInv, setup \in Loadable, ~artifact, ready_file # "fresh", NEW who \in {"host"},
         AttemptFails(who),
         UNCHANGED <<request, plan, options, artifact, ready_file>>
  PROVE  SetupInv'
<1>1. /\ \/ setup' = "load" /\ attempt' = "kprobe" /\ UNCHANGED blame
         \/ setup' = "failed" /\ blame' = who /\ UNCHANGED attempt
      /\ links' = {}
  BY DEF AttemptFails, Fail, Drop
<1>2. RequestOK'
  BY <1>1 DEF SetupInv, RequestOK
<1>3. PlanOK'
  BY <1>1 DEF SetupInv, PlanOK, Loadable
<1>4. AttachingOK' /\ LinkedOK' /\ XdpOK' /\ StartOK' /\ HeldOK'
  BY <1>1 DEF AttachingOK, LinkedOK, Linked, XdpOK, StartOK, Attached, HeldOK
<1>5. OutputOK'
  BY <1>1 DEF SetupInv, OutputOK
<1> QED
  BY <1>2, <1>3, <1>4, <1>5 DEF SetupInv

\* Only functions that exist as the kernel lists them are left in the plan.
LEMMA AcceptPlanStep == SetupInv /\ AcceptPlan => SetupInv'
<1> SUFFICES ASSUME SetupInv, AcceptPlan PROVE SetupInv'
  OBVIOUS
<1>1. RequestOK' /\ AttachingOK' /\ LinkedOK'
  BY DEF SetupInv, RequestOK, AttachingOK, LinkedOK, Linked, AcceptPlan, Fail, Drop, kernelSide
<1>2. PlanOK'
  <2>1. ASSUME NEW p \in Attachments(plan)
        PROVE  p.skb_argument \in 1..MAX_KPROBE_ARGUMENT \cup {Absent} /\ p.function \in Available
    <3>1. p.available /\ p \in plan /\ plan = build_probe_plan_with_bpf_helpers(request.query)
      BY DEF AcceptPlan, Attachments, SetupInv, PlanOK
    <3> DEFINE found == discover_btf(request.query)
    <3>2. p \in found
      <4>1. \A n : p # CallerAsserted(n)
        BY <3>1, AssertedFields
      <4>2. plan \subseteq found \cup {CallerAsserted(n) : n \in Missing(request.query, found)}
        BY <3>1 DEF build_probe_plan_with_bpf_helpers
      <4> HIDE DEF found
      <4> QED
        BY <3>1, <4>1, <4>2
    <3>3. PICK f \in KernelFunction : p = Probe(f, skb_argument(f))
      BY <3>2, FoundProbes DEF Functions
    <3>4. p.function = f.name /\ p.skb_argument = skb_argument(f)
      BY <3>3, ProbeFields
    <3>5. p.available = (f.name \in Available)
      BY <3>3 DEF Probe
    <3> QED
      BY <3>1, <3>4, <3>5, ArgumentRange
  <2>2. ProbesOK(Attachments(plan))
    BY <2>1 DEF ProbesOK
  <2> QED
    BY <2>2 DEF AcceptPlan, PlanOK, Fail, Drop, Loadable, Linked
<1>3. XdpOK' /\ StartOK' /\ HeldOK' /\ OutputOK'
  BY DEF SetupInv, XdpOK, StartOK, Attached, HeldOK, OutputOK, AcceptPlan, Fail, Drop, kernelSide
<1> QED
  BY <1>1, <1>2, <1>3 DEF SetupInv

\* Nothing is linked before the first stage.
LEMMA LoadStep == SetupInv /\ Load => SetupInv'
<1> SUFFICES ASSUME SetupInv, Load PROVE SetupInv'
  OBVIOUS
<1>1. /\ setup = "load" /\ links = {} /\ ~artifact /\ ready_file # "fresh"
      /\ UNCHANGED <<request, plan, options, artifact, ready_file>>
  BY DEF Load, SetupInv, HeldOK, OutputOK
<1>2. CASE AttemptFails("host")
  BY <1>1, <1>2, FailedAttempt DEF Loadable
<1>3. CASE /\ autoload' = Active(options, plan)
           /\ stages' = Stages(options, plan)
           /\ setup' = "attach"
           /\ UNCHANGED <<attempt, links, targets, missed, blame>>
  <2>1. RequestOK' /\ PlanOK' /\ HeldOK' /\ OutputOK'
    BY <1>1, <1>3 DEF SetupInv, RequestOK, PlanOK, Loadable, HeldOK, OutputOK
  <2>2. LinkedOK' /\ XdpOK' /\ StartOK'
    BY <1>1, <1>3 DEF LinkedOK, Linked, XdpOK, StartOK, Attached
  <2>3. AttachingOK'
    <3> DEFINE s == Stages(options, plan)
    <3>1. s' = s
      BY <1>1
    <3>2. \A i \in DOMAIN s : s[i] = Stage(s[i].program, s[i].on)
      BY StageList, StagePrograms
    <3> HIDE DEF s
    <3>3. LinksBut([i \in DOMAIN s |-> s[i].on])' = {}
      BY <3>1 DEF LinksBut, s
    <3> QED
      BY <1>1, <1>3, <3>1, <3>2, <3>3 DEF AttachingOK, s
  <2> QED
    BY <2>1, <2>2, <2>3 DEF SetupInv
<1> QED
  BY <1>2, <1>3 DEF Load

\* One more link is one function less to be linked.
LEMMA AttachStep == SetupInv /\ Attach => SetupInv'
<1> SUFFICES ASSUME SetupInv, Attach PROVE SetupInv'
  OBVIOUS
<1> DEFINE s == Stages(options, plan)
           left == [i \in DOMAIN s |-> stages[i].on]
<1>1. /\ setup = "attach" /\ ~artifact /\ ready_file # "fresh" /\ blame # "program"
      /\ UNCHANGED <<request, plan, options, artifact, ready_file, start, bpf_loaded>>
  BY DEF Attach, SetupInv, OutputOK
<1>2. /\ autoload = Active(options, plan)
      /\ DOMAIN stages = DOMAIN s /\ DOMAIN s = 1..16
      /\ \A i \in DOMAIN s :
           stages[i] = Stage(s[i].program, stages[i].on) /\ stages[i].on \subseteq s[i].on
      /\ links = LinksBut(left)
  BY <1>1, StageList DEF SetupInv, AttachingOK
<1>3. ProbesOK(plan)
  BY <1>1 DEF SetupInv, PlanOK, Loadable
<1> HIDE DEF s
<1>4. PICK i \in DOMAIN s :
        /\ Due(i)
        /\ \/ /\ stages[i].program \in autoload
              /\ \E functions \in NextLinks(stages[i]) :
                   /\ links' = links \cup {LinkOf(stages[i], f) : f \in functions}
                   /\ stages' = [stages EXCEPT ![i].on = @ \ functions]
              /\ UNCHANGED <<setup, attempt, autoload, targets, missed, blame>>
           \/ AttemptFails(IF stages[i].program \in autoload THEN "host" ELSE "program")
  BY <1>2 DEF Attach
<1>5. stages[i].program = s[i].program
  BY <1>2, StageFields
<1>6. stages[i].program \in autoload
  <2>1. s[i].on # {}
    BY <1>2, <1>4 DEF Due
  <2> QED
    BY <1>2, <1>3, <1>5, <2>1, StagesAreActive DEF s
<1>7. CASE AttemptFails("host")
  BY <1>1, <1>7, FailedAttempt DEF Loadable
<1>8. ASSUME NEW functions \in NextLinks(stages[i]),
             links' = links \cup {LinkOf(stages[i], f) : f \in functions},
             stages' = [stages EXCEPT ![i].on = @ \ functions],
             UNCHANGED <<setup, attempt, autoload, targets, missed, blame>>
      PROVE  SetupInv'
  <2>1. RequestOK' /\ PlanOK' /\ HeldOK' /\ OutputOK'
    BY <1>1, <1>8 DEF SetupInv, RequestOK, PlanOK, Loadable, Linked, HeldOK, OutputOK
  <2>2. LinkedOK' /\ XdpOK' /\ StartOK'
    BY <1>1, <1>8 DEF LinkedOK, Linked, XdpOK, StartOK, Attached
  <2>3. functions \subseteq stages[i].on
    BY <1>8 DEF NextLinks
  <2>4. s' = s
    BY <1>1 DEF s
  <2>5. /\ DOMAIN stages' = DOMAIN s
        /\ \A j \in DOMAIN s : j # i => stages'[j] = stages[j]
        /\ stages'[i] = Stage(s[i].program, stages[i].on \ functions)
    <3>1. stages' = [stages EXCEPT ![i] = [stages[i] EXCEPT !.on = stages[i].on \ functions]]
      BY <1>8
    <3>2. [stages[i] EXCEPT !.on = stages[i].on \ functions]
            = Stage(s[i].program, stages[i].on \ functions)
      <4>1. PICK on : on = stages[i].on /\ stages[i] = [program |-> s[i].program, on |-> on]
        BY <1>2 DEF Stage
      <4> QED
        BY <4>1 DEF Stage
    <3> QED
      BY <1>2, <3>1, <3>2
  <2>6. stages'[i].on = stages[i].on \ functions
    BY <2>5, StageFields
  <2>7. \A j \in DOMAIN s :
          stages'[j] = Stage(s[j].program, stages'[j].on) /\ stages'[j].on \subseteq s[j].on
    BY <1>2, <2>5, <2>6
  <2> PICK left2 : left2 = [j \in DOMAIN s |-> stages'[j].on]
    OBVIOUS
  <2>8. links' = LinksBut(left2)'
    <3> DEFINE K(j, f) ==
                 [program |-> s[j].program, on |-> f,
                  backend |-> IF s[j].program \in Grouped THEN attempt ELSE "kprobe"]
    <3>1. LinksBut(left2)' = UNION {{K(j, f) : f \in s[j].on \ left2[j]} : j \in DOMAIN s}
      BY <1>1, <1>8 DEF LinksBut, LinkOf, s
    <3>2. links = UNION {{K(j, f) : f \in s[j].on \ left[j]} : j \in DOMAIN s}
      BY <1>2 DEF LinksBut, LinkOf, s
    <3>3. {LinkOf(stages[i], f) : f \in functions} = {K(i, f) : f \in functions}
      BY <1>5 DEF LinkOf
    <3>4. \A j \in DOMAIN s : left2[j] = IF j = i THEN left[j] \ functions ELSE left[j]
      BY <2>5, <2>6
    <3>5. functions \subseteq left[i] /\ left[i] \subseteq s[i].on
      BY <1>2, <2>3
    <3> HIDE DEF left, K
    <3>6. ASSUME NEW l PROVE l \in links' <=> l \in LinksBut(left2)'
      <4>1. l \in LinksBut(left2)' <=> \E j \in DOMAIN s : \E f \in s[j].on \ left2[j] : l = K(j, f)
        BY <3>1
      <4>2. l \in links <=> \E j \in DOMAIN s : \E f \in s[j].on \ left[j] : l = K(j, f)
        BY <3>2
      <4>3. l \in links' <=> l \in links \/ \E f \in functions : l = K(i, f)
        BY <1>8, <3>3
      <4> QED
        BY <3>4, <3>5, <4>1, <4>2, <4>3
    <3> QED
      BY <3>6
  <2>9. AttachingOK'
    <3>1. autoload' = Active(options, plan)'
      BY <1>1, <1>2, <1>8
    <3>2. DOMAIN s' = DOMAIN s
      BY <2>4
    <3>3. [j \in DOMAIN s |-> stages[j].on]' = left2
      BY <2>4
    <3>4. LinksBut([j \in DOMAIN s |-> stages[j].on])' = LinksBut(left2)'
      BY <3>3 DEF LinksBut
    <3> QED
      BY <2>4, <2>5, <2>7, <2>8, <3>1, <3>2, <3>4 DEF AttachingOK, s
  <2> QED
    BY <2>1, <2>2, <2>9 DEF SetupInv
<1> QED
  BY <1>4, <1>6, <1>7, <1>8

\* When no function is left, all kprobes are linked, and no tracer yet.
LEMMA KprobesDoneStep == SetupInv /\ KprobesDone => SetupInv'
<1> SUFFICES ASSUME SetupInv, KprobesDone PROVE SetupInv'
  OBVIOUS
<1>1. /\ setup = "attach" /\ setup' \in {"tc", "entries", "sensor"}
      /\ \A i \in DOMAIN stages : stages[i].on = {}
      /\ setup' = "entries" => \A b \in targets' : BpfProgram[b] = "xdp"
      /\ UNCHANGED <<request, filters, plan, options, attempt, autoload, links,
                     bpf_loaded, changes, start, artifact, ready_file, blame>>
  BY DEF KprobesDone, Enumerate, Loaded, AfterKprobes, Tracer, Traced
<1>2. RequestOK' /\ PlanOK' /\ AttachingOK' /\ StartOK' /\ HeldOK'
  BY <1>1 DEF SetupInv, RequestOK, PlanOK, Loadable, Linked, AttachingOK, StartOK, Attached, HeldOK
<1>3. OutputOK'
  BY <1>1 DEF SetupInv, OutputOK
<1>4. links = LinksBut([i \in 1..16 |-> {}]) /\ autoload = Active(options, plan)
  <2> DEFINE s == Stages(options, plan)
  <2>1. DOMAIN s = 1..16
    BY StageList
  <2>2. /\ links = LinksBut([i \in DOMAIN s |-> stages[i].on])
        /\ autoload = Active(options, plan) /\ DOMAIN stages = DOMAIN s
    BY <1>1 DEF SetupInv, AttachingOK
  <2> HIDE DEF s
  <2>3. [i \in DOMAIN s |-> stages[i].on] = [i \in 1..16 |-> {}]
    BY <1>1, <2>1, <2>2
  <2> QED
    BY <2>2, <2>3
<1>5. \A l \in links : l.backend # "tracing" /\ l.program \notin Tracers
  BY <1>4, LinksButFacts DEF SetupInv
<1>6. LinkedOK'
  <2>1. LinksBut([i \in 1..16 |-> {}])' = LinksBut([i \in 1..16 |-> {}])
    BY <1>1 DEF LinksBut, LinkOf
  <2> QED
    BY <1>1, <1>4, <1>5, <2>1 DEF LinkedOK
<1>7. XdpOK'
  <2>1. LinkedBy("skbx_trace_xdp")' = {}
    BY <1>1, <1>5 DEF LinkedBy, Tracers
  <2> QED
    BY <1>1, <2>1 DEF XdpOK
<1> QED
  BY <1>2, <1>3, <1>6, <1>7 DEF SetupInv

\* The tracers' names.
LEMMA TracerNames ==
  /\ DOMAIN Tracer = {"tc", "entries", "exits"}
  /\ Tracer["tc"] = "skbx_trace_tc" /\ Tracer["entries"] = "skbx_trace_xdp"
  /\ Tracer["exits"] = "skbx_trace_xdp_exit"
  BY DEF Tracer

\* A tracer's link changes none of the others.
LEMMA AttachTracerStep == SetupInv /\ AttachTracer => SetupInv'
<1> SUFFICES ASSUME SetupInv, AttachTracer PROVE SetupInv'
  OBVIOUS
<1>1. /\ setup \in {"tc", "entries", "exits"} /\ ~artifact /\ ready_file # "fresh"
      /\ UNCHANGED <<request, plan, options, artifact, ready_file, start, bpf_loaded>>
  BY TracerNames DEF AttachTracer, SetupInv, OutputOK
<1>2. CASE TracerFails
  BY <1>1, <1>2, FailedAttempt DEF Loadable, Linked, TracerFails
<1>3. ASSUME NEW b \in targets \cap bpf_loaded,
             links' = links \cup {[program |-> Tracer[setup], on |-> b, backend |-> "tracing"]},
             targets' = targets \ {b},
             UNCHANGED <<setup, attempt, autoload, stages, missed, blame>>
      PROVE  SetupInv'
  <2>1. RequestOK' /\ PlanOK' /\ AttachingOK' /\ StartOK' /\ HeldOK'
    BY <1>1, <1>3 DEF SetupInv, RequestOK, PlanOK, Loadable, Linked, AttachingOK, StartOK,
                      Attached, HeldOK
  <2>2. OutputOK'
    BY <1>1, <1>3 DEF SetupInv, OutputOK
  <2> DEFINE new == [program |-> Tracer[setup], on |-> b, backend |-> "tracing"]
  <2>3. Tracer[setup] \in Tracers
    BY <1>1, TracerNames DEF Tracers
  <2>4. LinkedOK'
    <3>1. {l \in links' : l.backend # "tracing"} = {l \in links : l.backend # "tracing"}
      BY <1>3
    <3>2. LinksBut([i \in 1..16 |-> {}])' = LinksBut([i \in 1..16 |-> {}])
      BY <1>1, <1>3 DEF LinksBut, LinkOf
    <3>3. \A l \in links' : l.backend = "tracing" => l.program \in Tracers
      BY <1>1, <1>3, <2>3 DEF SetupInv, LinkedOK, Linked
    <3> QED
      BY <1>1, <1>3, <3>1, <3>2, <3>3 DEF SetupInv, LinkedOK, Linked
  <2>5. ASSUME NEW program
        PROVE  LinkedBy(program)' =
                 LinkedBy(program) \cup (IF program = Tracer[setup] THEN {b} ELSE {})
    <3>1. new.program = Tracer[setup] /\ new.on = b /\ links' = links \cup {new}
      BY <1>3
    <3> HIDE DEF new
    <3>2. {k \in links' : k.program = program}
            = {k \in links : k.program = program}
                \cup (IF program = Tracer[setup] THEN {new} ELSE {})
      BY <3>1
    <3> QED
      BY <3>1, <3>2 DEF LinkedBy
  <2>6. /\ LinkedBy("skbx_trace_xdp")' =
             LinkedBy("skbx_trace_xdp") \cup (IF setup = "entries" THEN {b} ELSE {})
        /\ LinkedBy("skbx_trace_xdp_exit")' =
             LinkedBy("skbx_trace_xdp_exit") \cup (IF setup = "exits" THEN {b} ELSE {})
    BY <1>1, <2>5, TracerNames
  <2>7. XdpOK'
    BY <1>1, <1>3, <2>6 DEF SetupInv, XdpOK
  <2> QED
    BY <2>1, <2>2, <2>4, <2>7 DEF SetupInv
<1> QED
  BY <1>2, <1>3 DEF AttachTracer

\* The exits are looked for among the programs that are loaded then.
LEMMA TracersDoneStep == SetupInv /\ TracersDone => SetupInv'
<1> SUFFICES ASSUME SetupInv, TracersDone PROVE SetupInv'
  OBVIOUS
<1>1. /\ setup \in {"tc", "entries", "exits"} /\ ~artifact /\ ready_file # "fresh"
      /\ targets = {}
      /\ UNCHANGED <<request, plan, options, artifact, ready_file, start, bpf_loaded>>
  BY TracerNames DEF TracersDone, SetupInv, OutputOK
<1>2. CASE AttemptFails("host")
  BY <1>1, <1>2, FailedAttempt DEF Loadable, Linked
<1>3. CASE Enumerate(After(setup)) /\ UNCHANGED <<attempt, autoload, stages, links, blame>>
  <2>1. /\ setup = "tc" => setup' \in {"entries", "sensor"}
        /\ setup = "entries" => setup' = "exits"
        /\ setup = "exits" => setup' = "sensor"
        /\ setup' \in {"entries", "exits"} =>
             /\ targets' \subseteq {b \in bpf_loaded : BpfProgram[b] = "xdp"}
             /\ missed' = {b \in bpf_loaded : BpfProgram[b] = "xdp"} \ targets'
        /\ setup' = "sensor" => UNCHANGED missed
    BY <1>1, <1>3, TracerNames DEF Enumerate, Loaded, After, Traced
  <2>2. RequestOK' /\ PlanOK' /\ AttachingOK' /\ StartOK' /\ HeldOK'
    BY <1>1, <1>3, <2>1 DEF SetupInv, RequestOK, PlanOK, Loadable, Linked, AttachingOK, StartOK,
                            Attached, HeldOK
  <2>3. OutputOK'
    BY <1>1, <1>3, <2>1 DEF SetupInv, OutputOK
  <2>4. LinkedOK'
    <3>1. LinksBut([i \in 1..16 |-> {}])' = LinksBut([i \in 1..16 |-> {}])
      BY <1>1, <1>3 DEF LinksBut, LinkOf
    <3> QED
      BY <1>1, <1>3, <2>1, <3>1 DEF SetupInv, LinkedOK, Linked
  <2>5. XdpOK'
    <3>1. \A program : LinkedBy(program)' = LinkedBy(program)
      BY <1>3 DEF LinkedBy
    <3> QED
      BY <1>1, <2>1, <3>1 DEF SetupInv, XdpOK
  <2> QED
    BY <2>2, <2>3, <2>4, <2>5 DEF SetupInv
<1> QED
  BY <1>2, <1>3 DEF TracersDone

\* A program that is traced is not unloaded.
LEMMA BpfProgramsChangeStep == SetupInv /\ BpfProgramsChange => SetupInv'
<1> SUFFICES ASSUME SetupInv, BpfProgramsChange PROVE SetupInv'
  OBVIOUS
<1>1. /\ setup \in Attaching
      /\ bpf_loaded \cap bpf_programs \subseteq bpf_loaded'
      /\ UNCHANGED <<setup, request, filters, plan, options, attempt, autoload, stages, links,
                     targets, missed, start, artifact, ready_file, blame>>
  BY DEF BpfProgramsChange
<1>2. RequestOK' /\ PlanOK' /\ HeldOK' /\ OutputOK'
  BY <1>1 DEF SetupInv, RequestOK, PlanOK, HeldOK, OutputOK, DynamicOnly
<1>3. AttachingOK' /\ LinkedOK' /\ StartOK'
  BY <1>1 DEF SetupInv, AttachingOK, LinkedOK, StartOK, Attached, Attaching, LinksBut, LinkOf
<1>4. XdpOK'
  <2>1. \A program : LinkedBy(program)' = LinkedBy(program)
    BY <1>1 DEF LinkedBy
  <2>2. LinkedBy("skbx_trace_xdp") \subseteq bpf_programs
    BY DEF bpf_programs
  <2> QED
    BY <1>1, <2>1, <2>2 DEF SetupInv, XdpOK
<1> QED
  BY <1>2, <1>3, <1>4 DEF SetupInv

\* Nothing is attached by resolving filters.
LEMMA ResolveFiltersStep == SetupInv /\ ResolveFilters => SetupInv'
<1> SUFFICES ASSUME SetupInv, ResolveFilters PROVE SetupInv'
  OBVIOUS
<1>1. RequestOK' /\ PlanOK' /\ AttachingOK' /\ LinkedOK'
  BY DEF SetupInv, RequestOK, PlanOK, Loadable, AttachingOK, LinkedOK, Linked,
         ResolveFilters, Fail, Drop, kernelSide
<1>2. XdpOK' /\ StartOK' /\ HeldOK' /\ OutputOK'
  BY DEF SetupInv, XdpOK, StartOK, Attached, HeldOK, OutputOK,
         ResolveFilters, Fail, Drop, kernelSide
<1> QED
  BY <1>1, <1>2 DEF SetupInv

\* The plan is the one the query builds.
LEMMA BuildPlanStep == SetupInv /\ BuildPlan => SetupInv'
<1> SUFFICES ASSUME SetupInv, BuildPlan PROVE SetupInv'
  OBVIOUS
<1>1. RequestOK' /\ PlanOK' /\ AttachingOK' /\ LinkedOK'
  BY DEF SetupInv, RequestOK, PlanOK, DynamicOnly, Loadable, AttachingOK, LinkedOK, Linked,
         BuildPlan, Fail, Drop, kernelSide
<1>2. XdpOK' /\ StartOK' /\ HeldOK' /\ OutputOK'
  BY DEF SetupInv, XdpOK, StartOK, Attached, HeldOK, OutputOK,
         BuildPlan, Fail, Drop, kernelSide
<1> QED
  BY <1>1, <1>2 DEF SetupInv

\* The header takes its claims from what is attached.
LEMMA SensorReadyStep == SetupInv /\ SensorReady => SetupInv'
<1> SUFFICES ASSUME SetupInv, SensorReady PROVE SetupInv'
  OBVIOUS
<1>1. /\ setup = "sensor" /\ ~artifact /\ ready_file # "fresh"
      /\ UNCHANGED <<request, plan, options, artifact, ready_file, bpf_loaded>>
  BY DEF SensorReady, SetupInv, OutputOK
<1>2. CASE AttemptFails("host")
  BY <1>1, <1>2, FailedAttempt DEF Loadable, Linked
<1>3. CASE ~AttemptFails("host")
  <2>1. RequestOK' /\ PlanOK' /\ AttachingOK' /\ LinkedOK'
    BY <1>3 DEF SetupInv, RequestOK, PlanOK, Loadable, AttachingOK, LinkedOK, Linked, LinksBut,
                LinkOf, SensorReady, kernelSide
  <2>2. XdpOK' /\ StartOK'
    BY <1>3 DEF SetupInv, XdpOK, LinkedBy, StartOK, Attached, bpf_programs, SensorReady, kernelSide
  <2>3. HeldOK' /\ OutputOK'
    BY <1>3 DEF SetupInv, HeldOK, OutputOK, SensorReady, kernelSide
  <2> QED
    BY <2>1, <2>2, <2>3 DEF SetupInv
<1> QED
  BY <1>2, <1>3

\* From here on, what is attached stays until the command ends.
LEMMA OutputStep == SetupInv /\ (WriteHeader \/ SignalReady) => SetupInv'
<1> SUFFICES ASSUME SetupInv, WriteHeader \/ SignalReady PROVE SetupInv'
  OBVIOUS
<1>1. /\ setup \in {"output", "signal"}
      /\ UNCHANGED <<request, filters, plan, options, attempt, bpf_loaded, changes, start>>
      /\ \/ setup' \in {"signal", "running"} /\ UNCHANGED kernelSide
         \/ setup' = "failed" /\ links' = {}
  BY DEF WriteHeader, SignalReady, Fail, Drop
<1>2. RequestOK' /\ PlanOK' /\ AttachingOK' /\ HeldOK'
  BY <1>1 DEF SetupInv, RequestOK, PlanOK, Loadable, Linked, AttachingOK, HeldOK
<1>3. LinkedOK' /\ StartOK'
  BY <1>1 DEF SetupInv, LinkedOK, Linked, LinksBut, LinkOf, StartOK, Attached, bpf_programs,
              LinkedBy, kernelSide
<1>4. XdpOK'
  BY <1>1 DEF SetupInv, XdpOK, LinkedBy, kernelSide
<1>5. OutputOK'
  BY DEF SetupInv, OutputOK, WriteHeader, SignalReady, Fail
<1> QED
  BY <1>2, <1>3, <1>4, <1>5 DEF SetupInv

\* It holds before anything is done.
LEMMA SetupInvInit == SetupInit => SetupInv
<1> SUFFICES ASSUME SetupInit PROVE SetupInv
  OBVIOUS
<1>1. RequestOK
  BY SetupAssumption DEF SetupInit, RequestOK
<1>2. PlanOK /\ AttachingOK /\ LinkedOK /\ XdpOK /\ StartOK /\ HeldOK /\ OutputOK
  BY DEF SetupInit, PlanOK, Loadable, Linked, AttachingOK, LinkedOK, XdpOK, StartOK, Attached,
         HeldOK, OutputOK
<1> QED
  BY <1>1, <1>2 DEF SetupInv

\* It holds throughout set-up.
LEMMA SetupInvariance == SetupSpec => []SetupInv
<1>1. SetupInv /\ [SetupNext]_setupVars => SetupInv'
  <2> SUFFICES ASSUME SetupInv, [SetupNext]_setupVars PROVE SetupInv'
    OBVIOUS
  <2>1. CASE UNCHANGED setupVars
    BY <2>1 DEF setupVars, SetupInv, RequestOK, PlanOK, DynamicOnly, AttachingOK, LinkedOK,
                LinksBut, LinkOf, XdpOK, LinkedBy, StartOK, Attached, bpf_programs, HeldOK, OutputOK
  <2>2. CASE SetupNext
    BY <2>2, ResolveFiltersStep, BuildPlanStep, AcceptPlanStep, LoadStep, AttachStep,
       KprobesDoneStep, AttachTracerStep, TracersDoneStep, SensorReadyStep, OutputStep,
       BpfProgramsChangeStep DEF SetupNext
  <2> QED
    BY <2>1, <2>2
<1> QED
  BY <1>1, SetupInvInit, PTL DEF SetupSpec

-----------------------------------------------------------------------------
\* For every kernel and every query, a plan accounts for the names it was asked for.
THEOREM NamesAreAccountedFor == SetupSpec => []EveryNameIsAccountedFor
<1>1. SetupInv => EveryNameIsAccountedFor
  BY PlanAccounts DEF SetupInv, PlanOK, EveryNameIsAccountedFor
<1> QED
  BY <1>1, SetupInvariance, PTL

\* What is attached when the header is written is what it says.
THEOREM HeaderIsTrue == SetupSpec => []HeaderTellsWhatIsAttached
<1>1. SetupInv => HeaderTellsWhatIsAttached
  <2> SUFFICES ASSUME SetupInv, Attached PROVE HeaderTellsWhatIsAttached
    BY DEF HeaderTellsWhatIsAttached
  <2> DEFINE s == Stages(options, plan)
             grouped == {l \in links : l.program \in Grouped}
             none == [i \in 1..16 |-> {}]
  <2>1. /\ RequestOK /\ ProbesOK(plan) /\ autoload = Active(options, plan)
        /\ {l \in links : l.backend # "tracing"} = LinksBut(none)
        /\ \A l \in links : l.backend = "tracing" => l.program \in Tracers
    BY DEF SetupInv, PlanOK, LinkedOK, Attached, Loadable, Linked
  <2>2. /\ start.probes = {[function |-> p.function, module |-> p.module] : p \in plan}
        /\ start.attachment_backend = attempt
        /\ start.identity_hooks = UNION {Replaced(options, e) : e \in DOMAIN Replacement}
        /\ start.bpf_programs = bpf_programs
    BY DEF SetupInv, StartOK
  <2>3. /\ \A p \in Tracers : p \notin Grouped /\ p \notin DOMAIN Replacement
        /\ "skbx_replacement_exit" \notin Tracers
    BY SkbPrograms DEF Tracers, Grouped, Replacement
  <2> HIDE DEF s, none
  <2>4. ASSUME NEW i \in 1..16, NEW f \in s[i].on
        PROVE  \E l \in links : l.backend # "tracing" /\ l.program = s[i].program /\ l.on = f
    <3>1. LinkOf(s[i], f) \in LinksBut(none)
      BY StageList DEF LinksBut, s, none
    <3> QED
      BY <2>1, <3>1 DEF LinkOf
  <2>5. ASSUME NEW l \in links, l.backend # "tracing"
        PROVE  \E i \in 1..16 : /\ l.program = s[i].program /\ l.on \in s[i].on
                                /\ l.program \in Grouped => l.backend = attempt
                                /\ l.program \notin Tracers
    BY <2>1, <2>5, LinksButFacts DEF s
  <2>6. {p.function : p \in start.probes} = {l.on : l \in grouped}
    <3>1. \A f : f \in {p.function : p \in start.probes} <=> \E p \in plan : f = p.function
      <4> DEFINE claim(p) == [function |-> p.function, module |-> p.module]
      <4>1. start.probes = {claim(p) : p \in plan} /\ \A p : claim(p).function = p.function
        BY <2>2
      <4> HIDE DEF claim
      <4> QED
        BY <4>1
    <3>2. \A f : (\E i \in 1..16 : s[i].program \in Grouped /\ f \in s[i].on)
                   <=> \E p \in plan : f = p.function
      BY <2>1, GroupedAreProbes DEF s
    <3>3. \A f : (\E i \in 1..16 : s[i].program \in Grouped /\ f \in s[i].on)
                   <=> \E l \in grouped : f = l.on
      BY <2>1, <2>3, <2>4, <2>5
    <3> QED
      BY <3>1, <3>2, <3>3
  <2>7. \A l \in grouped : l.backend = start.attachment_backend
    BY <2>1, <2>2, <2>3, <2>5
  <2>8. \A f : f \in start.identity_hooks <=>
          /\ f \in LinkedBy("skbx_replacement_exit")
          /\ \E e \in DOMAIN Replacement : f \in LinkedBy(e)
    <3>1. ASSUME NEW program, program \notin Tracers, NEW f
          PROVE  f \in LinkedBy(program) <=> \E i \in 1..16 : s[i].program = program /\ f \in s[i].on
      BY <2>1, <2>4, <2>5, <3>1 DEF LinkedBy
    <3>2. \A f : f \in start.identity_hooks <=> \E e \in DOMAIN Replacement : f \in Replaced(options, e)
      BY <2>2
    <3> QED
      BY <2>3, <3>1, <3>2, ReplacementEnds DEF s
  <2>9. start.bpf_programs = {l.on : l \in {k \in links : k.backend = "tracing"}}
    <3>1. \A l \in links : l.backend = "tracing" <=> l.program \in Tracers
      BY <2>1, <2>5
    <3> QED
      BY <2>2, <3>1 DEF bpf_programs, LinkedBy, Tracers
  <2>10. {l.program : l \in {k \in links : k.backend # "tracing"}} = autoload
    <3>1. \A program : program \in autoload <=> \E i \in 1..16 : s[i].program = program /\ s[i].on # {}
      BY <2>1, StagesAreActive DEF s
    <3> QED
      BY <2>4, <2>5, <3>1
  <2> QED
    BY <2>6, <2>7, <2>8, <2>9, <2>10 DEF HeaderTellsWhatIsAttached
<1> QED
  BY <1>1, SetupInvariance, PTL

\* However BPF programs come and go, what is traced on its way into an XDP program
\* is traced on its way out, if that program could be read when exits were enumerated.
THEOREM EntriesHaveExits == SetupSpec => []XdpEntriesHaveExits
<1>1. SetupInv => XdpEntriesHaveExits
  BY DEF SetupInv, XdpOK, XdpEntriesHaveExits, Attached
<1> QED
  BY <1>1, SetupInvariance, PTL

\* Set-up is all or nothing.
THEOREM AllOrNothing == SetupSpec => []FailureLeavesNothing
<1>1. SetupInv => FailureLeavesNothing
  BY DEF SetupInv, HeldOK, OutputOK, FailureLeavesNothing
<1> QED
  BY <1>1, SetupInvariance, PTL
=============================================================================
