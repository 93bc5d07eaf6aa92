----------------------------- MODULE ProbePlan -----------------------------
(***************************************************************************)
(* `skbx plan`: the kernel functions a capture asks for, looked up in the  *)
(* BTF of the kernel and its modules.  A function is probed at its first   *)
(* sk_buff pointer, or, when it has none and was asked for, by the stack   *)
(* of the packet it runs for.                                              *)
(*                                                                         *)
(* Abstracted: a regular expression is the set of names it matches, a      *)
(* prototype the sequence of the kinds of its parameters, and the plan,    *)
(* sorted and deduplicated by the code, a set.                             *)
(***************************************************************************)
EXTENDS Naturals, Sequences, FiniteSetsExt

CONSTANTS
  KernelFunction,       \* [name, module, parameters] of every function in BTF
  SplitBtf,             \* modules with a file in the BTF directory
  Available,            \* names the kernel lists as attachable
  MAX_KPROBE_ARGUMENT,
  Absent                \* no module, no argument, no pattern

ASSUME PlanAssumption ==
  /\ MAX_KPROBE_ARGUMENT \in Nat
  /\ \A f \in KernelFunction : f.parameters \in Seq(STRING)

Modules(query) == IF query.all_modules THEN SplitBtf ELSE query.modules

Functions(query) == {f \in KernelFunction : f.module = Absent \/ f.module \in Modules(query)}

\* The query is refused, or a module's BTF cannot be loaded.
PlanFails(query) ==
  \/ query.exact # {} /\ query.pattern # Absent
  \/ query.modules # {} /\ query.all_modules
  \/ ~(query.modules \subseteq SplitBtf)

\* Mutant: an exact probe list hides the helpers from selection.
SelectedExactly(query, name) ==
  IF query.exact # {} THEN name \in query.exact
  ELSE name \in query.helpers \/ query.pattern = Absent \/ name \in query.pattern

selected(query, name) ==
  \/ name \in query.helpers
  \/ query.exact # {} /\ name \in query.exact
  \/ query.exact = {} /\ (query.pattern = Absent \/ name \in query.pattern)

non_skb(query) == query.non_skb \cup query.helpers

\* The first parameter that is a pointer to sk_buff, or Absent.
skb_argument(f) ==
  LET positions == {i \in DOMAIN f.parameters :
                      i <= MAX_KPROBE_ARGUMENT /\ f.parameters[i] = "skb"}
  IN IF positions = {} THEN Absent ELSE Min(positions)

Probe(f, argument) ==
  [function |-> f.name, module |-> f.module, skb_argument |-> argument,
   available |-> f.name \in Available, asserted |-> FALSE]

discover_btf(query) ==
  {Probe(f, skb_argument(f)) : f \in
     {g \in Functions(query) : skb_argument(g) # Absent /\ selected(query, g.name)}}
  \cup
  {Probe(f, Absent) : f \in
     {g \in Functions(query) : skb_argument(g) = Absent /\ g.name \in non_skb(query)}}

\* Names asked for and not found as asked stay visible in the plan.
Missing(query, found) ==
  {n \in query.exact : ~\E p \in found : p.function = n /\ p.skb_argument # Absent}
  \cup {n \in query.non_skb : ~\E p \in found : p.function = n /\ p.skb_argument = Absent}
  \cup {n \in query.helpers : ~\E p \in found : p.function = n}

CallerAsserted(name) ==
  [function |-> name, module |-> Absent, skb_argument |-> Absent, available |-> FALSE,
   asserted |-> TRUE]

\* dedup_by() keeps the first probe of a function, module and argument, and those
\* found come first.
Deduplicated(n, found) ==
  \E p \in found : p.function = n /\ p.module = Absent /\ p.skb_argument = Absent

build_probe_plan_with_bpf_helpers(query) ==
  LET found == discover_btf(query)
  IN found \cup {CallerAsserted(n) : n \in {m \in Missing(query, found) : ~Deduplicated(m, found)}}

Attachments(plan) == {p \in plan : p.available}
=============================================================================
