---------------------------- MODULE PacketLineage ----------------------------
(***************************************************************************)
(* How the kernel program gives an observation the identity of its packet *)
(* (--filter-track-skb).  A packet that matches the filter is given the    *)
(* next number; the number is filed under the address of its sk_buff and   *)
(* under the address of its buffer, and the hooks on clone, copy,          *)
(* replacement (COW) and free move it along with the packet.  An XDP       *)
(* program sees a frame before there is an sk_buff: its number is filed    *)
(* under the buffer only, where the sk_buff built from the frame finds it. *)
(* Helper functions without an sk_buff argument are attributed to the      *)
(* packet their stack last handled.                                        *)
(*                                                                         *)
(* The maps outlive what they describe: the kernel hands out the address   *)
(* of a freed sk_buff or buffer again, and evicts entries of an LRU map.   *)
(* A context is whatever runs without giving up its CPU; contexts share a  *)
(* pid_tgid when one interrupts the other, or when both run on idle CPUs   *)
(* (pid 0).  Whether the filter matches is open: fields change on the way. *)
(*                                                                         *)
(* An sk_buff is handled by one context at a time, but its clones share    *)
(* its buffer and other contexts handle them.  should_trace looks into the *)
(* maps, evaluates the filter, looks again, takes a number and files it in *)
(* two maps; none of this is guarded, so it is as many steps here.         *)
(***************************************************************************)
EXTENDS Naturals, FiniteSets

CONSTANTS
  Skb,          \* addresses of sk_buffs
  Head,         \* addresses of packet buffers (skb->head, xdp->data_hard_start)
  Context,      \* what handles packets: tasks, softirqs, CPUs
  Key,          \* Key[c]: the pid_tgid a hook running in c reads
  Driver,       \* the contexts that run a traced XDP program
  Anchor,       \* addresses of stack frames
  MaxPackets,   \* bound: packets that arrive or are sent
  MaxIdentities,\* bound: identities handed out
  MaxEvicted,   \* bound: an identity is evicted only while fewer packets are in split
  None

Packet == 1..MaxPackets
Identity == 1..MaxIdentities
Pid == {Key[c] : c \in Context}

VARIABLES
  skb,       \* skb[s]: the packet and buffer of s, None when s is free
  frame,     \* frame[c]: the XDP frame c runs the program on, and what entry reported
  call,      \* call[c]: the function that c is inside of, between its two hooks
  hook,      \* hook[c]: the hook on an sk_buff that c runs, and how far it has come
  packets,   \* how many packets there have been
  tracked_skbs, skb_data_lineages, lineage_sequence, xdp_entry_states,
  pending_clones, pending_skb_replacements, stack_anchor_skb, skb_stack_anchor,
  named,     \* history: named[i]: the packets that observations of identity i were of
  inherited, \* history: packets that met an entry another packet left under their buffer
  mistaken,  \* history: packets given what a call on another packet left under the pid_tgid
  split,     \* history: packets whose entry was lost, or not yet filed when they matched
  crowded,   \* history: contexts whose hook ran beside another hook on its packet
  loose      \* history: anchors that skb_stack_anchor no longer knows of

kernelVars == <<skb, frame, call, packets>>
lineageVars == <<tracked_skbs, skb_data_lineages, lineage_sequence>>
pendingVars == <<pending_clones, pending_skb_replacements>>
anchorVars == <<stack_anchor_skb, skb_stack_anchor, loose>>
exempt == <<inherited, mistaken, split>>
vars == <<kernelVars, hook, lineageVars, xdp_entry_states, pendingVars, anchorVars, named,
          exempt, crowded>>

Data == [packet : Packet, head : Head]
Call == [op : {"clone", "copy", "replace"}, skb : Skb,
         made : Skb \cup {None}, identity : Identity \cup {None}]
Hook == [step : {"filter", "withdraw", "file", "associate"}, skb : Skb,
         identity : Identity \cup {None}]
Frame == [data : Data, entry : Identity \cup {None}]
Replacement == [slot : Context, identity : Identity]

ASSUME BoundAssumption == MaxPackets \in Nat /\ MaxIdentities \in Nat
ASSUME DriverAssumption == Driver \subseteq Context
ASSUME NoneAssumption ==
  /\ None \notin Skb \cup Anchor \cup Identity
  /\ None \notin Data \cup Call \cup Hook \cup Frame \cup Replacement

LineageTypeOK ==
  /\ skb \in [Skb -> Data \cup {None}]
  /\ frame \in [Context -> Frame \cup {None}]
  /\ call \in [Context -> Call \cup {None}]
  /\ hook \in [Context -> Hook \cup {None}]
  /\ packets \in 0..MaxPackets
  /\ tracked_skbs \in [Skb -> Identity \cup {None}]
  /\ skb_data_lineages \in [Head -> Identity \cup {None}]
  /\ lineage_sequence \in 0..MaxIdentities
  /\ xdp_entry_states \in [Context -> Identity \cup {None}]
  /\ pending_clones \in [Pid -> Identity \cup {None}]
  /\ pending_skb_replacements \in [Pid -> Replacement \cup {None}]
  /\ stack_anchor_skb \in [Anchor -> Skb \cup {None}]
  /\ skb_stack_anchor \in [Skb -> Anchor \cup {None}]
  /\ named \in [Identity -> SUBSET Packet]
  /\ inherited \subseteq Packet
  /\ mistaken \subseteq Packet
  /\ split \subseteq Packet
  /\ crowded \subseteq Context
  /\ loose \subseteq Anchor

Init ==
  /\ skb = [s \in Skb |-> None]
  /\ frame = [c \in Context |-> None]
  /\ call = [c \in Context |-> None]
  /\ hook = [c \in Context |-> None]
  /\ packets = 0
  /\ tracked_skbs = [s \in Skb |-> None]
  /\ skb_data_lineages = [h \in Head |-> None]
  /\ lineage_sequence = 0
  /\ xdp_entry_states = [c \in Context |-> None]
  /\ pending_clones = [k \in Pid |-> None]
  /\ pending_skb_replacements = [k \in Pid |-> None]
  /\ stack_anchor_skb = [a \in Anchor |-> None]
  /\ skb_stack_anchor = [s \in Skb |-> None]
  /\ named = [i \in Identity |-> {}]
  /\ inherited = {}
  /\ mistaken = {}
  /\ split = {}
  /\ crowded = {}
  /\ loose = {}

-----------------------------------------------------------------------------
\* The kernel's objects.

InUse(h) ==
  \/ \E s \in Skb : skb[s] # None /\ skb[s].head = h
  \/ \E c \in Context : frame[c] # None /\ frame[c].data.head = h

FreeHeads == {h \in Head : ~InUse(h)}
FreeSkbs == {s \in Skb : skb[s] = None}
Live == Skb \ FreeSkbs

Calling == {c \in Context : call[c] # None}
Hooking == {c \in Context : hook[c] # None}

\* The sk_buffs that c has in hand: no other context frees, clones or hooks them.
HeldBy(c) == (IF call[c] = None THEN {} ELSE {call[c].skb, call[c].made})
               \cup (IF hook[c] = None THEN {} ELSE {hook[c].skb})

Held == UNION {HeldBy(c) : c \in Context}

\* A buffer handed to packet p brings along what is filed under its address.
Inherit(p, h) ==
  inherited' = IF skb_data_lineages[h] = None THEN inherited ELSE inherited \cup {p}

Observe(i, p) == named' = [named EXCEPT ![i] = @ \cup {p}]

Observed(p) == \E i \in Identity : p \in named[i]

-----------------------------------------------------------------------------
\* Mutant: the identity is not filed under the buffer.
associate_skb_data_never(h, i) == UNCHANGED skb_data_lineages

associate_skb_data(h, i) == skb_data_lineages' = [skb_data_lineages EXCEPT ![h] = i]

\* A packet without an identity that matches the filter takes the next number.
NextIdentity(i) ==
  /\ i \in Identity
  /\ i = lineage_sequence + 1
  /\ lineage_sequence' = i

\* Mutant: the entry of the stack's former packet stays.
associate_stack_keeping(s, a) ==
  /\ stack_anchor_skb' = [stack_anchor_skb EXCEPT ![a] = s]
  /\ skb_stack_anchor' = [skb_stack_anchor EXCEPT ![s] = a]
  /\ loose' = loose \ {a}

\* The stack with anchor a handles s; the anchor s had before is forgotten.
associate_stack(s, a) ==
  /\ stack_anchor_skb' =
       [b \in Anchor |-> IF b = a THEN s
                         ELSE IF b = skb_stack_anchor[s] THEN None
                         ELSE stack_anchor_skb[b]]
  /\ skb_stack_anchor' = [skb_stack_anchor EXCEPT ![s] = a]
  /\ loose' = loose \ {a, skb_stack_anchor[s]}

IsTracked(s) == tracked_skbs[s] # None

\* A hook on a TC program knows no stack.
Handles(s, a) == IF a = None THEN UNCHANGED anchorVars ELSE associate_stack(s, a)

-----------------------------------------------------------------------------
\* A hook whose argument is an sk_buff, step by step.  A step ends where what
\* another context does next could matter to the identity; inside one, others can
\* at most remove an anchor, as an eviction does.

\* Contexts other than c that run a hook on packet p.
Beside(c, p) == {d \in Hooking \ {c} : skb[hook[d].skb].packet = p}

\* The first lookups: an untracked sk_buff takes the identity filed under its
\* buffer, whatever the filter says.
Begin(c, s) ==
  LET i == IF IsTracked(s) THEN None ELSE skb_data_lineages[skb[s].head]
      others == Beside(c, skb[s].packet)
  IN /\ hook[c] = None
     /\ s \in Live
     /\ \A d \in Context \ {c} : s \notin HeldBy(d)
     /\ hook' = [hook EXCEPT ![c] = [step |-> IF i = None THEN "filter" ELSE "withdraw",
                                     skb |-> s, identity |-> i]]
     /\ crowded' = IF others = {} THEN crowded ELSE crowded \cup others \cup {c}
     /\ UNCHANGED <<kernelVars, lineageVars, xdp_entry_states, pendingVars, anchorVars,
                    named, exempt>>

\* The hook of c comes to step, with identity i in hand.
Moves(c, step, i) == hook' = [hook EXCEPT ![c].step = step, ![c].identity = i]

In(c, step) == hook[c] # None /\ hook[c].step = step

\* The entry of the buffer is withdrawn, to be filed again.
Withdraw(c) ==
  LET s == hook[c].skb
      i == hook[c].identity
  IN /\ In(c, "withdraw")
     /\ tracked_skbs' = [tracked_skbs EXCEPT ![s] = i]
     /\ skb_data_lineages' = [skb_data_lineages EXCEPT ![skb[s].head] = None]
     /\ Moves(c, "associate", i)
     /\ UNCHANGED <<kernelVars, lineage_sequence, xdp_entry_states, pendingVars, anchorVars,
                    named, exempt, crowded>>

\* The second lookup finds an identity: the filter decides nothing.
TraceTracked(c) ==
  LET s == hook[c].skb IN
  /\ In(c, "filter")
  /\ IsTracked(s)
  /\ Moves(c, "associate", tracked_skbs[s])
  /\ UNCHANGED <<kernelVars, lineageVars, xdp_entry_states, pendingVars, anchorVars, named,
                 exempt, crowded>>

\* It finds none and the filter does not match.
TraceFiltered(c) ==
  /\ In(c, "filter")
  /\ ~IsTracked(hook[c].skb)
  /\ hook' = [hook EXCEPT ![c] = None]
  /\ crowded' = crowded \ {c}
  /\ UNCHANGED <<kernelVars, lineageVars, xdp_entry_states, pendingVars, anchorVars, named,
                 exempt>>

\* s was made by a copy or replacement of a tracked sk_buff whose exit hook has
\* yet to file the identity.
Unfiled(s) ==
  \E c \in Calling : /\ call[c].op \in {"copy", "replace"}
                     /\ call[c].made = s
                     /\ call[c].identity # None

\* It finds none and the filter matches.  The packet may get a second identity
\* when another hook on it is under way.
TraceMatched(c) ==
  LET s == hook[c].skb IN
  \E i \in Identity :
    /\ In(c, "filter")
    /\ ~IsTracked(s)
    /\ NextIdentity(i)
    /\ Moves(c, "file", i)
    /\ split' = IF c \in crowded \/ Unfiled(s) THEN split \cup {skb[s].packet} ELSE split
    /\ UNCHANGED <<kernelVars, tracked_skbs, skb_data_lineages, xdp_entry_states,
                   pendingVars, anchorVars, named, inherited, mistaken, crowded>>

FileTracked(c) ==
  /\ In(c, "file")
  /\ tracked_skbs' = [tracked_skbs EXCEPT ![hook[c].skb] = hook[c].identity]
  /\ Moves(c, "associate", hook[c].identity)
  /\ UNCHANGED <<kernelVars, skb_data_lineages, lineage_sequence, xdp_entry_states,
                 pendingVars, anchorVars, named, exempt, crowded>>

\* The identity is filed under the buffer and the observation sent.
Report(c, a) ==
  LET s == hook[c].skb IN
  /\ In(c, "associate")
  /\ associate_skb_data(skb[s].head, hook[c].identity)
  /\ Observe(hook[c].identity, skb[s].packet)
  /\ Handles(s, a)
  /\ hook' = [hook EXCEPT ![c] = None]
  /\ crowded' = crowded \ {c}
  /\ UNCHANGED <<kernelVars, tracked_skbs, lineage_sequence, xdp_entry_states, pendingVars,
                 exempt>>

-----------------------------------------------------------------------------
\* Mutant: the hook leaves the packet's identity under its address.
lifetime_end_anchors_only(s) == UNCHANGED tracked_skbs

\* kfree_skbmem: the address of s is about to be handed out again.
forget_tracked(s) == tracked_skbs' = [tracked_skbs EXCEPT ![s] = None]

lifetime_end(s) ==
  /\ forget_tracked(s)
  /\ stack_anchor_skb' =
       [a \in Anchor |-> IF a = skb_stack_anchor[s] THEN None ELSE stack_anchor_skb[a]]
  /\ skb_stack_anchor' = [skb_stack_anchor EXCEPT ![s] = None]
  /\ loose' = loose \ {skb_stack_anchor[s]}

Free(s) ==
  /\ s \in Live \ Held
  /\ lifetime_end(s)
  /\ skb' = [skb EXCEPT ![s] = None]
  /\ UNCHANGED <<frame, call, hook, packets, skb_data_lineages, lineage_sequence,
                 xdp_entry_states, pendingVars, named, exempt, crowded>>

\* A packet of this host's own.
Allocate(s, h) ==
  /\ s \in FreeSkbs
  /\ h \in FreeHeads
  /\ packets < MaxPackets
  /\ packets' = packets + 1
  /\ skb' = [skb EXCEPT ![s] = [packet |-> packets', head |-> h]]
  /\ Inherit(packets', h)
  /\ UNCHANGED <<frame, call, hook, lineageVars, xdp_entry_states, pendingVars, anchorVars,
                 named, mistaken, split, crowded>>

-----------------------------------------------------------------------------
\* A context goes on when its hook has run to the end.
Idle(c) == call[c] = None /\ hook[c] = None
Inside(c, ops) == call[c] # None /\ call[c].op \in ops /\ hook[c] = None

\* skb_clone and skb_copy.  What is filed for the call is found by pid_tgid.

\* The clone of s shares its buffer, the copy has its own.  A copy of what has
\* neither been tracked nor observed is a packet of its own as far as the capture
\* is concerned; a copy of what was observed and is not tracked gets no identity.
CloneEntry(c, s, op) ==
  /\ op \in {"clone", "copy"}
  /\ Idle(c)
  /\ s \in Live \ Held
  /\ call' = [call EXCEPT ![c] = [op |-> op, skb |-> s, made |-> None,
                                  identity |-> tracked_skbs[s]]]
  /\ pending_clones' = IF IsTracked(s)
       THEN [pending_clones EXCEPT ![Key[c]] = tracked_skbs[s]] ELSE pending_clones
  /\ UNCHANGED <<skb, frame, hook, packets, lineageVars, xdp_entry_states,
                 pending_skb_replacements, anchorVars, named, exempt, crowded>>

Making(c, op) == Inside(c, {op}) /\ call[c].made = None

Clone(c, s) ==
  /\ Making(c, "clone")
  /\ s \in FreeSkbs
  /\ skb' = [skb EXCEPT ![s] = skb[call[c].skb]]
  /\ call' = [call EXCEPT ![c].made = s]
  /\ UNCHANGED <<frame, hook, packets, lineageVars, xdp_entry_states, pendingVars,
                 anchorVars, named, exempt, crowded>>

Copy(c, s, h) ==
  LET original == skb[call[c].skb].packet
      lost == call[c].identity = None /\ Observed(original)
      p == IF call[c].identity # None \/ lost THEN original ELSE packets + 1
  IN /\ Making(c, "copy")
     /\ s \in FreeSkbs
     /\ h \in FreeHeads
     /\ p \in Packet
     /\ packets' = IF p = original THEN packets ELSE p
     /\ skb' = [skb EXCEPT ![s] = [packet |-> p, head |-> h]]
     /\ Inherit(p, h)
     /\ split' = IF lost THEN split \cup {p} ELSE split
     /\ call' = [call EXCEPT ![c].made = s]
     /\ UNCHANGED <<frame, hook, lineageVars, xdp_entry_states, pendingVars, anchorVars,
                    named, mistaken, crowded>>

\* A null return files nothing for the clone.
CloneExit(c) ==
  LET k == Key[c]
      s == call[c].made
      i == pending_clones[k]
      p == skb[s].packet
  IN /\ Inside(c, {"clone", "copy"})
     /\ pending_clones' = [pending_clones EXCEPT ![k] = None]
     /\ IF s = None \/ i = None THEN UNCHANGED <<tracked_skbs, skb_data_lineages>>
        ELSE /\ tracked_skbs' = [tracked_skbs EXCEPT ![s] = i]
             /\ associate_skb_data(skb[s].head, i)
     /\ mistaken' = IF s # None /\ i \notin {None, call[c].identity}
                      THEN mistaken \cup {p} ELSE mistaken
     /\ split' = IF s # None /\ i = None /\ call[c].identity # None
                   THEN split \cup {p} ELSE split
     /\ call' = [call EXCEPT ![c] = None]
     /\ UNCHANGED <<skb, frame, hook, packets, lineage_sequence, xdp_entry_states,
                    pending_skb_replacements, anchorVars, named, inherited, crowded>>

-----------------------------------------------------------------------------
\* skb_pp_cow_data, veth_convert_skb_to_xdp_buff: the caller's pointer to s may
\* come back pointing to another sk_buff with another buffer.

ReplaceEntry(c, s) ==
  /\ Idle(c)
  /\ s \in Live \ Held
  /\ call' = [call EXCEPT ![c] = [op |-> "replace", skb |-> s, made |-> None,
                                  identity |-> tracked_skbs[s]]]
  /\ pending_skb_replacements' = IF IsTracked(s)
       THEN [pending_skb_replacements EXCEPT
               ![Key[c]] = [slot |-> c, identity |-> tracked_skbs[s]]]
       ELSE pending_skb_replacements
  /\ UNCHANGED <<skb, frame, hook, packets, lineageVars, xdp_entry_states, pending_clones,
                 anchorVars, named, exempt, crowded>>

\* The replacement is made and the original freed.  What is not tracked loses its
\* identity with its buffer when the packet has one, or may get one elsewhere.
Replace(c, s, h) ==
  LET old == call[c].skb
      p == skb[old].packet
  IN /\ Making(c, "replace")
     /\ s \in FreeSkbs
     /\ h \in FreeHeads
     /\ skb' = [skb EXCEPT ![s] = [packet |-> p, head |-> h], ![old] = None]
     /\ lifetime_end(old)
     /\ Inherit(p, h)
     /\ split' = IF /\ call[c].identity = None
                    /\ Observed(p) \/ \E t \in Live \ {old} : skb[t].packet = p
                   THEN split \cup {p} ELSE split
     /\ call' = [call EXCEPT ![c].made = s, ![c].skb = s]
     /\ UNCHANGED <<frame, hook, packets, skb_data_lineages, lineage_sequence,
                    xdp_entry_states, pendingVars, named, mistaken, crowded>>

\* What the slot of the entry found under this pid_tgid points to now.
Slot(c) == IF call[c].made = None THEN call[c].skb ELSE call[c].made

ReplaceExit(c) ==
  LET k == Key[c]
      pending == pending_skb_replacements[k]
      s == Slot(pending.slot)
  IN /\ Inside(c, {"replace"})
     /\ pending_skb_replacements' = [pending_skb_replacements EXCEPT ![k] = None]
     /\ IF pending = None THEN UNCHANGED <<tracked_skbs, skb_data_lineages>>
        ELSE /\ tracked_skbs' = [tracked_skbs EXCEPT ![s] = pending.identity]
             /\ associate_skb_data(skb[s].head, pending.identity)
     /\ split' = IF call[c].identity # None /\ (pending = None \/ pending.slot # c)
                   THEN split \cup {skb[call[c].skb].packet} ELSE split
     /\ call' = [call EXCEPT ![c] = None]
     /\ UNCHANGED <<skb, frame, hook, packets, lineage_sequence, xdp_entry_states,
                    pending_clones, anchorVars, named, inherited, mistaken, crowded>>

-----------------------------------------------------------------------------
\* A driver runs the XDP program on a frame; entry and exit are hooked.  The
\* frame's context structure lives on the stack of c: its address comes again.

xdp_entry_filed(c, i) ==
  xdp_entry_states' = IF i = None THEN xdp_entry_states ELSE [xdp_entry_states EXCEPT ![c] = i]

XdpEntry(c, h) ==
  LET p == packets + 1 IN
  /\ frame[c] = None
  /\ hook[c] = None
  /\ h \in FreeHeads
  /\ p \in Packet
  /\ packets' = p
  /\ Inherit(p, h)
  /\ \E i \in Identity \cup {None} :
       /\ \/ /\ skb_data_lineages[h] # None        \* tracked: whatever the filter says
             /\ i = skb_data_lineages[h]
             /\ UNCHANGED <<lineage_sequence, skb_data_lineages>>
          \/ /\ skb_data_lineages[h] = None        \* matched
             /\ NextIdentity(i)
             /\ skb_data_lineages' = [skb_data_lineages EXCEPT ![h] = i]
          \/ /\ skb_data_lineages[h] = None        \* filtered
             /\ i = None
             /\ UNCHANGED <<lineage_sequence, skb_data_lineages>>
       /\ xdp_entry_filed(c, i)
       /\ named' = IF i = None THEN named ELSE [named EXCEPT ![i] = @ \cup {p}]
       /\ frame' = [frame EXCEPT ![c] = [data |-> [packet |-> p, head |-> h], entry |-> i]]
  /\ UNCHANGED <<skb, call, hook, tracked_skbs, pendingVars, anchorVars, mistaken, split,
                 crowded>>

\* Mutant: the exit leaves the entry's state for the next run.
xdp_exit_keeping(c) == UNCHANGED xdp_entry_states

xdp_exit_filed(c) == xdp_entry_states' = [xdp_entry_states EXCEPT ![c] = None]

\* The program is done with the frame: it is dropped or sent back, or passed on
\* to the stack, which wraps its buffer in an sk_buff.
XdpExit(c) ==
  LET i == xdp_entry_states[c] IN
  /\ frame[c] # None
  /\ hook[c] = None
  /\ xdp_exit_filed(c)
  /\ named' = IF i = None THEN named ELSE [named EXCEPT ![i] = @ \cup {frame[c].data.packet}]
  /\ frame' = [frame EXCEPT ![c] = None]
  /\ \/ UNCHANGED skb
     \/ \E s \in FreeSkbs : skb' = [skb EXCEPT ![s] = frame[c].data]
  /\ UNCHANGED <<call, hook, packets, lineageVars, pendingVars, anchorVars, exempt, crowded>>

-----------------------------------------------------------------------------
\* The kernel evicts an entry of a full LRU map.  The packets it was of are the
\* ones on that address.
EvictTracked(s) ==
  /\ Cardinality(split) < MaxEvicted
  /\ s \in Live
  /\ IsTracked(s)
  /\ tracked_skbs' = [tracked_skbs EXCEPT ![s] = None]
  /\ split' = split \cup {skb[s].packet}
  /\ UNCHANGED <<kernelVars, hook, skb_data_lineages, lineage_sequence, xdp_entry_states,
                 pendingVars, anchorVars, named, inherited, mistaken, crowded>>

EvictLineage(h) ==
  /\ Cardinality(split) < MaxEvicted
  /\ skb_data_lineages[h] # None
  /\ skb_data_lineages' = [skb_data_lineages EXCEPT ![h] = None]
  /\ split' = split \cup {skb[s].packet : s \in {t \in Live : skb[t].head = h}}
                \cup {frame[c].data.packet :
                        c \in {d \in Context : frame[d] # None /\ frame[d].data.head = h}}
  /\ UNCHANGED <<kernelVars, hook, tracked_skbs, lineage_sequence, xdp_entry_states,
                 pendingVars, anchorVars, named, inherited, mistaken, crowded>>

\* The two directions of the stack association are maps of their own.
EvictStackAnchor(a) ==
  /\ stack_anchor_skb[a] # None
  /\ stack_anchor_skb' = [stack_anchor_skb EXCEPT ![a] = None]
  /\ loose' = loose \ {a}
  /\ UNCHANGED <<kernelVars, hook, lineageVars, xdp_entry_states, pendingVars,
                 skb_stack_anchor, named, exempt, crowded>>

EvictSkbAnchor(s) ==
  /\ skb_stack_anchor[s] # None
  /\ skb_stack_anchor' = [skb_stack_anchor EXCEPT ![s] = None]
  /\ loose' = loose \cup {a \in Anchor : stack_anchor_skb[a] = s}
  /\ UNCHANGED <<kernelVars, hook, lineageVars, xdp_entry_states, pendingVars,
                 stack_anchor_skb, named, exempt, crowded>>

\* What a map operation on the stack with anchor a is attributed to.
Attributed(a) == stack_anchor_skb[a]

\* A hook without an sk_buff, on a stack that has handled one: a helper or a map
\* operation.  The sk_buff is the one filed for the stack; an untracked one is
\* reported under its address, which is no packet's identity.  The lookups and
\* the reading of the sk_buff's fields are one step.
StackAssociated(a) ==
  LET s == Attributed(a) IN
  /\ s # None
  /\ s \in Live
  /\ IsTracked(s)
  /\ Observe(tracked_skbs[s], skb[s].packet)
  /\ UNCHANGED <<kernelVars, hook, lineageVars, xdp_entry_states, pendingVars, anchorVars,
                 exempt, crowded>>

Hooks(c) ==
  \/ \E s \in Skb : Begin(c, s)
  \/ Withdraw(c)
  \/ TraceTracked(c) \/ TraceFiltered(c) \/ TraceMatched(c)
  \/ FileTracked(c)
  \/ \E a \in Anchor \cup {None} : Report(c, a)

Kernel ==
  \/ \E s \in Skb : Free(s) \/ EvictTracked(s) \/ EvictSkbAnchor(s)
  \/ \E h \in Head : EvictLineage(h)
  \/ \E s \in Skb, h \in Head : Allocate(s, h)
  \/ \E a \in Anchor : EvictStackAnchor(a) \/ StackAssociated(a)

Calls(c) ==
  \/ \E s \in Skb, op \in {"clone", "copy"} : CloneEntry(c, s, op)
  \/ \E s \in Skb : Clone(c, s) \/ ReplaceEntry(c, s)
  \/ \E s \in Skb, h \in Head : Copy(c, s, h) \/ Replace(c, s, h)
  \/ CloneExit(c)
  \/ ReplaceExit(c)

Frames(c) == XdpExit(c) \/ \E h \in Head : XdpEntry(c, h)

Next ==
  \/ Kernel
  \/ \E c \in Context : Hooks(c) \/ Calls(c)
  \/ \E c \in Driver : Frames(c)

Spec == Init /\ [][Next]_vars

-----------------------------------------------------------------------------
\* An identity names one packet: observations filed under it are of one packet,
\* through clone, copy, replacement, XDP and the reuse of sk_buff addresses, and
\* however the hooks of several contexts interleave.  The exceptions are packets
\* that met what another packet left under their buffer, or under the pid_tgid
\* of a clone in progress.
IdentityNamesOnePacket ==
  \A i \in Identity : Cardinality(named[i] \ (inherited \cup mistaken)) <= 1

\* A packet's observations carry one identity, from the XDP frame to the last
\* clone, copy or replacement.  The exceptions are packets whose entry the kernel
\* evicted or a call with the same pid_tgid took, that were copied or replaced
\* while not tracked, or that took a number beside another hook on them.
PacketHasOneIdentity ==
  \A p \in Packet \ (split \cup inherited \cup mistaken) :
    Cardinality({i \in Identity : p \in named[i]}) <= 1

\* An exit is reported exactly when its entry was, with the entry's identity.
XdpExitPairsWithEntry ==
  \A c \in Context :
    xdp_entry_states[c] = (IF frame[c] = None THEN None ELSE frame[c].entry)

\* A helper's observation is of an sk_buff that exists and that the stack is the
\* last to have handled: no anchor leads to a freed address, so none to the
\* packet that has it next.  The exceptions are anchors whose other direction
\* the kernel evicted.
AnchorsLeadToLiveSkbs ==
  \A a \in Anchor \ loose :
    LET s == Attributed(a) IN s # None => s \in Live /\ skb_stack_anchor[s] = a

\* "an event records whether it matched the original filter or was included
\* because it belonged to a packet already being tracked" (devto-skbx.md): every
\* observation of an identity is of the packet that was given it.
ObservationBelongsToTrackedPacket ==
  \A i \in Identity : Cardinality(named[i]) <= 1
=============================================================================
