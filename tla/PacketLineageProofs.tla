------------------------ MODULE PacketLineageProofs ------------------------
(***************************************************************************)
(* What the kernel program's bookkeeping of packet identities guarantees,  *)
(* for any numbers of sk_buffs, buffers, contexts, stacks, packets and     *)
(* identities, and for contexts whose pid_tgid may be the same.            *)
(*                                                                         *)
(* BaseInv types the state and says what is in hand: the sk_buffs of calls *)
(* and hooks in progress are live, and no two contexts hold the same one.  *)
(* On it rest the pairing of XDP hooks and the anchors.  PlaceInv adds     *)
(* where packets are: a buffer is of one packet, nothing is filed under a  *)
(* free address, what a call makes is of its packet, and a replacement     *)
(* filed under a pid_tgid is of a call in progress.                        *)
(*                                                                         *)
(* IdentityInv is why an identity names one packet.  A packet owns an      *)
(* identity when it was observed under it or a hook on it has it in hand;  *)
(* whatever would give an identity to an observation (the entry of the     *)
(* sk_buff, of the buffer, of the XDP context, what a call has read) is of *)
(* a packet that owns it or met what another left; only a number that      *)
(* nobody has is handed out.  FollowInv is why a packet has one identity:  *)
(* where the packet is, its identity is filed under the buffer, unless a   *)
(* call or a hook is still to file it; before it has one, it is on one     *)
(* buffer only, so that the first match files for all of it; and a hook    *)
(* that is yet to decide about a packet with an identity will find it, or  *)
(* runs beside another hook or ahead of a call's exit.                     *)
(***************************************************************************)
EXTENDS PacketLineage, FiniteSetTheorems, TLAPS

-----------------------------------------------------------------------------
\* Types, and what the calls in progress hold.

InCall(c) == call[c] # None

\* The call of c is on a live sk_buff, and what it has made of it is live too.
CallHolds(c) ==
  /\ call[c].skb \in Live
  /\ call[c].made \in Live \cup {None}
  /\ call[c].op = "replace" => call[c].made \in {None, call[c].skb}
  /\ call[c].op \in {"clone", "copy"} => call[c].made # call[c].skb

\* No sk_buff is in two calls.
CallsApart(c, d) ==
  /\ call[c].skb # call[d].skb
  /\ call[c].skb # call[d].made
  /\ call[c].made # None => call[c].made # call[d].made

CallsHold ==
  /\ \A c \in Context : InCall(c) => CallHolds(c)
  /\ \A c, d \in Context : InCall(c) /\ InCall(d) /\ c # d => CallsApart(c, d)

\* A hook is on a live sk_buff that no other context has in hand, and has an
\* identity in hand unless it is yet to decide.
HooksHold ==
  \A c \in Context : hook[c] # None =>
    /\ hook[c].skb \in Live
    /\ hook[c].step = "filter" <=> hook[c].identity = None
    /\ \A d \in Context \ {c} :
         /\ InCall(d) => hook[c].skb # call[d].skb /\ hook[c].skb # call[d].made
         /\ hook[d] # None => hook[c].skb # hook[d].skb

\* Nothing has happened.
LEMMA TypeInit == Init => LineageTypeOK
BY BoundAssumption DEF Init, LineageTypeOK, Packet, Identity

\* Live sk_buffs and calls, and what they consist of.
LEMMA Parts ==
  ASSUME LineageTypeOK
  PROVE  /\ \A s \in Skb : s \in Live <=> skb[s] # None
         /\ \A s \in Live : /\ skb[s] \in Data /\ skb[s].packet \in Packet
                            /\ skb[s].head \in Head
         /\ \A c \in Context : frame[c] # None =>
              /\ frame[c] \in Frame /\ frame[c].data \in Data
              /\ frame[c].data.packet \in Packet /\ frame[c].data.head \in Head
              /\ frame[c].entry \in Identity \cup {None}
         /\ \A c \in Context : InCall(c) =>
              /\ call[c] \in Call /\ call[c].skb \in Skb /\ call[c].made \in Skb \cup {None}
              /\ call[c].identity \in Identity \cup {None}
              /\ call[c].op \in {"clone", "copy", "replace"}
         /\ \A c \in Context : hook[c] # None =>
              /\ hook[c] \in Hook /\ hook[c].skb \in Skb
              /\ hook[c].identity \in Identity \cup {None}
              /\ hook[c].step \in {"filter", "withdraw", "file", "associate"}
         /\ \A s \in Skb : s \notin Held =>
              /\ \A c \in Context : InCall(c) => call[c].skb # s /\ call[c].made # s
              /\ \A c \in Context : hook[c] # None => hook[c].skb # s
         /\ \A k \in Pid : pending_skb_replacements[k] # None =>
              /\ pending_skb_replacements[k].slot \in Context
              /\ pending_skb_replacements[k].identity \in Identity
<1>1. /\ \A s \in Skb : s \in Live <=> skb[s] # None
      /\ \A s \in Live : skb[s] \in Data /\ skb[s].packet \in Packet /\ skb[s].head \in Head
  BY DEF Live, FreeSkbs, LineageTypeOK, Data
<1>2. \A c \in Context : frame[c] # None =>
              /\ frame[c] \in Frame /\ frame[c].data \in Data
              /\ frame[c].data.packet \in Packet /\ frame[c].data.head \in Head
              /\ frame[c].entry \in Identity \cup {None}
  BY DEF LineageTypeOK, Frame, Data
<1>3. \A c \in Context : InCall(c) =>
              /\ call[c] \in Call /\ call[c].skb \in Skb /\ call[c].made \in Skb \cup {None}
              /\ call[c].identity \in Identity \cup {None}
              /\ call[c].op \in {"clone", "copy", "replace"}
  BY DEF LineageTypeOK, Call, InCall
<1>4. \A s \in Skb : s \notin Held =>
        /\ \A c \in Context : InCall(c) => call[c].skb # s /\ call[c].made # s
        /\ \A c \in Context : hook[c] # None => hook[c].skb # s
  BY DEF Held, HeldBy, InCall
<1>6. \A c \in Context : hook[c] # None =>
              /\ hook[c] \in Hook /\ hook[c].skb \in Skb
              /\ hook[c].identity \in Identity \cup {None}
              /\ hook[c].step \in {"filter", "withdraw", "file", "associate"}
  BY DEF LineageTypeOK, Hook
<1>5. \A k \in Pid : pending_skb_replacements[k] # None =>
              /\ pending_skb_replacements[k].slot \in Context
              /\ pending_skb_replacements[k].identity \in Identity
  BY DEF LineageTypeOK, Replacement
<1> QED
  BY <1>1, <1>2, <1>3, <1>4, <1>5, <1>6

\* The steps of a hook touch what is filed, and neither packets nor calls.
LEMMA HookSteps ==
  ASSUME NEW c \in Context, Hooks(c)
  PROVE  /\ UNCHANGED <<kernelVars, xdp_entry_states, pendingVars, inherited, mistaken>>
         /\ \A d \in Context \ {c} : LineageTypeOK => hook'[d] = hook[d]
BY DEF Hooks, Begin, Withdraw, TraceTracked, TraceFiltered, TraceMatched, FileTracked, Report,
       Moves, exempt, LineageTypeOK

\* Every hook files identities under addresses, and only identities.
LEMMA TypeStep == LineageTypeOK /\ CallsHold /\ HooksHold /\ [Next]_vars => LineageTypeOK'
<1> SUFFICES ASSUME LineageTypeOK, CallsHold, HooksHold, [Next]_vars PROVE LineageTypeOK'
  OBVIOUS
<1> USE NoneAssumption, BoundAssumption
     DEF LineageTypeOK, kernelVars, lineageVars, pendingVars, anchorVars, exempt
<1>1. /\ \A s \in Skb : s \in Live <=> skb[s] # None
      /\ \A s \in Live : /\ skb[s] \in Data /\ skb[s].packet \in Packet
                         /\ skb[s].head \in Head
  BY Parts
<1>2. \A c \in Context : InCall(c) =>
        /\ call[c] \in Call /\ call[c].skb \in Live /\ call[c].made \in Live \cup {None}
        /\ call[c].identity \in Identity \cup {None}
  BY Parts DEF CallsHold, CallHolds
<1>3. CASE UNCHANGED vars
  BY <1>3 DEF vars
<1>4. ASSUME NEW s \in Skb, NEW a \in Anchor \cup {None}, Handles(s, a)
      PROVE  /\ stack_anchor_skb' \in [Anchor -> Skb \cup {None}]
             /\ skb_stack_anchor' \in [Skb -> Anchor \cup {None}]
             /\ loose' \subseteq Anchor
  BY <1>4 DEF Handles, associate_stack
<1>5. \A c \in Context : hook[c] # None =>
        /\ hook[c] \in Hook /\ hook[c].skb \in Skb /\ skb[hook[c].skb] \in Data
        /\ skb[hook[c].skb].packet \in Packet /\ skb[hook[c].skb].head \in Head
        /\ hook[c].step # "filter" => hook[c].identity \in Identity
  BY <1>1, Parts DEF HooksHold
<1>6. ASSUME NEW c \in Context, hook[c] # None,
             NEW step \in {"filter", "withdraw", "file", "associate"},
             NEW i \in Identity \cup {None}, Moves(c, step, i)
      PROVE  hook' \in [Context -> Hook \cup {None}]
  <2>1. [hook[c] EXCEPT !.step = step, !.identity = i] \in Hook
    BY <1>5, <1>6 DEF Hook
  <2> QED
    BY <1>6, <2>1 DEF Moves
<1>7. ASSUME NEW c \in Context, Hooks(c) PROVE LineageTypeOK'
  <2>1. ASSUME NEW s \in Skb, Begin(c, s) PROVE LineageTypeOK'
    <3> DEFINE i == IF IsTracked(s) THEN None ELSE skb_data_lineages[skb[s].head]
               r == [step |-> IF i = None THEN "filter" ELSE "withdraw", skb |-> s, identity |-> i]
    <3>1. i \in Identity \cup {None}
      BY <1>1, <2>1 DEF Begin
    <3> HIDE DEF i
    <3>2. r \in Hook
      BY <3>1 DEF Hook
    <3>3. hook' = [hook EXCEPT ![c] = r]
      BY <2>1 DEF Begin, i
    <3>4. crowded' \subseteq Context
      BY <2>1 DEF Begin, Beside, Hooking
    <3> HIDE DEF r
    <3> QED
      BY <2>1, <3>2, <3>3, <3>4 DEF Begin
  <2>2. ASSUME Withdraw(c) PROVE LineageTypeOK'
    <3>1. hook' \in [Context -> Hook \cup {None}]
      BY <1>5, <1>6, <2>2 DEF Withdraw, In
    <3> QED
      BY <1>5, <2>2, <3>1 DEF Withdraw, In
  <2>3. ASSUME TraceTracked(c) PROVE LineageTypeOK'
    <3>1. hook' \in [Context -> Hook \cup {None}]
      BY <1>5, <1>6, <2>3 DEF TraceTracked, In
    <3> QED
      BY <2>3, <3>1 DEF TraceTracked
  <2>4. ASSUME TraceFiltered(c) PROVE LineageTypeOK'
    BY <2>4 DEF TraceFiltered
  <2>5. ASSUME TraceMatched(c) PROVE LineageTypeOK'
    <3>1. hook' \in [Context -> Hook \cup {None}]
      BY <1>6, <2>5 DEF TraceMatched, In
    <3>2. split' \subseteq Packet
      BY <1>5, <2>5 DEF TraceMatched, In
    <3> QED
      BY <2>5, <3>1, <3>2 DEF TraceMatched, NextIdentity, Identity
  <2>6. ASSUME FileTracked(c) PROVE LineageTypeOK'
    <3>1. hook' \in [Context -> Hook \cup {None}]
      BY <1>5, <1>6, <2>6 DEF FileTracked, In
    <3> QED
      BY <1>5, <2>6, <3>1 DEF FileTracked, In
  <2>7. ASSUME NEW a \in Anchor \cup {None}, Report(c, a) PROVE LineageTypeOK'
    <3>1. hook[c].skb \in Skb /\ hook[c].identity \in Identity /\ Handles(hook[c].skb, a)
      BY <1>5, <2>7 DEF Report, In
    <3>2. /\ skb_data_lineages' \in [Head -> Identity \cup {None}]
          /\ named' \in [Identity -> SUBSET Packet]
          /\ hook' \in [Context -> Hook \cup {None}]
          /\ crowded' \subseteq Context
      BY <1>5, <2>7, <3>1 DEF Report, In, associate_skb_data, Observe
    <3> QED
      BY <1>4, <2>7, <3>1, <3>2 DEF Report
  <2> QED
    BY <1>7, <2>1, <2>2, <2>3, <2>4, <2>5, <2>6, <2>7 DEF Hooks
<1>8. /\ \A a \in Anchor : EvictStackAnchor(a) => LineageTypeOK'
      /\ \A s \in Skb : EvictSkbAnchor(s) => LineageTypeOK'
  BY DEF EvictStackAnchor, EvictSkbAnchor
<1>9. ASSUME NEW a \in Anchor, StackAssociated(a) PROVE LineageTypeOK'
  <2>1. /\ stack_anchor_skb[a] \in Live
        /\ named' = [named EXCEPT ![tracked_skbs[stack_anchor_skb[a]]]
                       = @ \cup {skb[stack_anchor_skb[a]].packet}]
        /\ UNCHANGED <<kernelVars, hook, lineageVars, xdp_entry_states, pendingVars, anchorVars,
                       exempt, crowded>>
    BY <1>9 DEF StackAssociated, Attributed, Observe
  <2>2. skb[stack_anchor_skb[a]].packet \in Packet
    BY <1>1, <2>1
  <2> QED
    BY <2>1, <2>2
<1>10. ASSUME NEW s \in Skb, lifetime_end(s)
       PROVE  /\ tracked_skbs' \in [Skb -> Identity \cup {None}]
              /\ stack_anchor_skb' \in [Anchor -> Skb \cup {None}]
              /\ skb_stack_anchor' \in [Skb -> Anchor \cup {None}]
              /\ loose' \subseteq Anchor
  BY <1>10 DEF lifetime_end, forget_tracked
<1>11. ASSUME NEW s \in Skb, Free(s) PROVE LineageTypeOK'
  BY <1>10, <1>11 DEF Free
<1>12. ASSUME NEW s \in Skb, EvictTracked(s) PROVE LineageTypeOK'
  BY <1>1, <1>12 DEF EvictTracked
<1>13. ASSUME NEW h \in Head, EvictLineage(h) PROVE LineageTypeOK'
  <2>1. /\ {skb[s].packet : s \in {t \in Live : skb[t].head = h}} \subseteq Packet
        /\ {frame[c].data.packet :
                        c \in {d \in Context : frame[d] # None /\ frame[d].data.head = h}}
             \subseteq Packet
    BY <1>1, Parts
  <2> QED
    BY <1>13, <2>1 DEF EvictLineage
<1>14. ASSUME packets < MaxPackets PROVE packets + 1 \in Packet
  BY <1>14 DEF Packet
<1>15. ASSUME NEW p \in Packet, NEW h \in Head, Inherit(p, h) PROVE inherited' \subseteq Packet
  BY <1>15 DEF Inherit
<1>16. ASSUME NEW s \in Skb, NEW h \in Head, Allocate(s, h) PROVE LineageTypeOK'
  <2>1. packets' = packets + 1 /\ packets' \in Packet /\ packets' \in 0..MaxPackets
    BY <1>14, <1>16 DEF Allocate, Packet
  <2>2. [packet |-> packets', head |-> h] \in Data
    BY <2>1 DEF Data
  <2> QED
    BY <1>15, <1>16, <2>1, <2>2 DEF Allocate
<1>17. ASSUME NEW c \in Context, NEW s \in Skb, NEW op \in {"clone", "copy"},
              CloneEntry(c, s, op)
       PROVE  LineageTypeOK'
  <2>1. [op |-> op, skb |-> s, made |-> None, identity |-> tracked_skbs[s]] \in Call
    BY DEF Call
  <2> QED
    BY <1>17, <2>1 DEF CloneEntry
<1>18. ASSUME NEW c \in Context, NEW s \in Skb, Clone(c, s) PROVE LineageTypeOK'
  <2>1. skb[call[c].skb] \in Data
    BY <1>1, <1>2, <1>18 DEF Clone, Making, Inside, InCall
  <2>2. call[c] \in Call /\ [call[c] EXCEPT !.made = s] \in Call
    BY <1>2, <1>18 DEF Clone, Making, Inside, InCall, Call
  <2> QED
    BY <1>18, <2>1, <2>2 DEF Clone
<1>19. ASSUME NEW c \in Context, NEW s \in Skb, NEW h \in Head, Copy(c, s, h)
       PROVE  LineageTypeOK'
  <2>1. PICK p \in Packet :
          /\ packets' \in {packets, p}
          /\ skb' = [skb EXCEPT ![s] = [packet |-> p, head |-> h]]
          /\ Inherit(p, h)
          /\ split' \subseteq split \cup {p}
    BY <1>19 DEF Copy
  <2>2. [packet |-> p, head |-> h] \in Data /\ packets' \in 0..MaxPackets
    BY <2>1 DEF Data, Packet
  <2>3. call[c] \in Call /\ [call[c] EXCEPT !.made = s] \in Call
    BY <1>2, <1>19 DEF Copy, Making, Inside, InCall, Call
  <2>4. inherited' \subseteq Packet
    BY <1>15, <2>1
  <2> QED
    BY <1>19, <2>1, <2>2, <2>3, <2>4 DEF Copy
<1>20. ASSUME NEW c \in Context, CloneExit(c) PROVE LineageTypeOK'
  <2>1. Key[c] \in Pid
    BY DEF Pid
  <2>2. call[c].made # None => skb[call[c].made].packet \in Packet /\ call[c].made \in Skb
    BY <1>1, <1>2, <1>20 DEF CloneExit, Inside, InCall, Live
  <2> QED
    BY <1>20, <2>1, <2>2 DEF CloneExit, associate_skb_data
<1>21. ASSUME NEW c \in Context, NEW s \in Skb, ReplaceEntry(c, s) PROVE LineageTypeOK'
  <2>1. [op |-> "replace", skb |-> s, made |-> None, identity |-> tracked_skbs[s]] \in Call
    BY DEF Call
  <2>2. IsTracked(s) => [slot |-> c, identity |-> tracked_skbs[s]] \in Replacement
    BY DEF IsTracked, Replacement
  <2> QED
    BY <1>21, <2>1, <2>2 DEF ReplaceEntry
<1>22. ASSUME NEW c \in Context, NEW s \in Skb, NEW h \in Head, Replace(c, s, h)
       PROVE  LineageTypeOK'
  <2> DEFINE old == call[c].skb
  <2>1. old \in Skb /\ skb[old].packet \in Packet
    BY <1>1, <1>2, <1>22 DEF Replace, Making, Inside, InCall, Live
  <2>2. [packet |-> skb[old].packet, head |-> h] \in Data
    BY <2>1 DEF Data
  <2>3. call[c] \in Call /\ [call[c] EXCEPT !.made = s, !.skb = s] \in Call
    <3>1. call[c] \in Call
      BY <1>2, <1>22 DEF Replace, Making, Inside, InCall
    <3> QED
      BY <3>1 DEF Call
  <2>4. inherited' \subseteq Packet
    BY <1>15, <1>22, <2>1 DEF Replace
  <2>5. skb' \in [Skb -> Data \cup {None}]
    BY <1>22, <2>1, <2>2 DEF Replace
  <2>6. call' \in [Context -> Call \cup {None}]
    BY <1>22, <2>3 DEF Replace
  <2>7. split' \subseteq Packet
    BY <1>22, <2>1 DEF Replace
  <2> QED
    BY <1>10, <1>22, <2>1, <2>4, <2>5, <2>6, <2>7 DEF Replace
<1>23. ASSUME NEW c \in Context, ReplaceExit(c) PROVE LineageTypeOK'
  <2>1. Key[c] \in Pid
    BY DEF Pid
  <2>2. skb[call[c].skb].packet \in Packet
    BY <1>1, <1>2, <1>23 DEF ReplaceExit, Inside, InCall, Live
  <2>3. pending_skb_replacements[Key[c]] # None =>
          pending_skb_replacements[Key[c]].identity \in Identity
    BY <2>1, Parts
  <2> QED
    BY <1>23, <2>1, <2>2, <2>3 DEF ReplaceExit, associate_skb_data
<1>24. ASSUME NEW c \in Context, XdpExit(c) PROVE LineageTypeOK'
  <2>1. frame[c].data \in Data /\ frame[c].data.packet \in Packet
    BY <1>24, Parts DEF XdpExit
  <2>2. skb' \in [Skb -> Data \cup {None}]
    BY <1>24, <2>1 DEF XdpExit
  <2> QED
    BY <1>24, <2>1, <2>2 DEF XdpExit, xdp_exit_filed
<1>25. ASSUME NEW c \in Context, NEW h \in Head, XdpEntry(c, h) PROVE LineageTypeOK'
  <2> DEFINE p == packets + 1
  <2>1. p \in Packet /\ packets' = p /\ Inherit(p, h)
    BY <1>25 DEF XdpEntry
  <2>2. PICK i \in Identity \cup {None} :
       /\ \/ /\ skb_data_lineages[h] # None
             /\ i = skb_data_lineages[h]
             /\ UNCHANGED <<lineage_sequence, skb_data_lineages>>
          \/ /\ skb_data_lineages[h] = None
             /\ NextIdentity(i)
             /\ skb_data_lineages' = [skb_data_lineages EXCEPT ![h] = i]
          \/ /\ skb_data_lineages[h] = None
             /\ i = None
             /\ UNCHANGED <<lineage_sequence, skb_data_lineages>>
       /\ xdp_entry_filed(c, i)
       /\ named' = IF i = None THEN named ELSE [named EXCEPT ![i] = @ \cup {p}]
       /\ frame' = [frame EXCEPT ![c] = [data |-> [packet |-> p, head |-> h], entry |-> i]]
    BY <1>25 DEF XdpEntry
  <2>3. [data |-> [packet |-> p, head |-> h], entry |-> i] \in Frame
    BY <2>1 DEF Frame, Data
  <2>4. packets' \in 0..MaxPackets
    BY <2>1 DEF Packet
  <2>5. inherited' \subseteq Packet
    BY <1>15, <2>1
  <2> HIDE DEF p
  <2>6. /\ lineage_sequence' \in 0..MaxIdentities
        /\ skb_data_lineages' \in [Head -> Identity \cup {None}]
        /\ xdp_entry_states' \in [Context -> Identity \cup {None}]
    BY <2>2 DEF NextIdentity, xdp_entry_filed, Identity
  <2>7. named' \in [Identity -> SUBSET Packet]
    BY <2>1, <2>2
  <2>8. frame' \in [Context -> Frame \cup {None}]
    BY <2>2, <2>3
  <2> QED
    BY <1>25, <2>4, <2>5, <2>6, <2>7, <2>8 DEF XdpEntry
<1> QED
  BY <1>3, <1>7, <1>8, <1>9, <1>11, <1>12, <1>13, <1>16, <1>17, <1>18, <1>19, <1>20, <1>21,
     <1>22, <1>23, <1>24, <1>25, DriverAssumption DEF Next, Kernel, Calls, Frames

\* No call is in progress.
LEMMA HoldInit == Init => CallsHold /\ HooksHold
BY DEF Init, CallsHold, HooksHold, InCall

\* A call starts on an sk_buff nobody holds, and makes its sk_buff of a free one;
\* nobody frees what is held.
LEMMA HoldStep == LineageTypeOK /\ CallsHold /\ HooksHold /\ [Next]_vars => CallsHold'
<1> SUFFICES ASSUME LineageTypeOK, CallsHold, HooksHold, [Next]_vars PROVE CallsHold'
  OBVIOUS
<1>1. LineageTypeOK'
  BY TypeStep
<1>2. /\ skb \in [Skb -> Data \cup {None}] /\ skb' \in [Skb -> Data \cup {None}]
      /\ call \in [Context -> Call \cup {None}] /\ call' \in [Context -> Call \cup {None}]
      /\ None \notin Skb /\ None \notin Data /\ None \notin Call
  BY <1>1, NoneAssumption DEF LineageTypeOK
<1>3. /\ Live = {s \in Skb : skb[s] # None} /\ Live' = {s \in Skb : skb'[s] # None}
      /\ FreeSkbs = {s \in Skb : skb[s] = None}
  BY DEF Live, FreeSkbs
<1>4. /\ \A c \in Context : InCall(c) =>
           /\ CallHolds(c)
           /\ call[c].op \in {"clone", "copy", "replace"}
           /\ call[c].skb \in Skb /\ call[c].made \in Skb \cup {None}
           /\ call[c].identity \in Identity \cup {None}
      /\ \A c, d \in Context : InCall(c) /\ InCall(d) /\ c # d => CallsApart(c, d)
      /\ \A s \in Skb : s \notin Held =>
              \A c \in Context : InCall(c) => call[c].skb # s /\ call[c].made # s
  BY Parts DEF CallsHold
<1>5. ASSUME UNCHANGED call, \A s \in Live : s \notin Live' => s \notin Held
      PROVE  CallsHold'
  <2>1. \A c \in Context : InCall(c)' => CallHolds(c)'
    BY <1>2, <1>3, <1>4, <1>5 DEF CallHolds, InCall
  <2>2. \A c, d \in Context : InCall(c)' /\ InCall(d)' /\ c # d => CallsApart(c, d)'
    BY <1>4, <1>5 DEF CallsApart, InCall
  <2> QED
    BY <2>1, <2>2 DEF CallsHold
<1>6. ASSUME UNCHANGED <<skb, call>> PROVE CallsHold'
  BY <1>5, <1>6 DEF Live, FreeSkbs
\* The call of c is now on t and has made m; the others are as they were.
<1>7. ASSUME NEW c \in Context, InCall(c)', NEW t \in Skb, NEW m \in Skb \cup {None},
             call'[c].skb = t, call'[c].made = m,
             \A d \in Context \ {c} : call'[d] = call[d],
             \A d \in Context \ {c} : InCall(d) =>
               /\ t # call[d].skb /\ t # call[d].made
               /\ m # None => m # call[d].skb /\ m # call[d].made,
             CallHolds(c)',
             \A s \in Live : s \notin Live' =>
               \A d \in Context \ {c} : InCall(d) => call[d].skb # s /\ call[d].made # s
      PROVE  CallsHold'
  <2>1. ASSUME NEW d \in Context, d # c, InCall(d)'
        PROVE  CallHolds(d)' /\ CallsApart(c, d)' /\ CallsApart(d, c)'
    <3>1. InCall(d) /\ CallHolds(d) /\ call'[d] = call[d]
      BY <1>4, <1>7, <2>1 DEF InCall
    <3>2. CallHolds(d)'
      BY <1>2, <1>3, <1>7, <2>1, <3>1 DEF CallHolds
    <3>3. /\ t # call[d].skb /\ t # call[d].made
          /\ m # None => m # call[d].skb /\ m # call[d].made
      BY <1>7, <2>1, <3>1
    <3>4. call[d].skb \in Skb
      BY <1>4, <3>1
    <3> QED
      BY <1>2, <1>7, <3>1, <3>2, <3>3, <3>4 DEF CallsApart
  <2>2. ASSUME NEW d \in Context, NEW e \in Context, d # e, d # c, e # c, InCall(d)', InCall(e)'
        PROVE  CallsApart(d, e)'
    BY <1>4, <1>7, <2>2 DEF CallsApart, InCall
  <2> QED
    BY <1>7, <2>1, <2>2 DEF CallsHold
\* The call of c is over.
<1>8. ASSUME NEW c \in Context, UNCHANGED skb, call' = [call EXCEPT ![c] = None] PROVE CallsHold'
  <2>1. \A d \in Context : InCall(d)' => d # c /\ InCall(d) /\ call'[d] = call[d]
    BY <1>2, <1>8 DEF InCall
  <2>2. \A d \in Context : InCall(d)' => CallHolds(d)'
    BY <1>3, <1>4, <1>8, <2>1 DEF CallHolds
  <2>3. \A d, e \in Context : InCall(d)' /\ InCall(e)' /\ d # e => CallsApart(d, e)'
    BY <1>4, <2>1 DEF CallsApart
  <2> QED
    BY <2>2, <2>3 DEF CallsHold
\* A call starts on s.
<1>9. ASSUME NEW c \in Context, NEW s \in Live, s \notin Held, call[c] = None,
             UNCHANGED skb, NEW op \in {"clone", "copy", "replace"},
             NEW i \in Identity \cup {None},
             call' = [call EXCEPT ![c] = [op |-> op, skb |-> s, made |-> None, identity |-> i]]
      PROVE  CallsHold'
  <2>1. /\ call'[c] = [op |-> op, skb |-> s, made |-> None, identity |-> i]
        /\ \A d \in Context \ {c} : call'[d] = call[d]
    BY <1>2, <1>9
  <2>2. InCall(c)'
    <3>1. [op |-> op, skb |-> s, made |-> None, identity |-> i] \in Call
      BY <1>3 DEF Call
    <3> QED
      BY <1>2, <2>1, <3>1 DEF InCall
  <2>3. s \in Skb /\ s # None
    BY <1>2, <1>3
  <2>4. CallHolds(c)'
    BY <1>3, <1>9, <2>1, <2>3 DEF CallHolds
  <2>5. \A d \in Context \ {c} : InCall(d) => s # call[d].skb /\ s # call[d].made
    BY <1>4, <1>9, <2>3
  <2>6. Live' = Live
    BY <1>9 DEF Live, FreeSkbs
  <2> QED
    BY <1>7, <2>1, <2>2, <2>3, <2>4, <2>5, <2>6
\* A call makes s.
<1>10. ASSUME NEW c \in Context, InCall(c), call[c].op \in {"clone", "copy"}, NEW s \in FreeSkbs,
              NEW v, v \in Data, skb' = [skb EXCEPT ![s] = v], call' = [call EXCEPT ![c].made = s]
       PROVE  CallsHold'
  <2>1. call[c] \in Call /\ s \in Skb /\ s # None /\ s \notin Live
    BY <1>2, <1>3, <1>10 DEF InCall
  <2>2. /\ call'[c].op = call[c].op /\ call'[c].skb = call[c].skb /\ call'[c].made = s
        /\ \A d \in Context \ {c} : call'[d] = call[d]
    BY <1>2, <1>10, <2>1 DEF Call
  <2>3. Live' = Live \cup {s}
    BY <1>2, <1>3, <1>10, <2>1
  <2>4. InCall(c)' /\ CallHolds(c)'
    <3>1. InCall(c)'
      BY <1>2, <1>10, <2>1 DEF InCall, Call
    <3>2. CallHolds(c)
      BY <1>4, <1>10
    <3> QED
      BY <1>10, <2>1, <2>2, <2>3, <3>1, <3>2 DEF CallHolds
  <2>5. \A d \in Context \ {c} : InCall(d) =>
               /\ call[c].skb # call[d].skb /\ call[c].skb # call[d].made
               /\ s # call[d].skb /\ s # call[d].made
    BY <1>4, <1>10, <2>1 DEF CallsApart, CallHolds
  <2> QED
    BY <1>4, <1>7, <1>10, <2>1, <2>2, <2>3, <2>4, <2>5
<1>11. ASSUME NEW c \in Context, Hooks(c) PROVE CallsHold'
  BY <1>6, <1>11, HookSteps DEF kernelVars
<1>12. /\ \A a \in Anchor : EvictStackAnchor(a) => CallsHold'
       /\ \A s \in Skb : EvictSkbAnchor(s) => CallsHold'
  BY <1>6 DEF EvictStackAnchor, EvictSkbAnchor, kernelVars
<1>13. ASSUME NEW s \in Skb, Free(s) PROVE CallsHold'
  <2>1. s \notin Held /\ UNCHANGED call /\ \A t \in Live : t # s => t \in Live'
    BY <1>2, <1>3, <1>13 DEF Free
  <2> QED
    BY <1>5, <2>1
<1>14. ASSUME NEW s \in Skb, NEW h \in Head, Allocate(s, h) PROVE CallsHold'
  <2>1. UNCHANGED call /\ \A t \in Live : t \in Live'
    BY <1>2, <1>3, <1>14 DEF Allocate
  <2> QED
    BY <1>5, <2>1
<1>15. ASSUME NEW c \in Context, NEW s \in Skb, NEW op \in {"clone", "copy"},
              CloneEntry(c, s, op)
       PROVE  CallsHold'
  <2>1. tracked_skbs[s] \in Identity \cup {None}
    BY DEF LineageTypeOK
  <2> QED
    BY <1>9, <1>15, <2>1 DEF CloneEntry, Idle
<1>16. ASSUME NEW c \in Context, NEW s \in Skb, Clone(c, s) PROVE CallsHold'
  <2>1. skb[call[c].skb] \in Data
    BY <1>2, <1>3, <1>4, <1>16 DEF Clone, Making, Inside, InCall, CallHolds
  <2> QED
    BY <1>10, <1>16, <2>1 DEF Clone, Making, Inside, InCall
<1>17. ASSUME NEW c \in Context, NEW s \in Skb, NEW h \in Head, Copy(c, s, h) PROVE CallsHold'
  <2>1. PICK p \in Packet : skb' = [skb EXCEPT ![s] = [packet |-> p, head |-> h]]
    BY <1>17 DEF Copy
  <2>2. [packet |-> p, head |-> h] \in Data
    BY DEF Data
  <2> QED
    BY <1>10, <1>17, <2>1, <2>2 DEF Copy, Making, Inside, InCall
<1>18. ASSUME NEW c \in Context, CloneExit(c) PROVE CallsHold'
  BY <1>8, <1>18 DEF CloneExit
<1>19. ASSUME NEW c \in Context, NEW s \in Skb, ReplaceEntry(c, s) PROVE CallsHold'
  <2>1. tracked_skbs[s] \in Identity \cup {None}
    BY DEF LineageTypeOK
  <2> QED
    BY <1>9, <1>19, <2>1 DEF ReplaceEntry, Idle
<1>20. ASSUME NEW c \in Context, NEW s \in Skb, NEW h \in Head, Replace(c, s, h)
       PROVE  CallsHold'
  <2> DEFINE old == call[c].skb
             v == [packet |-> skb[old].packet, head |-> h]
  <2>1. /\ InCall(c) /\ call[c].op = "replace" /\ s \in FreeSkbs
        /\ skb' = [skb EXCEPT ![s] = v, ![old] = None]
        /\ call' = [call EXCEPT ![c].made = s, ![c].skb = s]
    BY <1>20 DEF Replace, Making, Inside, InCall
  <2>2. call[c] \in Call /\ s \in Skb /\ s # None /\ s \notin Live /\ old \in Live /\ s # old
    BY <1>2, <1>3, <1>4, <2>1 DEF InCall, CallHolds
  <2>3. v # None
    <3>1. v \in Data
      BY <1>2, <1>3, <2>2 DEF Data
    <3> QED
      BY <1>2, <3>1
  <2>4. Live' = (Live \ {old}) \cup {s}
    BY <1>2, <1>3, <2>1, <2>2, <2>3
  <2>5. /\ call'[c].op = "replace" /\ call'[c].skb = s /\ call'[c].made = s
        /\ \A d \in Context \ {c} : call'[d] = call[d]
    BY <1>2, <2>1, <2>2 DEF Call
  <2>6. InCall(c)' /\ CallHolds(c)'
    <3>1. InCall(c)'
      BY <1>2, <2>1, <2>2 DEF InCall, Call
    <3> QED
      BY <2>4, <2>5, <3>1 DEF CallHolds
  <2>7. \A d \in Context \ {c} : InCall(d) =>
               /\ s # call[d].skb /\ s # call[d].made
               /\ old # call[d].skb /\ old # call[d].made
    BY <1>4, <2>1, <2>2 DEF CallsApart, CallHolds
  <2> QED
    BY <1>7, <2>2, <2>4, <2>5, <2>6, <2>7
<1>21. ASSUME NEW c \in Context, ReplaceExit(c) PROVE CallsHold'
  BY <1>8, <1>21 DEF ReplaceExit
<1>22. ASSUME NEW c \in Context, XdpExit(c) PROVE CallsHold'
  <2>1. UNCHANGED call /\ \A t \in Live : t \in Live'
    BY <1>2, <1>3, <1>22 DEF XdpExit
  <2> QED
    BY <1>5, <2>1
<1>24. ASSUME NEW a \in Anchor, StackAssociated(a) PROVE CallsHold'
  BY <1>6, <1>24 DEF StackAssociated, kernelVars
<1>25. ASSUME NEW s \in Skb, EvictTracked(s) PROVE CallsHold'
  BY <1>6, <1>25 DEF EvictTracked, kernelVars
<1>26. ASSUME NEW h \in Head, EvictLineage(h) PROVE CallsHold'
  BY <1>6, <1>26 DEF EvictLineage, kernelVars
<1>27. ASSUME NEW c \in Context, NEW h \in Head, XdpEntry(c, h) PROVE CallsHold'
  BY <1>6, <1>27 DEF XdpEntry
<1>28. CASE UNCHANGED vars
  BY <1>6, <1>28 DEF vars, kernelVars
<1> QED
  BY <1>11, <1>12, <1>13, <1>14, <1>15, <1>16, <1>17, <1>18, <1>19, <1>20, <1>21, <1>22,
     <1>24, <1>25, <1>26, <1>27, <1>28, DriverAssumption DEF Next, Kernel, Calls, Frames

\* What a hook is on stays as it is until the hook is done: a context that goes on
\* with a call is in no hook, and has in hand what no other context has.
LEMMA HookStep ==
  LineageTypeOK /\ CallsHold /\ HooksHold /\ [Next]_vars =>
    /\ HooksHold'
    /\ \A c \in Context : hook[c] # None => skb'[hook[c].skb] = skb[hook[c].skb]
<1> SUFFICES ASSUME LineageTypeOK, CallsHold, HooksHold, [Next]_vars
             PROVE  /\ HooksHold'
                    /\ \A c \in Context : hook[c] # None => skb'[hook[c].skb] = skb[hook[c].skb]
  OBVIOUS
<1>1. /\ skb \in [Skb -> Data \cup {None}] /\ skb' \in [Skb -> Data \cup {None}]
      /\ call \in [Context -> Call \cup {None}]
      /\ hook \in [Context -> Hook \cup {None}]
      /\ None \notin Skb /\ None \notin Data /\ None \notin Call /\ None \notin Hook
      /\ None \notin Identity
  BY TypeStep, NoneAssumption DEF LineageTypeOK
<1>2. /\ Live = {s \in Skb : skb[s] # None} /\ Live' = {s \in Skb : skb'[s] # None}
      /\ FreeSkbs = {s \in Skb : skb[s] = None}
  BY DEF Live, FreeSkbs
<1>3. /\ \A c \in Context : hook[c] # None =>
           /\ hook[c].skb \in Live
           /\ hook[c].step = "filter" <=> hook[c].identity = None
           /\ \A d \in Context \ {c} :
                /\ InCall(d) => hook[c].skb # call[d].skb /\ hook[c].skb # call[d].made
                /\ hook[d] # None => hook[c].skb # hook[d].skb
      /\ \A s \in Skb : s \notin Held => \A c \in Context : hook[c] # None => hook[c].skb # s
      /\ \A c \in Context : InCall(c) => call[c] \in Call /\ call[c].skb \in Live
  BY Parts DEF HooksHold, CallsHold, CallHolds
<1> DEFINE Goal == /\ HooksHold'
                   /\ \A c \in Context : hook[c] # None => skb'[hook[c].skb] = skb[hook[c].skb]
\* Hooks stay, sk_buffs too except for some that no hook is on, and a call that
\* changes has sk_buffs that no hook is on.
<1>4. ASSUME UNCHANGED hook,
             \A c \in Context : hook[c] # None => skb'[hook[c].skb] = skb[hook[c].skb],
             \A c, d \in Context : hook[c] # None /\ d # c /\ call'[d] # None =>
               \/ call'[d] = call[d]
               \/ hook[c].skb # call'[d].skb /\ hook[c].skb # call'[d].made
      PROVE  Goal
  <2>1. ASSUME NEW c \in Context, hook'[c] # None, NEW d \in Context \ {c}, call'[d] # None
        PROVE  hook'[c].skb # call'[d].skb /\ hook'[c].skb # call'[d].made
    BY <1>3, <1>4, <2>1 DEF InCall
  <2>2. \A c \in Context : hook'[c] # None => hook'[c].skb \in Live'
    BY <1>2, <1>3, <1>4
  <2> QED
    BY <1>3, <1>4, <2>1, <2>2 DEF HooksHold, InCall
<1>5. ASSUME UNCHANGED <<skb, call, hook>> PROVE Goal
  BY <1>4, <1>5
\* The hook of c has come to r, or to its end.
<1>6. ASSUME NEW c \in Context, UNCHANGED <<skb, call>>, NEW r, hook' = [hook EXCEPT ![c] = r],
             \/ r = None
             \/ /\ r.skb \in Live /\ (r.step = "filter" <=> r.identity = None)
                /\ \A d \in Context \ {c} :
                     /\ InCall(d) => r.skb # call[d].skb /\ r.skb # call[d].made
                     /\ hook[d] # None => r.skb # hook[d].skb
      PROVE  Goal
  <2>1. hook'[c] = r /\ \A d \in Context \ {c} : hook'[d] = hook[d]
    BY <1>1, <1>6
  <2>2. Live' = Live
    BY <1>2, <1>6
  <2>3. ASSUME NEW d \in Context, hook'[d] # None, d # c
        PROVE  /\ hook'[d].skb \in Live'
               /\ hook'[d].step = "filter" <=> hook'[d].identity = None
               /\ \A e \in Context \ {d} :
                    /\ InCall(e)' => hook'[d].skb # call'[e].skb /\ hook'[d].skb # call'[e].made
                    /\ hook'[e] # None => hook'[d].skb # hook'[e].skb
    BY <1>3, <1>6, <2>1, <2>2, <2>3 DEF InCall
  <2>4. ASSUME hook'[c] # None
        PROVE  /\ hook'[c].skb \in Live'
               /\ hook'[c].step = "filter" <=> hook'[c].identity = None
               /\ \A e \in Context \ {c} :
                    /\ InCall(e)' => hook'[c].skb # call'[e].skb /\ hook'[c].skb # call'[e].made
                    /\ hook'[e] # None => hook'[c].skb # hook'[e].skb
    BY <1>6, <2>1, <2>2, <2>4 DEF InCall
  <2>5. HooksHold'
    BY <2>3, <2>4 DEF HooksHold
  <2> QED
    BY <1>6, <2>5
<1>7. ASSUME NEW c \in Context, hook[c] # None, UNCHANGED <<skb, call>>,
             NEW step, NEW i \in Identity, step # "filter", Moves(c, step, i)
      PROVE  Goal
  <2> DEFINE r == [hook[c] EXCEPT !.step = step, !.identity = i]
  <2>1. hook[c] \in Hook /\ r.skb = hook[c].skb /\ r.step = step /\ r.identity = i
    BY <1>1, <1>7 DEF Hook
  <2>2. hook' = [hook EXCEPT ![c] = r]
    BY <1>7 DEF Moves
  <2> HIDE DEF r
  <2> QED
    BY <1>1, <1>3, <1>6, <1>7, <2>1, <2>2
<1>8. ASSUME NEW c \in Context, Hooks(c) PROVE Goal
  <2>1. UNCHANGED <<skb, call>>
    BY <1>8, HookSteps DEF kernelVars
  <2>2. ASSUME NEW s \in Skb, Begin(c, s) PROVE Goal
    <3> DEFINE i == IF IsTracked(s) THEN None ELSE skb_data_lineages[skb[s].head]
               r == [step |-> IF i = None THEN "filter" ELSE "withdraw", skb |-> s, identity |-> i]
    <3>1. s \in Live /\ hook' = [hook EXCEPT ![c] = r]
      BY <2>2 DEF Begin
    <3>2. \A d \in Context \ {c} :
            /\ InCall(d) => s # call[d].skb /\ s # call[d].made
            /\ hook[d] # None => s # hook[d].skb
      BY <2>2 DEF Begin, HeldBy, InCall
    <3>3. r.skb = s /\ (r.step = "filter" <=> r.identity = None)
      OBVIOUS
    <3> HIDE DEF r
    <3>4. /\ r.skb \in Live
          /\ \A d \in Context \ {c} :
               /\ InCall(d) => r.skb # call[d].skb /\ r.skb # call[d].made
               /\ hook[d] # None => r.skb # hook[d].skb
      BY <3>1, <3>2, <3>3
    <3> QED
      BY <1>6, <2>1, <3>1, <3>3, <3>4
  <2>3. ASSUME hook' = [hook EXCEPT ![c] = None] PROVE Goal
    BY <1>6, <2>1, <2>3
  <2>4. ASSUME hook[c] # None, hook[c].step # "filter", NEW step, step # "filter",
               Moves(c, step, hook[c].identity)
        PROVE  Goal
    <3>1. hook[c].identity \in Identity
      BY <1>3, <2>4, Parts
    <3> QED
      BY <1>7, <2>1, <2>4, <3>1
  <2>5. ASSUME Withdraw(c) \/ FileTracked(c) PROVE Goal
    BY <2>4, <2>5 DEF Withdraw, FileTracked, In
  <2>6. ASSUME TraceTracked(c) PROVE Goal
    <3>1. hook[c] # None /\ tracked_skbs[hook[c].skb] \in Identity
      BY <1>2, <1>3, <2>6 DEF TraceTracked, In, IsTracked, LineageTypeOK
    <3> QED
      BY <1>7, <2>1, <2>6, <3>1 DEF TraceTracked
  <2>7. ASSUME TraceMatched(c) PROVE Goal
    BY <1>7, <2>1, <2>7 DEF TraceMatched, In
  <2>8. ASSUME NEW a \in Anchor \cup {None}, TraceFiltered(c) \/ Report(c, a) PROVE Goal
    BY <2>3, <2>8 DEF TraceFiltered, Report
  <2> QED
    BY <1>8, <2>2, <2>5, <2>6, <2>7, <2>8 DEF Hooks
<1>9. ASSUME NEW s \in Skb, Free(s) PROVE Goal
  <2>1. s \notin Held /\ UNCHANGED <<call, hook>> /\ skb' = [skb EXCEPT ![s] = None]
    BY <1>9 DEF Free
  <2> QED
    BY <1>1, <1>2, <1>3, <1>4, <2>1
\* Something is put into a free sk_buff.
<1>10. ASSUME NEW s \in FreeSkbs, NEW v, skb' = [skb EXCEPT ![s] = v], UNCHANGED hook
       PROVE  /\ \A c \in Context : hook[c] # None => skb'[hook[c].skb] = skb[hook[c].skb]
              /\ \A c \in Context : hook[c] # None => hook[c].skb # s
  BY <1>1, <1>2, <1>3, <1>10
<1>11. ASSUME NEW s \in Skb, NEW h \in Head, Allocate(s, h) PROVE Goal
  BY <1>4, <1>10, <1>11 DEF Allocate
\* The call of c has sk_buffs now that no hook of another context is on.
<1>12. ASSUME NEW c \in Context, UNCHANGED hook,
              \A d \in Context : hook[d] # None => skb'[hook[d].skb] = skb[hook[d].skb],
              \A d \in Context : d # c => call'[d] = call[d],
              \A d \in Context : d # c /\ hook[d] # None =>
                hook[d].skb # call'[c].skb /\ hook[d].skb # call'[c].made
       PROVE  Goal
  BY <1>4, <1>12
<1>13. ASSUME NEW c \in Context, NEW s \in Skb, s \notin Held, UNCHANGED <<hook, skb>>, NEW op, NEW i,
              call' = [call EXCEPT ![c] = [op |-> op, skb |-> s, made |-> None, identity |-> i]]
       PROVE  Goal
  <2>1. call'[c] = [op |-> op, skb |-> s, made |-> None, identity |-> i]
    BY <1>1, <1>13
  <2>2. \A d \in Context : hook[d] # None => hook[d].skb # s /\ hook[d].skb # None
    BY <1>1, <1>2, <1>3, <1>13
  <2>3. \A d \in Context : d # c => call'[d] = call[d]
    BY <1>1, <1>13
  <2> QED
    BY <1>12, <1>13, <2>1, <2>2, <2>3
<1>14. ASSUME NEW c \in Context, InCall(c), NEW s \in FreeSkbs, NEW v, UNCHANGED hook,
              skb' = [skb EXCEPT ![s] = v], call' = [call EXCEPT ![c].made = s]
       PROVE  Goal
  <2>1. call[c] \in Call /\ call'[c] = [call[c] EXCEPT !.made = s]
    BY <1>1, <1>3, <1>14
  <2>2. call'[c].skb = call[c].skb /\ call'[c].made = s
    BY <2>1 DEF Call
  <2>3. \A d \in Context : hook[d] # None => skb'[hook[d].skb] = skb[hook[d].skb] /\ hook[d].skb # s
    BY <1>10, <1>14
  <2>4. \A d \in Context : d # c /\ hook[d] # None => hook[d].skb # call[c].skb
    BY <1>3, <1>14
  <2>5. \A d \in Context : d # c => call'[d] = call[d]
    BY <1>1, <1>14
  <2> QED
    BY <1>12, <1>14, <2>2, <2>3, <2>4, <2>5
<1>15. ASSUME NEW c \in Context, UNCHANGED <<hook, skb>>, call' = [call EXCEPT ![c] = None] PROVE Goal
  <2>1. \A d \in Context : d # c => call'[d] = call[d]
    BY <1>1, <1>15
  <2>2. call'[c] = None
    BY <1>1, <1>15
  <2> QED
    BY <1>4, <1>15, <2>1, <2>2
<1>16. ASSUME NEW c \in Context, NEW s \in Skb, NEW op \in {"clone", "copy"},
              CloneEntry(c, s, op) \/ ReplaceEntry(c, s)
       PROVE  Goal
  BY <1>13, <1>16 DEF CloneEntry, ReplaceEntry
<1>17. ASSUME NEW c \in Context, NEW s \in Skb, Clone(c, s) PROVE Goal
  BY <1>14, <1>17 DEF Clone, Making, Inside, InCall
<1>18. ASSUME NEW c \in Context, NEW s \in Skb, NEW h \in Head, Copy(c, s, h) PROVE Goal
  <2>1. PICK v : skb' = [skb EXCEPT ![s] = v]
    BY <1>18 DEF Copy
  <2> QED
    BY <1>14, <1>18, <2>1 DEF Copy, Making, Inside, InCall
<1>19. ASSUME NEW c \in Context, CloneExit(c) \/ ReplaceExit(c) PROVE Goal
  BY <1>15, <1>19 DEF CloneExit, ReplaceExit
<1>20. ASSUME NEW c \in Context, NEW s \in Skb, NEW h \in Head, Replace(c, s, h) PROVE Goal
  <2> DEFINE old == call[c].skb
             v == [packet |-> skb[old].packet, head |-> h]
  <2>1. /\ InCall(c) /\ hook[c] = None /\ s \in FreeSkbs /\ UNCHANGED hook
        /\ skb' = [skb EXCEPT ![s] = v, ![old] = None]
        /\ call' = [call EXCEPT ![c].made = s, ![c].skb = s]
    BY <1>20 DEF Replace, Making, Inside, InCall
  <2>2. \A d \in Context : hook[d] # None => hook[d].skb # old /\ hook[d].skb # s
    BY <1>1, <1>2, <1>3, <2>1
  <2>3. \A d \in Context : hook[d] # None => skb'[hook[d].skb] = skb[hook[d].skb]
    <3> HIDE DEF v
    <3> QED
      BY <1>1, <1>2, <1>3, <2>1, <2>2
  <2>4. call[c] \in Call /\ call'[c] = [call[c] EXCEPT !.made = s, !.skb = s]
    BY <1>1, <1>3, <2>1
  <2>5. call'[c].skb = s /\ call'[c].made = s
    BY <2>4 DEF Call
  <2>6. \A d \in Context : d # c => call'[d] = call[d]
    BY <1>1, <2>1
  <2>7. \A d \in Context : d # c /\ hook[d] # None =>
          hook[d].skb # call'[c].skb /\ hook[d].skb # call'[c].made
    BY <2>2, <2>5
  <2> HIDE DEF v
  <2> QED
    BY <1>12, <2>1, <2>3, <2>6, <2>7
<1>21. ASSUME NEW c \in Context, Frames(c) PROVE Goal
  BY <1>4, <1>5, <1>10, <1>21 DEF Frames, XdpExit, XdpEntry
<1>22. CASE Kernel
  BY <1>5, <1>9, <1>11, <1>22
     DEF Kernel, EvictTracked, EvictLineage, EvictStackAnchor, EvictSkbAnchor, StackAssociated,
         kernelVars
<1>23. CASE UNCHANGED vars
  BY <1>5, <1>23 DEF vars, kernelVars
<1> QED
  BY <1>8, <1>16, <1>17, <1>18, <1>19, <1>20, <1>21, <1>22, <1>23, DriverAssumption DEF Next, Calls

\* Identities, addresses, calls, hooks and frames keep their types, for any
\* addresses, contexts and stacks; a call or a hook in progress never holds a freed
\* sk_buff.
THEOREM LineageTypeCorrect == Spec => [](LineageTypeOK /\ CallsHold /\ HooksHold)
BY TypeInit, TypeStep, HoldInit, HoldStep, HookStep, PTL DEF Spec

\* What every other invariant starts from.
BaseInv == LineageTypeOK /\ CallsHold /\ HooksHold

\* The types and what is held are preserved together.
LEMMA BaseInvStep == BaseInv /\ [Next]_vars => BaseInv'
BY TypeStep, HoldStep, HookStep DEF BaseInv

-----------------------------------------------------------------------------
\* XDP entries and exits.

\* Entry files what it reports, exit withdraws what it finds, and nothing else
\* touches either.
LEMMA XdpStep ==
  LineageTypeOK /\ XdpExitPairsWithEntry /\ [Next]_vars => XdpExitPairsWithEntry'
<1> SUFFICES ASSUME LineageTypeOK, XdpExitPairsWithEntry, [Next]_vars
             PROVE  XdpExitPairsWithEntry'
  OBVIOUS
<1>1. /\ frame \in [Context -> Frame \cup {None}] /\ None \notin Frame
      /\ xdp_entry_states \in [Context -> Identity \cup {None}]
  BY NoneAssumption DEF LineageTypeOK
<1>2. \A c \in Context : xdp_entry_states[c] = IF frame[c] = None THEN None ELSE frame[c].entry
  BY DEF XdpExitPairsWithEntry
<1>3. ASSUME UNCHANGED <<frame, xdp_entry_states>> PROVE XdpExitPairsWithEntry'
  BY <1>2, <1>3 DEF XdpExitPairsWithEntry
<1>4. CASE UNCHANGED vars
  BY <1>3, <1>4 DEF vars, kernelVars
<1>5. ASSUME NEW c \in Context, Hooks(c) PROVE XdpExitPairsWithEntry'
  BY <1>3, <1>5, HookSteps DEF kernelVars
<1>6. CASE Kernel
  BY <1>3, <1>6 DEF Kernel, Free, Allocate, EvictTracked, EvictLineage, EvictStackAnchor,
     EvictSkbAnchor, StackAssociated, kernelVars
<1>7. ASSUME NEW c \in Context, Calls(c) PROVE XdpExitPairsWithEntry'
  BY <1>3, <1>7 DEF Calls, CloneEntry, Clone, Copy, CloneExit, ReplaceEntry, Replace, ReplaceExit
<1>8. ASSUME NEW c \in Context, XdpExit(c) PROVE XdpExitPairsWithEntry'
  BY <1>1, <1>2, <1>8 DEF XdpExit, xdp_exit_filed, XdpExitPairsWithEntry
<1>9. ASSUME NEW c \in Context, NEW h \in Head, XdpEntry(c, h) PROVE XdpExitPairsWithEntry'
  <2> DEFINE d == [packet |-> packets + 1, head |-> h]
  <2>1. d \in Data
    BY <1>9 DEF XdpEntry, Data
  <2>2. PICK i \in Identity \cup {None} :
          /\ xdp_entry_filed(c, i)
          /\ frame' = [frame EXCEPT ![c] = [data |-> d, entry |-> i]]
    BY <1>9 DEF XdpEntry
  <2>3. [data |-> d, entry |-> i] \in Frame
    BY <2>1 DEF Frame
  <2>4. frame[c] = None
    BY <1>9 DEF XdpEntry
  <2> HIDE DEF d
  <2> QED
    BY <1>1, <1>2, <2>2, <2>3, <2>4 DEF xdp_entry_filed, XdpExitPairsWithEntry
<1> QED
  BY <1>4, <1>5, <1>6, <1>7, <1>8, <1>9, DriverAssumption DEF Next, Frames

\* An XDP exit is reported exactly when its entry was, and with its identity,
\* whatever runs in between and however often the context's address comes again.
THEOREM XdpPairs == Spec => []XdpExitPairsWithEntry
<1>1. Init => XdpExitPairsWithEntry
  BY DEF Init, XdpExitPairsWithEntry
<1> QED
  BY <1>1, XdpStep, LineageTypeCorrect, PTL DEF Spec

-----------------------------------------------------------------------------
\* Stack anchors.

\* A stack that moves on forgets the packet it had, and a packet that is freed
\* takes its anchor along; only an evicted entry loosens an anchor.
LEMMA AnchorStep == BaseInv /\ AnchorsLeadToLiveSkbs /\ [Next]_vars => AnchorsLeadToLiveSkbs'
<1> SUFFICES ASSUME BaseInv, AnchorsLeadToLiveSkbs, [Next]_vars PROVE AnchorsLeadToLiveSkbs'
  OBVIOUS
<1>1. /\ stack_anchor_skb \in [Anchor -> Skb \cup {None}]
      /\ stack_anchor_skb' \in [Anchor -> Skb \cup {None}]
      /\ skb_stack_anchor \in [Skb -> Anchor \cup {None}]
      /\ skb \in [Skb -> Data \cup {None}] /\ skb' \in [Skb -> Data \cup {None}]
      /\ None \notin Skb /\ None \notin Anchor /\ None \notin Data
  BY BaseInvStep, NoneAssumption DEF BaseInv, LineageTypeOK
<1>2. /\ Live = {s \in Skb : skb[s] # None} /\ Live' = {s \in Skb : skb'[s] # None}
      /\ FreeSkbs = {s \in Skb : skb[s] = None}
  BY DEF Live, FreeSkbs
<1>3. \A a \in Anchor \ loose : stack_anchor_skb[a] # None =>
        stack_anchor_skb[a] \in Live /\ skb_stack_anchor[stack_anchor_skb[a]] = a
  BY DEF AnchorsLeadToLiveSkbs, Attributed
<1> SUFFICES ASSUME NEW a \in Anchor, a \notin loose', stack_anchor_skb'[a] # None
             PROVE  /\ stack_anchor_skb'[a] \in Live'
                    /\ skb_stack_anchor'[stack_anchor_skb'[a]] = a
  BY DEF AnchorsLeadToLiveSkbs, Attributed
<1> DEFINE Goal == /\ stack_anchor_skb'[a] \in Live'
                   /\ skb_stack_anchor'[stack_anchor_skb'[a]] = a
<1>4. ASSUME UNCHANGED anchorVars, \A s \in Live : s \in Live' PROVE Goal
  BY <1>3, <1>4 DEF anchorVars
<1>5. ASSUME NEW s \in Live, NEW b \in Anchor \cup {None}, Handles(s, b), UNCHANGED skb
      PROVE  Goal
  <2>1. CASE b = None
    BY <1>2, <1>4, <1>5, <2>1 DEF Handles
  <2>2. CASE b # None
    <3>1. /\ b \in Anchor /\ s \in Skb /\ Live' = Live
          /\ stack_anchor_skb'[a] = IF a = b THEN s ELSE IF a = skb_stack_anchor[s] THEN None
                                    ELSE stack_anchor_skb[a]
          /\ skb_stack_anchor' = [skb_stack_anchor EXCEPT ![s] = b]
          /\ loose' = loose \ {b, skb_stack_anchor[s]}
      BY <1>2, <1>5, <2>2 DEF Handles, associate_stack
    <3>2. CASE a = b
      BY <1>1, <3>1, <3>2
    <3>3. CASE a # b
      <4>1. a # skb_stack_anchor[s] /\ stack_anchor_skb'[a] = stack_anchor_skb[a] /\ a \notin loose
        BY <3>1, <3>3
      <4>2. stack_anchor_skb[a] \in Live /\ skb_stack_anchor[stack_anchor_skb[a]] = a
        BY <1>3, <4>1
      <4> QED
        BY <1>1, <1>2, <3>1, <4>1, <4>2
    <3> QED
      BY <3>2, <3>3
  <2> QED
    BY <2>1, <2>2
<1>6. ASSUME NEW s \in Skb, lifetime_end(s), \A t \in Live : t # s => t \in Live' PROVE Goal
  <2>1. /\ stack_anchor_skb'[a] = IF a = skb_stack_anchor[s] THEN None ELSE stack_anchor_skb[a]
        /\ skb_stack_anchor' = [skb_stack_anchor EXCEPT ![s] = None]
        /\ loose' = loose \ {skb_stack_anchor[s]}
    BY <1>6 DEF lifetime_end
  <2>2. a # skb_stack_anchor[s] /\ stack_anchor_skb'[a] = stack_anchor_skb[a] /\ a \notin loose
    BY <2>1
  <2>3. stack_anchor_skb[a] \in Live /\ skb_stack_anchor[stack_anchor_skb[a]] = a
    BY <1>3, <2>2
  <2> QED
    BY <1>1, <1>2, <1>6, <2>1, <2>2, <2>3
<1>7. CASE UNCHANGED vars
  BY <1>2, <1>4, <1>7 DEF vars, kernelVars, anchorVars
<1>8. ASSUME UNCHANGED anchorVars, UNCHANGED skb PROVE Goal
  BY <1>2, <1>4, <1>8
<1>9. ASSUME NEW c \in Context, Hooks(c) PROVE Goal
  <2>1. UNCHANGED skb
    BY <1>9, HookSteps DEF kernelVars
  <2>2. ASSUME NEW b \in Anchor \cup {None}, Report(c, b) PROVE Goal
    <3>1. hook[c].skb \in Live /\ Handles(hook[c].skb, b)
      BY <2>2 DEF Report, In, BaseInv, HooksHold
    <3> QED
      BY <1>5, <2>1, <3>1
  <2> QED
    BY <1>8, <1>9, <2>1, <2>2
       DEF Hooks, Begin, Withdraw, TraceTracked, TraceFiltered, TraceMatched, FileTracked
<1>10. ASSUME NEW s \in Skb, Free(s) PROVE Goal
  <2>1. \A t \in Live : t # s => t \in Live'
    BY <1>1, <1>2, <1>10 DEF Free
  <2> QED
    BY <1>6, <1>10, <2>1 DEF Free
<1>11. ASSUME NEW c \in Context, NEW s \in Skb, NEW h \in Head, Replace(c, s, h) PROVE Goal
  <2> DEFINE old == call[c].skb
             v == [packet |-> skb[old].packet, head |-> h]
  <2>1. old \in Live /\ s \in FreeSkbs /\ skb' = [skb EXCEPT ![s] = v, ![old] = None]
        /\ lifetime_end(old)
    BY <1>11 DEF Replace, Making, Inside, BaseInv, CallsHold, InCall, CallHolds
  <2>2. \A t \in Live : t # old => t \in Live'
    BY <1>1, <1>2, <2>1
  <2> QED
    BY <1>2, <1>6, <2>1, <2>2
<1>12. ASSUME NEW c \in Context, Calls(c),
              ~\E s \in Skb, h \in Head : Replace(c, s, h)
       PROVE  Goal
  <2>1. UNCHANGED anchorVars
    BY <1>12 DEF Calls, CloneEntry, Clone, Copy, CloneExit, ReplaceEntry, ReplaceExit
  <2>2. UNCHANGED skb \/ \E s \in FreeSkbs : \E v : skb' = [skb EXCEPT ![s] = v]
    BY <1>12 DEF Calls, CloneEntry, Clone, Copy, CloneExit, ReplaceEntry, ReplaceExit
  <2>3. \A t \in Live : t \in Live'
    BY <1>1, <1>2, <2>2
  <2> QED
    BY <1>4, <2>1, <2>3
<1>13. ASSUME NEW c \in Context, Frames(c) PROVE Goal
  <2>1. UNCHANGED anchorVars
    BY <1>13 DEF Frames, XdpExit, XdpEntry
  <2>2. UNCHANGED skb \/ \E s \in FreeSkbs : \E v : skb' = [skb EXCEPT ![s] = v]
    BY <1>13 DEF Frames, XdpExit, XdpEntry
  <2>3. \A t \in Live : t \in Live'
    BY <1>1, <1>2, <2>2
  <2> QED
    BY <1>4, <2>1, <2>3
<1>14. ASSUME NEW s \in Skb, NEW h \in Head, Allocate(s, h) PROVE Goal
  BY <1>1, <1>2, <1>4, <1>14 DEF Allocate
<1>15. ASSUME NEW b \in Anchor, EvictStackAnchor(b) PROVE Goal
  <2>1. /\ stack_anchor_skb' = [stack_anchor_skb EXCEPT ![b] = None]
        /\ loose' = loose \ {b} /\ UNCHANGED <<skb, skb_stack_anchor>>
    BY <1>15 DEF EvictStackAnchor, kernelVars
  <2>2. a # b
    BY <1>1, <2>1
  <2> QED
    BY <1>1, <1>2, <1>3, <2>1, <2>2
<1>16. ASSUME NEW s \in Skb, EvictSkbAnchor(s) PROVE Goal
  <2>1. /\ skb_stack_anchor' = [skb_stack_anchor EXCEPT ![s] = None]
        /\ loose' = loose \cup {b \in Anchor : stack_anchor_skb[b] = s}
        /\ UNCHANGED <<skb, stack_anchor_skb>>
    BY <1>16 DEF EvictSkbAnchor, kernelVars
  <2>2. a \notin loose /\ stack_anchor_skb[a] # s
    BY <2>1
  <2> QED
    BY <1>1, <1>2, <1>3, <2>1, <2>2
<1>17. ASSUME NEW b \in Anchor, StackAssociated(b) PROVE Goal
  BY <1>8, <1>17 DEF StackAssociated, kernelVars
<1>18. ASSUME NEW s \in Skb, EvictTracked(s) PROVE Goal
  BY <1>8, <1>18 DEF EvictTracked, kernelVars
<1>19. ASSUME NEW h \in Head, EvictLineage(h) PROVE Goal
  BY <1>8, <1>19 DEF EvictLineage, kernelVars
<1> QED
  BY <1>7, <1>9, <1>10, <1>11, <1>12, <1>13, <1>14, <1>15, <1>16, <1>17, <1>18, <1>19,
     DriverAssumption
     DEF Next, Kernel, Calls

\* A helper's observation is of the live sk_buff its stack handled last: the anchor
\* of a freed or replaced sk_buff never leads to the packet that has its address
\* next, for any addresses, stacks and contexts, except where the kernel evicted
\* the entry that says which anchor to delete.
THEOREM AnchorsLead == Spec => []AnchorsLeadToLiveSkbs
<1>1. Init => BaseInv /\ AnchorsLeadToLiveSkbs
  BY TypeInit, HoldInit DEF Init, BaseInv, AnchorsLeadToLiveSkbs, Attributed
<1> QED
  BY <1>1, BaseInvStep, AnchorStep, PTL DEF Spec

-----------------------------------------------------------------------------
\* Where packets are.

\* Buffers are shared by clones of one packet only, and a frame's by nobody.
HeadsApart ==
  /\ \A s, t \in Live : skb[s].head = skb[t].head => skb[s].packet = skb[t].packet
  /\ \A c \in Context, s \in Live : frame[c] # None => frame[c].data.head # skb[s].head
  /\ \A c, d \in Context :
       frame[c] # None /\ frame[d] # None /\ c # d => frame[c].data.head # frame[d].data.head

\* No identity is filed under a free address.
TrackedLive == \A s \in Skb : tracked_skbs[s] # None => s \in Live

\* What a call has made is of the packet it was called on: a clone on the same
\* buffer, and the copy of an sk_buff without identity a packet of its own.
MadeAlike(c) ==
  call[c].made # None =>
    /\ call[c].op = "clone" => skb[call[c].made] = skb[call[c].skb]
    /\ call[c].op = "copy" /\ call[c].identity # None =>
         skb[call[c].made].packet = skb[call[c].skb].packet

CallsMakeAlike == \A c \in Context : InCall(c) => MadeAlike(c)

\* The replacement filed under a pid_tgid is of a call in progress.
PendingIsCall ==
  \A k \in Pid :
    LET r == pending_skb_replacements[k] IN
    r # None => /\ InCall(r.slot)
                /\ call[r.slot].op = "replace"
                /\ call[r.slot].identity = r.identity
                /\ Key[r.slot] = k

PlaceInv == BaseInv /\ HeadsApart /\ TrackedLive /\ CallsMakeAlike /\ PendingIsCall

\* What the proofs about steps use of it.
LEMMA PlaceParts ==
  ASSUME BaseInv
  PROVE  /\ None \notin Skb /\ None \notin Data /\ None \notin Call /\ None \notin Frame
         /\ None \notin Identity /\ None \notin Replacement
         /\ skb \in [Skb -> Data \cup {None}] /\ frame \in [Context -> Frame \cup {None}]
         /\ call \in [Context -> Call \cup {None}]
         /\ tracked_skbs \in [Skb -> Identity \cup {None}]
         /\ skb_data_lineages \in [Head -> Identity \cup {None}]
         /\ Live = {s \in Skb : skb[s] # None}
         /\ FreeSkbs = {s \in Skb : skb[s] = None}
         /\ \A h \in Head : h \in FreeHeads <=>
              /\ \A s \in Live : skb[s].head # h
              /\ \A c \in Context : frame[c] # None => frame[c].data.head # h
         /\ \A s \in Live : skb[s] \in Data
         /\ \A c \in Context : frame[c] # None => frame[c] \in Frame /\ frame[c].data \in Data
         /\ \A c \in Context : InCall(c) =>
              /\ call[c] \in Call /\ CallHolds(c)
              /\ call[c].skb \in Live
         /\ \A c, d \in Context : InCall(c) /\ InCall(d) /\ c # d => CallsApart(c, d)
         /\ \A s \in Skb : s \notin Held =>
              \A c \in Context : InCall(c) => call[c].skb # s /\ call[c].made # s
         /\ \A c \in Context : hook[c] # None =>
              hook[c].skb \in Live /\ hook[c].identity \in Identity \cup {None}
<1>1. LineageTypeOK /\ CallsHold /\ HooksHold
  BY DEF BaseInv
<1>2. /\ None \notin Skb /\ None \notin Data /\ None \notin Call /\ None \notin Frame
      /\ None \notin Identity /\ None \notin Replacement
  BY NoneAssumption
<1>3. /\ skb \in [Skb -> Data \cup {None}] /\ frame \in [Context -> Frame \cup {None}]
      /\ call \in [Context -> Call \cup {None}]
      /\ tracked_skbs \in [Skb -> Identity \cup {None}]
      /\ skb_data_lineages \in [Head -> Identity \cup {None}]
  BY <1>1 DEF LineageTypeOK
<1>4. Live = {s \in Skb : skb[s] # None} /\ FreeSkbs = {s \in Skb : skb[s] = None}
  BY DEF Live, FreeSkbs
<1>5. \A h \in Head : h \in FreeHeads <=>
              /\ \A s \in Live : skb[s].head # h
              /\ \A c \in Context : frame[c] # None => frame[c].data.head # h
  BY <1>4 DEF FreeHeads, InUse
<1>6. \A c \in Context : InCall(c) =>
              /\ call[c] \in Call /\ CallHolds(c)
              /\ call[c].skb \in Live
  BY <1>1, Parts DEF CallsHold, CallHolds
<1>7. \A c \in Context : hook[c] # None =>
              hook[c].skb \in Live /\ hook[c].identity \in Identity \cup {None}
  BY <1>1, Parts DEF HooksHold
<1> QED
  BY <1>1, <1>2, <1>3, <1>4, <1>5, <1>6, <1>7, Parts DEF CallsHold

\* A buffer is handed out only when nothing is on it.
LEMMA HeadsApartStep == BaseInv /\ HeadsApart /\ [Next]_vars => HeadsApart'
<1> SUFFICES ASSUME BaseInv, HeadsApart, [Next]_vars PROVE HeadsApart'
  OBVIOUS
<1>1. /\ None \notin Skb /\ None \notin Data /\ None \notin Frame
      /\ skb \in [Skb -> Data \cup {None}] /\ frame \in [Context -> Frame \cup {None}]
      /\ Live = {s \in Skb : skb[s] # None}
      /\ FreeSkbs = {s \in Skb : skb[s] = None}
      /\ \A h \in Head : h \in FreeHeads <=>
              /\ \A s \in Live : skb[s].head # h
              /\ \A c \in Context : frame[c] # None => frame[c].data.head # h
      /\ \A s \in Live : skb[s] \in Data
      /\ \A c \in Context : frame[c] # None => frame[c] \in Frame /\ frame[c].data \in Data
      /\ \A c \in Context : InCall(c) => call[c].skb \in Live
  BY PlaceParts
<1>2. Live' = {s \in Skb : skb'[s] # None}
  BY DEF Live, FreeSkbs
<1>3. /\ \A s, t \in Live : skb[s].head = skb[t].head => skb[s].packet = skb[t].packet
      /\ \A c \in Context, s \in Live : frame[c] # None => frame[c].data.head # skb[s].head
      /\ \A c, d \in Context :
           frame[c] # None /\ frame[d] # None /\ c # d => frame[c].data.head # frame[d].data.head
  BY DEF HeadsApart
<1>4. ASSUME UNCHANGED <<skb, frame>> PROVE HeadsApart'
  BY <1>1, <1>2, <1>3, <1>4 DEF HeadsApart
<1>5. ASSUME UNCHANGED frame,
             \A s \in Live' : s \in Live /\ skb'[s] = skb[s]
      PROVE  HeadsApart'
  BY <1>3, <1>5 DEF HeadsApart
\* s is new, on a free buffer; others may have gone.
<1>6. ASSUME UNCHANGED frame, NEW s \in Skb, NEW p, NEW h \in FreeHeads,
             skb'[s] = [packet |-> p, head |-> h],
             \A t \in Live' : t # s => t \in Live /\ skb'[t] = skb[t]
      PROVE  HeadsApart'
  <2>1. h \in Head /\ (\A t \in Live : skb[t].head # h)
        /\ \A c \in Context : frame[c] # None => frame[c].data.head # h
    BY <1>1, <1>6 DEF FreeHeads
  <2>2. skb'[s].head = h
    BY <1>6
  <2> QED
    BY <1>3, <1>6, <2>1, <2>2 DEF HeadsApart
\* s is new, alike t.
<1>7. ASSUME UNCHANGED frame, NEW s \in Skb, NEW t \in Live, s \notin Live,
             skb' = [skb EXCEPT ![s] = skb[t]]
      PROVE  HeadsApart'
  <2>1. /\ skb'[s] = skb[t]
        /\ \A u \in Live' : u # s => u \in Live /\ skb'[u] = skb[u]
    BY <1>1, <1>2, <1>7
  <2> QED
    BY <1>3, <1>7, <2>1 DEF HeadsApart
<1>8. CASE UNCHANGED vars
  BY <1>4, <1>8 DEF vars, kernelVars
<1>9. ASSUME NEW c \in Context, Hooks(c) PROVE HeadsApart'
  BY <1>4, <1>9, HookSteps DEF kernelVars
<1>10. ASSUME NEW s \in Skb, Free(s) PROVE HeadsApart'
  BY <1>1, <1>2, <1>5, <1>10 DEF Free
<1>11. ASSUME NEW s \in Skb, NEW h \in Head, Allocate(s, h) PROVE HeadsApart'
  <2>1. /\ h \in FreeHeads /\ s \in FreeSkbs /\ UNCHANGED frame
        /\ skb' = [skb EXCEPT ![s] = [packet |-> packets', head |-> h]]
    BY <1>11 DEF Allocate
  <2>2. /\ skb'[s] = [packet |-> packets', head |-> h]
        /\ \A t \in Live' : t # s => t \in Live /\ skb'[t] = skb[t]
    BY <1>1, <1>2, <2>1
  <2> QED
    BY <1>6, <2>1, <2>2
<1>12. ASSUME NEW c \in Context, NEW s \in Skb, Clone(c, s) PROVE HeadsApart'
  BY <1>1, <1>7, <1>12 DEF Clone, Making, Inside, InCall
<1>13. ASSUME NEW c \in Context, NEW s \in Skb, NEW h \in Head, Copy(c, s, h) PROVE HeadsApart'
  <2>1. PICK p \in Packet : /\ h \in FreeHeads /\ s \in FreeSkbs /\ UNCHANGED frame
                            /\ skb' = [skb EXCEPT ![s] = [packet |-> p, head |-> h]]
    BY <1>13 DEF Copy
  <2>2. /\ skb'[s] = [packet |-> p, head |-> h]
        /\ \A t \in Live' : t # s => t \in Live /\ skb'[t] = skb[t]
    BY <1>1, <1>2, <2>1
  <2> QED
    BY <1>6, <2>1, <2>2
<1>14. ASSUME NEW c \in Context, NEW s \in Skb, NEW h \in Head, Replace(c, s, h)
       PROVE  HeadsApart'
  <2> DEFINE old == call[c].skb
             p == skb[old].packet
  <2>1. /\ h \in FreeHeads /\ s \in FreeSkbs /\ UNCHANGED frame /\ old \in Live
        /\ skb' = [skb EXCEPT ![s] = [packet |-> p, head |-> h], ![old] = None]
    BY <1>1, <1>14 DEF Replace, Making, Inside, InCall
  <2> HIDE DEF p, old
  <2>2. /\ skb'[s] = [packet |-> p, head |-> h]
        /\ \A t \in Live' : t # s => t \in Live /\ skb'[t] = skb[t]
    BY <1>1, <1>2, <2>1
  <2> QED
    BY <1>6, <2>1, <2>2
<1>15. ASSUME NEW c \in Context, XdpExit(c) PROVE HeadsApart'
  <2>1. /\ frame[c] # None
        /\ \A d \in Context : frame'[d] # None => d # c /\ frame'[d] = frame[d]
        /\ UNCHANGED skb \/ \E s \in FreeSkbs : skb' = [skb EXCEPT ![s] = frame[c].data]
    BY <1>1, <1>15 DEF XdpExit
  <2>2. CASE UNCHANGED skb
    BY <1>1, <1>2, <1>3, <2>1, <2>2 DEF HeadsApart
  <2>3. ASSUME NEW s \in FreeSkbs, skb' = [skb EXCEPT ![s] = frame[c].data] PROVE HeadsApart'
    <3>1. /\ skb'[s] = frame[c].data
          /\ \A u \in Live' : u # s => u \in Live /\ skb'[u] = skb[u]
      BY <1>1, <1>2, <2>3
    <3> QED
      BY <1>3, <2>1, <3>1 DEF HeadsApart
  <2> QED
    BY <2>1, <2>2, <2>3
<1>16. ASSUME NEW c \in Context, NEW h \in Head, XdpEntry(c, h) PROVE HeadsApart'
  <2>1. PICK i : frame' = [frame EXCEPT
          ![c] = [data |-> [packet |-> packets + 1, head |-> h], entry |-> i]]
    BY <1>16 DEF XdpEntry
  <2>2. /\ UNCHANGED skb /\ h \in FreeHeads
        /\ frame'[c].data.head = h
        /\ \A d \in Context : d # c => frame'[d] = frame[d]
    BY <1>1, <1>16, <2>1 DEF XdpEntry
  <2>3. /\ \A t \in Live : skb[t].head # h
        /\ \A d \in Context : frame[d] # None => frame[d].data.head # h
    BY <1>1, <2>2
  <2> QED
    BY <1>1, <1>2, <1>3, <2>2, <2>3 DEF HeadsApart
<1>17. CASE \/ \E s \in Skb : EvictTracked(s)
            \/ \E h \in Head : EvictLineage(h)
            \/ \E s \in Skb : EvictSkbAnchor(s)
            \/ \E a \in Anchor : EvictStackAnchor(a) \/ StackAssociated(a)
  BY <1>4, <1>17 DEF EvictTracked, EvictLineage, EvictSkbAnchor, EvictStackAnchor,
     StackAssociated, kernelVars
<1>18. ASSUME NEW c \in Context, NEW s \in Skb,
              \/ \E op \in {"clone", "copy"} : CloneEntry(c, s, op)
              \/ CloneExit(c) \/ ReplaceEntry(c, s) \/ ReplaceExit(c)
       PROVE  HeadsApart'
  BY <1>4, <1>18 DEF CloneEntry, CloneExit, ReplaceEntry, ReplaceExit
<1>19. ASSUME NEW c \in Context, CloneExit(c) \/ ReplaceExit(c) PROVE HeadsApart'
  BY <1>4, <1>19 DEF CloneExit, ReplaceExit
<1> QED
  BY <1>8, <1>9, <1>10, <1>11, <1>12, <1>13, <1>14, <1>15, <1>16, <1>17, <1>18, <1>19,
     DriverAssumption
     DEF Next, Kernel, Calls, Frames

\* A hook files under live addresses, and a free address is forgotten.
LEMMA TrackedLiveStep ==
  BaseInv /\ TrackedLive /\ PendingIsCall /\ [Next]_vars => TrackedLive'
<1> SUFFICES ASSUME BaseInv, TrackedLive, PendingIsCall, [Next]_vars PROVE TrackedLive'
  OBVIOUS
<1>1. /\ None \notin Skb /\ None \notin Data /\ None \notin Identity
      /\ skb \in [Skb -> Data \cup {None}] /\ skb' \in [Skb -> Data \cup {None}]
      /\ tracked_skbs \in [Skb -> Identity \cup {None}]
      /\ Live = {s \in Skb : skb[s] # None} /\ Live' = {s \in Skb : skb'[s] # None}
      /\ FreeSkbs = {s \in Skb : skb[s] = None}
      /\ \A c \in Context : InCall(c) => call[c].skb \in Live /\ CallHolds(c)
  BY PlaceParts, BaseInvStep DEF BaseInv, LineageTypeOK, Live, FreeSkbs
<1>2. \A s \in Skb : tracked_skbs[s] # None => s \in Live
  BY DEF TrackedLive
<1>3. ASSUME UNCHANGED tracked_skbs, \A s \in Live : s \in Live' PROVE TrackedLive'
  BY <1>2, <1>3 DEF TrackedLive
<1>4. ASSUME UNCHANGED skb, NEW s \in Live, NEW i, tracked_skbs' = [tracked_skbs EXCEPT ![s] = i]
      PROVE  TrackedLive'
  BY <1>1, <1>2, <1>4 DEF TrackedLive
<1>5. ASSUME UNCHANGED <<skb, tracked_skbs>> PROVE TrackedLive'
  BY <1>1, <1>2, <1>5 DEF TrackedLive
<1>6. ASSUME NEW s \in Skb, \A t \in Live : t # s => t \in Live', forget_tracked(s) PROVE TrackedLive'
  BY <1>1, <1>2, <1>6 DEF TrackedLive, forget_tracked
<1>7. CASE UNCHANGED vars
  BY <1>5, <1>7 DEF vars, kernelVars, lineageVars
<1>8. ASSUME NEW c \in Context, Withdraw(c) \/ FileTracked(c) PROVE TrackedLive'
  <2>1. hook[c].skb \in Live
    BY <1>8, PlaceParts DEF Withdraw, FileTracked, In
  <2> QED
    BY <1>4, <1>8, <2>1 DEF Withdraw, FileTracked, kernelVars
<1>9. ASSUME NEW c \in Context, Hooks(c) PROVE TrackedLive'
  BY <1>5, <1>8, <1>9
     DEF Hooks, Begin, TraceTracked, TraceFiltered, TraceMatched, Report, kernelVars, lineageVars
<1>10. CASE \/ \E a \in Anchor : EvictStackAnchor(a) \/ StackAssociated(a)
            \/ \E h \in Head : EvictLineage(h)
            \/ \E s \in Skb : EvictSkbAnchor(s)
  BY <1>5, <1>10 DEF EvictStackAnchor, StackAssociated, EvictLineage, EvictSkbAnchor, kernelVars,
     lineageVars
<1>11. ASSUME NEW s \in Skb, Free(s) PROVE TrackedLive'
  <2>1. \A t \in Live : t # s => t \in Live'
    BY <1>1, <1>11 DEF Free
  <2> QED
    BY <1>6, <1>11, <2>1 DEF Free, lifetime_end
<1>12. ASSUME NEW s \in Skb, EvictTracked(s) PROVE TrackedLive'
  BY <1>4, <1>12 DEF EvictTracked, kernelVars
<1>13. ASSUME UNCHANGED tracked_skbs, NEW s \in FreeSkbs, NEW v, skb' = [skb EXCEPT ![s] = v]
       PROVE  TrackedLive'
  BY <1>1, <1>3, <1>13
<1>14. ASSUME NEW s \in Skb, NEW h \in Head, Allocate(s, h) PROVE TrackedLive'
  BY <1>13, <1>14 DEF Allocate, lineageVars
<1>15. ASSUME NEW c \in Context, NEW s \in Skb,
              \/ \E op \in {"clone", "copy"} : CloneEntry(c, s, op)
              \/ ReplaceEntry(c, s)
       PROVE  TrackedLive'
  BY <1>5, <1>15 DEF CloneEntry, ReplaceEntry, lineageVars
<1>16. ASSUME NEW c \in Context, NEW s \in Skb,
              Clone(c, s) \/ \E h \in Head : Copy(c, s, h)
       PROVE  TrackedLive'
  <2>1. /\ UNCHANGED tracked_skbs /\ s \in FreeSkbs
        /\ \E v : skb' = [skb EXCEPT ![s] = v]
    BY <1>16 DEF Clone, Copy, lineageVars
  <2> QED
    BY <1>13, <2>1
<1>17. ASSUME NEW c \in Context, NEW s \in Skb, NEW h \in Head, Replace(c, s, h) PROVE TrackedLive'
  <2> DEFINE old == call[c].skb
             v == [packet |-> skb[old].packet, head |-> h]
  <2>1. /\ s \in FreeSkbs /\ old \in Live /\ lifetime_end(old)
        /\ skb' = [skb EXCEPT ![s] = v, ![old] = None]
    BY <1>1, <1>17 DEF Replace, Making, Inside, InCall
  <2>2. \A t \in Live : t # old => t \in Live'
    BY <1>1, <2>1
  <2> QED
    BY <1>1, <1>6, <2>1, <2>2 DEF lifetime_end
<1>18. ASSUME NEW c \in Context, CloneExit(c) PROVE TrackedLive'
  <2>1. call[c].made # None => call[c].made \in Live
    BY <1>1, <1>18 DEF CloneExit, Inside, InCall, CallHolds
  <2>2. /\ UNCHANGED skb
        /\ UNCHANGED tracked_skbs \/ /\ call[c].made # None
                                     /\ \E i : tracked_skbs' = [tracked_skbs EXCEPT ![call[c].made] = i]
    BY <1>18 DEF CloneExit
  <2> QED
    BY <1>4, <1>5, <2>1, <2>2
<1>19. ASSUME NEW c \in Context, ReplaceExit(c) PROVE TrackedLive'
  <2> DEFINE r == pending_skb_replacements[Key[c]]
             s == Slot(r.slot)
  <2>1. /\ UNCHANGED skb
        /\ \/ UNCHANGED tracked_skbs
           \/ r # None /\ tracked_skbs' = [tracked_skbs EXCEPT ![s] = r.identity]
    BY <1>19 DEF ReplaceExit
  <2>2. ASSUME r # None PROVE s \in Live
    <3>1. Key[c] \in Pid
      BY DEF Pid
    <3>2. InCall(r.slot) /\ call[r.slot].op = "replace" /\ r.slot \in Context
      BY <2>2, <3>1 DEF PendingIsCall, BaseInv, LineageTypeOK, Replacement
    <3> HIDE DEF r
    <3> QED
      BY <1>1, <3>2 DEF Slot, CallHolds
  <2> QED
    BY <1>4, <1>5, <2>1, <2>2
<1>20. ASSUME NEW c \in Context, XdpExit(c) PROVE TrackedLive'
  BY <1>5, <1>13, <1>20 DEF XdpExit, lineageVars
<1>21. ASSUME NEW c \in Context, NEW h \in Head, XdpEntry(c, h) PROVE TrackedLive'
  BY <1>5, <1>21 DEF XdpEntry
<1> QED
  BY <1>7, <1>9, <1>10, <1>11, <1>12, <1>14, <1>15, <1>16, <1>17, <1>18, <1>19, <1>20, <1>21,
     DriverAssumption
     DEF Next, Kernel, Calls, Frames

\* Nobody touches what a call holds, except the call that replaces it.
LEMMA CallsMakeAlikeStep == BaseInv /\ CallsMakeAlike /\ [Next]_vars => CallsMakeAlike'
<1> SUFFICES ASSUME BaseInv, CallsMakeAlike, [Next]_vars PROVE CallsMakeAlike'
  OBVIOUS
<1>1. /\ None \notin Skb /\ None \notin Data /\ None \notin Call
      /\ skb \in [Skb -> Data \cup {None}] /\ call \in [Context -> Call \cup {None}]
      /\ Live = {s \in Skb : skb[s] # None}
      /\ FreeSkbs = {s \in Skb : skb[s] = None}
      /\ \A c \in Context : InCall(c) => call[c] \in Call /\ call[c].skb \in Live /\ CallHolds(c)
      /\ \A c, d \in Context : InCall(c) /\ InCall(d) /\ c # d => CallsApart(c, d)
      /\ \A s \in Skb : s \notin Held =>
              \A c \in Context : InCall(c) => call[c].skb # s /\ call[c].made # s
  BY PlaceParts
<1>2. \A c \in Context : InCall(c) => MadeAlike(c)
  BY DEF CallsMakeAlike
<1> DEFINE Kept(c) == /\ InCall(c) /\ call'[c] = call[c]
                      /\ skb'[call[c].skb] = skb[call[c].skb]
                      /\ call[c].made # None => skb'[call[c].made] = skb[call[c].made]
<1>3. ASSUME NEW c \in Context, Kept(c) PROVE MadeAlike(c)'
  BY <1>2, <1>3 DEF MadeAlike
<1>4. ASSUME \A c \in Context : call'[c] # None => Kept(c) \/ call'[c].made = None
      PROVE  CallsMakeAlike'
  BY <1>3, <1>4 DEF CallsMakeAlike, MadeAlike, InCall
<1>5. ASSUME UNCHANGED skb,
             \A c \in Context : call'[c] # None => call'[c] = call[c] \/ call'[c].made = None
      PROVE  CallsMakeAlike'
  BY <1>4, <1>5 DEF InCall
<1>6. ASSUME NEW s \in FreeSkbs, NEW v, skb' = [skb EXCEPT ![s] = v], NEW c \in Context,
             InCall(c), call'[c] = call[c]
      PROVE  Kept(c)
  BY <1>1, <1>6 DEF CallHolds
<1>7. ASSUME NEW s \in FreeSkbs, NEW v, skb' = [skb EXCEPT ![s] = v], UNCHANGED call
      PROVE  CallsMakeAlike'
  BY <1>4, <1>6, <1>7 DEF InCall
<1>8. CASE UNCHANGED vars
  BY <1>5, <1>8 DEF vars, kernelVars
<1>9. ASSUME NEW c \in Context, Hooks(c) PROVE CallsMakeAlike'
  BY <1>5, <1>9, HookSteps DEF kernelVars
<1>10. ASSUME NEW s \in Skb, Free(s) PROVE CallsMakeAlike'
  <2>1. s \notin Held /\ skb' = [skb EXCEPT ![s] = None] /\ UNCHANGED call
    BY <1>10 DEF Free
  <2>2. \A c \in Context : InCall(c) => Kept(c)
    BY <1>1, <2>1 DEF CallHolds
  <2> QED
    BY <1>4, <2>1, <2>2 DEF InCall
<1>11. CASE \/ \E s \in Skb : EvictTracked(s)
            \/ \E h \in Head : EvictLineage(h)
            \/ \E s \in Skb : EvictSkbAnchor(s)
            \/ \E a \in Anchor : EvictStackAnchor(a) \/ StackAssociated(a)
  BY <1>5, <1>11 DEF EvictTracked, EvictLineage, EvictSkbAnchor, EvictStackAnchor,
     StackAssociated, kernelVars
<1>12. ASSUME NEW s \in Skb, NEW h \in Head, Allocate(s, h) PROVE CallsMakeAlike'
  BY <1>7, <1>12 DEF Allocate
<1>13. ASSUME NEW c \in Context,
              \/ \E s \in Skb : \/ \E op \in {"clone", "copy"} : CloneEntry(c, s, op)
                               \/ ReplaceEntry(c, s)
              \/ CloneExit(c) \/ ReplaceExit(c)
       PROVE  CallsMakeAlike'
  <2>1. UNCHANGED skb
    BY <1>13 DEF CloneEntry, CloneExit, ReplaceEntry, ReplaceExit
  <2>2. ASSUME NEW x, call' = [call EXCEPT ![c] = x], x = None \/ x.made = None
        PROVE  \A d \in Context : call'[d] # None => call'[d] = call[d] \/ call'[d].made = None
    BY <1>1, <2>2
  <2>4. ASSUME NEW s \in Skb, NEW op \in {"clone", "copy", "replace"},
               call' = [call EXCEPT ![c] = [op |-> op, skb |-> s, made |-> None,
                                            identity |-> tracked_skbs[s]]]
        PROVE  \A d \in Context : call'[d] # None => call'[d] = call[d] \/ call'[d].made = None
    BY <2>2, <2>4
  <2>3. \A d \in Context : call'[d] # None => call'[d] = call[d] \/ call'[d].made = None
    BY <1>13, <2>2, <2>4 DEF CloneEntry, CloneExit, ReplaceEntry, ReplaceExit
  <2> QED
    BY <1>5, <2>1, <2>3
<1>14. ASSUME NEW c \in Context, NEW s \in FreeSkbs, NEW v, InCall(c),
              skb' = [skb EXCEPT ![s] = v], call' = [call EXCEPT ![c].made = s],
              MadeAlike(c)'
       PROVE  CallsMakeAlike'
  <2>1. \A d \in Context : call'[d] # None /\ d # c => Kept(d)
    BY <1>1, <1>6, <1>14 DEF InCall
  <2> QED
    BY <1>3, <1>14, <2>1 DEF CallsMakeAlike, InCall
<1>15. ASSUME NEW c \in Context, NEW s \in Skb, Clone(c, s) PROVE CallsMakeAlike'
  <2>1. /\ InCall(c) /\ call[c].op = "clone" /\ s \in FreeSkbs /\ s \in Skb
        /\ skb' = [skb EXCEPT ![s] = skb[call[c].skb]]
        /\ call' = [call EXCEPT ![c].made = s]
    BY <1>15 DEF Clone, Making, Inside, InCall
  <2>2. /\ call'[c] = [call[c] EXCEPT !.made = s] /\ skb'[s] = skb[call[c].skb]
        /\ skb'[call[c].skb] = skb[call[c].skb]
    BY <1>1, <2>1
  <2>3. call'[c].made = s /\ call'[c].skb = call[c].skb /\ call'[c].op = "clone"
    BY <1>1, <2>1, <2>2 DEF Call
  <2>4. MadeAlike(c)'
    BY <2>2, <2>3 DEF MadeAlike
  <2> QED
    BY <1>14, <2>1, <2>4
<1>16. ASSUME NEW c \in Context, NEW s \in Skb, NEW h \in Head, Copy(c, s, h)
       PROVE  CallsMakeAlike'
  <2>6. PICK p \in Packet : /\ skb' = [skb EXCEPT ![s] = [packet |-> p, head |-> h]]
                            /\ call[c].identity # None => p = skb[call[c].skb].packet
    BY <1>16 DEF Copy
  <2> DEFINE v == [packet |-> p, head |-> h]
  <2>1. /\ InCall(c) /\ call[c].op = "copy" /\ s \in FreeSkbs /\ s \in Skb
        /\ skb' = [skb EXCEPT ![s] = v]
        /\ call' = [call EXCEPT ![c].made = s]
        /\ call[c].identity # None => v.packet = skb[call[c].skb].packet
    BY <1>16, <2>6 DEF Copy, Making, Inside, InCall
  <2> HIDE DEF v
  <2>3. /\ call'[c] = [call[c] EXCEPT !.made = s] /\ skb'[s] = v
        /\ skb'[call[c].skb] = skb[call[c].skb]
    BY <1>1, <2>1
  <2>4. /\ call'[c].made = s /\ call'[c].skb = call[c].skb /\ call'[c].op = "copy"
        /\ call'[c].identity = call[c].identity
    BY <1>1, <2>1, <2>3 DEF Call
  <2>5. MadeAlike(c)'
    BY <2>1, <2>3, <2>4 DEF MadeAlike
  <2> QED
    BY <1>14, <2>1, <2>5
<1>17. ASSUME NEW c \in Context, NEW s \in Skb, NEW h \in Head, Replace(c, s, h)
       PROVE  CallsMakeAlike'
  <2> DEFINE old == call[c].skb
             v == [packet |-> skb[old].packet, head |-> h]
  <2>1. /\ InCall(c) /\ call[c].op = "replace" /\ s \in FreeSkbs /\ s \in Skb
        /\ skb' = [skb EXCEPT ![s] = v, ![old] = None]
        /\ call' = [call EXCEPT ![c].made = s, ![c].skb = s]
    BY <1>17 DEF Replace, Making, Inside, InCall
  <2>2. call'[c].op = "replace"
    BY <1>1, <2>1 DEF Call
  <2>3. \A d \in Context : call'[d] # None /\ d # c => Kept(d)
    <3>1. \A d \in Context : d # c => call'[d] = call[d]
      BY <1>1, <2>1
    <3>2. \A d \in Context : InCall(d) /\ d # c =>
            /\ call[d].skb # old /\ call[d].skb # s
            /\ call[d].made # None => call[d].made # old /\ call[d].made # s
      BY <1>1, <2>1 DEF CallsApart, CallHolds
    <3> QED
      BY <1>1, <2>1, <3>1, <3>2 DEF InCall, CallHolds
  <2>4. MadeAlike(c)'
    BY <2>2 DEF MadeAlike
  <2> QED
    BY <1>3, <2>3, <2>4 DEF CallsMakeAlike, InCall
<1>18. ASSUME NEW c \in Context, Frames(c) PROVE CallsMakeAlike'
  <2>1. UNCHANGED call
    BY <1>18 DEF Frames, XdpExit, XdpEntry
  <2>2. UNCHANGED skb \/ \E s \in FreeSkbs : \E v : skb' = [skb EXCEPT ![s] = v]
    BY <1>18 DEF Frames, XdpExit, XdpEntry
  <2> QED
    BY <1>5, <1>7, <2>1, <2>2
<1> QED
  BY <1>8, <1>9, <1>10, <1>11, <1>12, <1>13, <1>15, <1>16, <1>17, <1>18,
     DriverAssumption
     DEF Next, Kernel, Calls

\* Only its own exit ends a replacement, and that takes what is filed under the
\* pid_tgid with it.
LEMMA PendingIsCallStep == BaseInv /\ PendingIsCall /\ [Next]_vars => PendingIsCall'
<1> SUFFICES ASSUME BaseInv, PendingIsCall, [Next]_vars PROVE PendingIsCall'
  OBVIOUS
<1>1. /\ None \notin Call /\ None \notin Replacement
      /\ call \in [Context -> Call \cup {None}]
      /\ pending_skb_replacements \in [Pid -> Replacement \cup {None}]
      /\ \A c \in Context : Key[c] \in Pid
  BY NoneAssumption DEF BaseInv, LineageTypeOK, Pid
<1>2. \A k \in Pid : pending_skb_replacements[k] # None =>
        /\ pending_skb_replacements[k].slot \in Context
        /\ InCall(pending_skb_replacements[k].slot)
        /\ call[pending_skb_replacements[k].slot].op = "replace"
        /\ call[pending_skb_replacements[k].slot].identity = pending_skb_replacements[k].identity
        /\ Key[pending_skb_replacements[k].slot] = k
  BY <1>1 DEF PendingIsCall, Replacement
<1> DEFINE Kept(d) == InCall(d) /\ call[d].op = "replace" =>
                        /\ call'[d] # None /\ call'[d].op = "replace"
                        /\ call'[d].identity = call[d].identity
<1>3. ASSUME UNCHANGED pending_skb_replacements, \A d \in Context : Kept(d) PROVE PendingIsCall'
  BY <1>2, <1>3 DEF PendingIsCall, InCall
<1>4. ASSUME UNCHANGED pending_skb_replacements, UNCHANGED call PROVE PendingIsCall'
  BY <1>2, <1>4 DEF PendingIsCall, InCall
<1>5. ASSUME UNCHANGED pending_skb_replacements, NEW c \in Context, NEW x,
             call' = [call EXCEPT ![c] = x], ~InCall(c) \/ call[c].op # "replace"
      PROVE  PendingIsCall'
  BY <1>1, <1>3, <1>5 DEF InCall
<1>6. ASSUME UNCHANGED pending_skb_replacements, NEW c \in Context, NEW s \in Skb, InCall(c),
             \/ call' = [call EXCEPT ![c].made = s]
             \/ call' = [call EXCEPT ![c].made = s, ![c].skb = s]
      PROVE  PendingIsCall'
  <2>1. \A d \in Context : Kept(d)
    BY <1>1, <1>6 DEF InCall, Call
  <2> QED
    BY <1>3, <1>6, <2>1
<1>7. CASE UNCHANGED vars
  BY <1>4, <1>7 DEF vars, kernelVars, pendingVars
<1>8. ASSUME NEW c \in Context, Hooks(c) PROVE PendingIsCall'
  BY <1>4, <1>8, HookSteps DEF kernelVars, pendingVars
<1>10. CASE Kernel \/ \E c \in Context : Frames(c)
  BY <1>4, <1>10 DEF StackAssociated, EvictStackAnchor, EvictSkbAnchor, Kernel, Free, EvictTracked,
     EvictLineage, Allocate, Frames, XdpExit, XdpEntry, kernelVars, pendingVars
<1>11. ASSUME NEW c \in Context, NEW s \in Skb, NEW op \in {"clone", "copy"}, CloneEntry(c, s, op)
       PROVE  PendingIsCall'
  BY <1>5, <1>11 DEF CloneEntry, Idle, InCall
<1>12. ASSUME NEW c \in Context, CloneExit(c) PROVE PendingIsCall'
  BY <1>5, <1>12 DEF CloneExit, Inside, InCall
<1>13. ASSUME NEW c \in Context, NEW s \in Skb,
              Clone(c, s) \/ \E h \in Head : Copy(c, s, h) \/ Replace(c, s, h)
       PROVE  PendingIsCall'
  BY <1>6, <1>13 DEF Clone, Copy, Replace, Making, Inside, InCall, pendingVars
<1>14. ASSUME NEW c \in Context, NEW s \in Skb, ReplaceEntry(c, s) PROVE PendingIsCall'
  <2> DEFINE r == [slot |-> c, identity |-> tracked_skbs[s]]
             x == [op |-> "replace", skb |-> s, made |-> None, identity |-> tracked_skbs[s]]
  <2>1. /\ call[c] = None /\ call' = [call EXCEPT ![c] = x]
        /\ pending_skb_replacements' = pending_skb_replacements
             \/ pending_skb_replacements' = [pending_skb_replacements EXCEPT ![Key[c]] = r]
    BY <1>14 DEF ReplaceEntry, Idle
  <2>2. CASE UNCHANGED pending_skb_replacements
    BY <1>5, <2>1, <2>2 DEF InCall
  <2>3. CASE pending_skb_replacements' = [pending_skb_replacements EXCEPT ![Key[c]] = r]
    <3>1. /\ r.slot = c /\ r.identity = x.identity /\ x.op = "replace"
          /\ call'[c] = x /\ x # None
      <4>1. x \in Call
        BY <1>14, HoldStep, BaseInvStep DEF BaseInv, LineageTypeOK, ReplaceEntry, Call
      <4> QED
        BY <1>1, <2>1, <4>1
    <3> HIDE DEF r, x
    <3>2. \A d \in Context : d # c => call'[d] = call[d]
      BY <1>1, <2>1
    <3>3. \A k \in Pid : pending_skb_replacements'[k] =
            IF k = Key[c] THEN r ELSE pending_skb_replacements[k]
      BY <1>1, <2>3
    <3> QED
      BY <1>2, <2>1, <3>1, <3>2, <3>3 DEF PendingIsCall, InCall
  <2> QED
    BY <2>1, <2>2, <2>3
<1>15. ASSUME NEW c \in Context, ReplaceExit(c) PROVE PendingIsCall'
  <2>1. /\ pending_skb_replacements' = [pending_skb_replacements EXCEPT ![Key[c]] = None]
        /\ call' = [call EXCEPT ![c] = None]
    BY <1>15 DEF ReplaceExit
  <2>2. \A k \in Pid : pending_skb_replacements'[k] # None =>
          k # Key[c] /\ pending_skb_replacements'[k] = pending_skb_replacements[k]
    BY <1>1, <2>1
  <2>3. \A d \in Context : d # c => call'[d] = call[d]
    BY <1>1, <2>1
  <2> QED
    BY <1>2, <2>2, <2>3 DEF PendingIsCall, InCall
<1> QED
  BY <1>7, <1>8, <1>10, <1>11, <1>12, <1>13, <1>14, <1>15, DriverAssumption DEF Next, Calls

\* Where packets are stays as described through every step.
LEMMA PlaceInvStep == PlaceInv /\ [Next]_vars => PlaceInv'
BY BaseInvStep, HeadsApartStep, TrackedLiveStep, CallsMakeAlikeStep, PendingIsCallStep DEF PlaceInv

\* At first there are no packets.
LEMMA PlaceInvInit == Init => PlaceInv
<1> SUFFICES ASSUME Init PROVE PlaceInv
  OBVIOUS
<1>1. BaseInv
  BY TypeInit, HoldInit DEF BaseInv
<1> QED
  BY <1>1, NoneAssumption DEF Init, PlaceInv, HeadsApart, TrackedLive, CallsMakeAlike, PendingIsCall,
     InCall, Live, FreeSkbs

-----------------------------------------------------------------------------
\* What a hook does to its own state.

\* It begins with what the buffer's entry says, unless the sk_buff has its own.
LEMMA BeginsWith ==
  ASSUME BaseInv, NEW c \in Context, NEW s \in Skb, Begin(c, s)
  PROVE  /\ hook[c] = None /\ hook'[c] # None /\ hook'[c].skb = s /\ s \in Live
         /\ hook'[c].identity = IF IsTracked(s) THEN None ELSE skb_data_lineages[skb[s].head]
         /\ hook'[c].step = (IF hook'[c].identity = None THEN "filter" ELSE "withdraw")
         /\ \A d \in Context \ {c} : hook'[d] = hook[d]
<1> DEFINE i == IF IsTracked(s) THEN None ELSE skb_data_lineages[skb[s].head]
           r == [step |-> IF i = None THEN "filter" ELSE "withdraw", skb |-> s, identity |-> i]
<1>1. /\ hook' = [hook EXCEPT ![c] = r] /\ hook[c] = None /\ s \in Live
  BY DEF Begin
<1>2. hook \in [Context -> Hook \cup {None}] /\ None \notin Hook
  BY NoneAssumption DEF BaseInv, LineageTypeOK
<1>3. i \in Identity \cup {None}
  BY <1>1, PlaceParts, Parts DEF BaseInv
<1>4. r.skb = s /\ r.identity = i /\ r.step = (IF i = None THEN "filter" ELSE "withdraw")
  OBVIOUS
<1> HIDE DEF i
<1>5. r \in Hook
  BY <1>3 DEF Hook
<1> HIDE DEF r
<1>6. hook'[c] = r /\ \A d \in Context \ {c} : hook'[d] = hook[d]
  BY <1>1, <1>2
<1> QED
  BY <1>1, <1>2, <1>4, <1>5, <1>6 DEF i

\* It goes from step to step on the same sk_buff.
LEMMA MovesTo ==
  ASSUME BaseInv, NEW c \in Context, hook[c] # None, NEW i \in Identity \cup {None},
         NEW step \in {"filter", "withdraw", "file", "associate"}, Moves(c, step, i)
  PROVE  /\ hook'[c] # None /\ hook'[c].skb = hook[c].skb
         /\ hook'[c].identity = i /\ hook'[c].step = step
         /\ \A d \in Context \ {c} : hook'[d] = hook[d]
<1>1. hook \in [Context -> Hook \cup {None}] /\ None \notin Hook
  BY NoneAssumption DEF BaseInv, LineageTypeOK
<1>2. hook[c] \in Hook /\ hook'[c] = [hook[c] EXCEPT !.step = step, !.identity = i]
  BY <1>1 DEF Moves
<1>3. hook'[c] \in Hook
  BY <1>2 DEF Hook
<1> QED
  BY <1>1, <1>2, <1>3 DEF Moves, Hook

\* And ends.
LEMMA EndsHook ==
  ASSUME BaseInv, NEW c \in Context, hook' = [hook EXCEPT ![c] = None]
  PROVE  hook'[c] = None /\ \A d \in Context \ {c} : hook'[d] = hook[d]
BY DEF BaseInv, LineageTypeOK

-----------------------------------------------------------------------------
\* Which identities are about.

\* An identity that has been handed out, or none.
IsIssued(i) == i # None => i <= lineage_sequence

\* Nothing is filed or observed under an identity before it is handed out.
Issued ==
  /\ \A s \in Skb : IsIssued(tracked_skbs[s])
  /\ \A h \in Head : IsIssued(skb_data_lineages[h])
  /\ \A c \in Context : IsIssued(xdp_entry_states[c])
  /\ \A c \in Context : InCall(c) => IsIssued(call[c].identity)
  /\ \A c \in Context : hook[c] # None => IsIssued(hook[c].identity)
  /\ \A k \in Pid : IsIssued(pending_clones[k])
  /\ \A i \in Identity : i > lineage_sequence => named[i] = {}

\* The identities are numbers, and None is not one.
LEMMA IssuedTypes ==
  ASSUME BaseInv
  PROVE  /\ Identity \subseteq Nat /\ lineage_sequence \in Nat /\ None \notin Identity
         /\ None \notin Call /\ None \notin Skb
         /\ tracked_skbs \in [Skb -> Identity \cup {None}]
         /\ skb_data_lineages \in [Head -> Identity \cup {None}]
         /\ xdp_entry_states \in [Context -> Identity \cup {None}]
         /\ pending_clones \in [Pid -> Identity \cup {None}]
         /\ named \in [Identity -> SUBSET Packet]
         /\ call \in [Context -> Call \cup {None}]
         /\ \A c \in Context : InCall(c) => /\ call[c] \in Call
                                            /\ call[c].identity \in Identity \cup {None}
         /\ \A c \in Context : hook[c] # None => hook[c].identity \in Identity \cup {None}
         /\ \A c \in Context : Key[c] \in Pid
BY NoneAssumption, BoundAssumption, Parts DEF BaseInv, LineageTypeOK, Identity, Pid

\* Only the next number is new, and it is filed and observed as it is handed out.
LEMMA IssuedStep == PlaceInv /\ Issued /\ [Next]_vars => Issued'
<1> SUFFICES ASSUME PlaceInv, Issued, [Next]_vars PROVE Issued'
  OBVIOUS
<1>1. /\ Identity \subseteq Nat /\ lineage_sequence \in Nat /\ None \notin Identity
      /\ None \notin Call /\ None \notin Skb
      /\ tracked_skbs \in [Skb -> Identity \cup {None}]
      /\ skb_data_lineages \in [Head -> Identity \cup {None}]
      /\ xdp_entry_states \in [Context -> Identity \cup {None}]
      /\ pending_clones \in [Pid -> Identity \cup {None}]
      /\ named \in [Identity -> SUBSET Packet]
      /\ call \in [Context -> Call \cup {None}]
      /\ \A c \in Context : InCall(c) => /\ call[c] \in Call
                                         /\ call[c].identity \in Identity \cup {None}
      /\ \A c \in Context : hook[c] # None => hook[c].identity \in Identity \cup {None}
      /\ \A c \in Context : Key[c] \in Pid
  BY IssuedTypes DEF PlaceInv
<1>2. lineage_sequence' \in Nat
  BY BaseInvStep DEF PlaceInv, BaseInv, LineageTypeOK
<1>3. /\ \A s \in Skb : IsIssued(tracked_skbs[s])
      /\ \A h \in Head : IsIssued(skb_data_lineages[h])
      /\ \A c \in Context : IsIssued(xdp_entry_states[c])
      /\ \A c \in Context : InCall(c) => IsIssued(call[c].identity)
      /\ \A c \in Context : hook[c] # None => IsIssued(hook[c].identity)
      /\ \A k \in Pid : IsIssued(pending_clones[k])
      /\ \A i \in Identity : i > lineage_sequence => named[i] = {}
  BY DEF Issued
\* What is filed by a step is i.
<1>4. ASSUME NEW i \in Identity \cup {None}, lineage_sequence <= lineage_sequence',
             i # None => i <= lineage_sequence',
             \A s \in Skb : tracked_skbs'[s] \in {tracked_skbs[s], None, i},
             \A h \in Head : skb_data_lineages'[h] \in {skb_data_lineages[h], None, i},
             \A c \in Context : xdp_entry_states'[c] \in {xdp_entry_states[c], None, i},
             \A c \in Context : call'[c] # None =>
               \/ call'[c].identity = i
               \/ InCall(c) /\ call'[c].identity = call[c].identity,
             \A c \in Context : hook'[c] # None =>
               \/ hook'[c].identity = i
               \/ hook[c] # None /\ hook'[c].identity = hook[c].identity,
             \A k \in Pid : pending_clones'[k] \in {pending_clones[k], None, i},
             \A j \in Identity : j # i => named'[j] = named[j]
      PROVE  Issued'
  <2>1. \A j \in Identity \cup {None} : IsIssued(j) \/ j = i => (j # None => j <= lineage_sequence')
    BY <1>1, <1>2, <1>4 DEF IsIssued
  <2>2. /\ \A s \in Skb : IsIssued(tracked_skbs[s]) /\ tracked_skbs[s] \in Identity \cup {None}
        /\ \A h \in Head : IsIssued(skb_data_lineages[h]) /\ skb_data_lineages[h] \in Identity \cup {None}
        /\ \A c \in Context : IsIssued(xdp_entry_states[c]) /\ xdp_entry_states[c] \in Identity \cup {None}
        /\ \A k \in Pid : IsIssued(pending_clones[k]) /\ pending_clones[k] \in Identity \cup {None}
    BY <1>1, <1>3
  <2>3. /\ \A s \in Skb : IsIssued(tracked_skbs[s])'
        /\ \A h \in Head : IsIssued(skb_data_lineages[h])'
        /\ \A c \in Context : IsIssued(xdp_entry_states[c])'
        /\ \A k \in Pid : IsIssued(pending_clones[k])'
    BY <1>4, <2>1, <2>2 DEF IsIssued
  <2>4. /\ \A c \in Context : InCall(c)' => IsIssued(call[c].identity)'
        /\ \A c \in Context : (hook[c] # None)' => IsIssued(hook[c].identity)'
    BY <1>1, <1>3, <1>4, <2>1 DEF IsIssued, InCall
  <2>5. \A j \in Identity : j > lineage_sequence' => named'[j] = {}
    BY <1>1, <1>2, <1>3, <1>4
  <2> QED
    BY <2>3, <2>4, <2>5 DEF Issued
\* A hook has i in hand.
<1>6. ASSUME NEW c \in Context, NEW i \in Identity \cup {None}, IsIssued(i), UNCHANGED lineage_sequence,
             UNCHANGED <<call, xdp_entry_states, pending_clones>>,
             \A d \in Context \ {c} : hook'[d] = hook[d],
             hook'[c] = None \/ hook'[c].identity = i,
             UNCHANGED tracked_skbs \/ \E s : tracked_skbs' = [tracked_skbs EXCEPT ![s] = i],
             \/ UNCHANGED skb_data_lineages
             \/ \E h : \E j \in {i, None} : skb_data_lineages' = [skb_data_lineages EXCEPT ![h] = j],
             \/ UNCHANGED named
             \/ i # None /\ \E p : named' = [named EXCEPT ![i] = @ \cup {p}]
      PROVE  Issued'
  <2>1. lineage_sequence <= lineage_sequence' /\ (i # None => i <= lineage_sequence')
    BY <1>1, <1>6 DEF IsIssued
  <2>2. \A d \in Context : hook'[d] # None =>
               \/ hook'[d].identity = i
               \/ hook[d] # None /\ hook'[d].identity = hook[d].identity
    BY <1>6
  <2>3. /\ \A s \in Skb : tracked_skbs'[s] \in {tracked_skbs[s], None, i}
        /\ \A h \in Head : skb_data_lineages'[h] \in {skb_data_lineages[h], None, i}
        /\ \A j \in Identity : j # i => named'[j] = named[j]
    BY <1>1, <1>6
  <2> QED
    BY <1>4, <1>6, <2>1, <2>2, <2>3 DEF InCall
<1>7. ASSUME NEW c \in Context, TraceMatched(c) PROVE Issued'
  <2>1. PICK i \in Identity :
          /\ i = lineage_sequence + 1 /\ lineage_sequence' = i
          /\ hook[c] # None /\ Moves(c, "file", i)
          /\ UNCHANGED <<call, xdp_entry_states, pending_clones, tracked_skbs, skb_data_lineages, named>>
    BY <1>7 DEF TraceMatched, In, NextIdentity, kernelVars, pendingVars
  <2>2. lineage_sequence <= lineage_sequence' /\ i <= lineage_sequence'
    BY <1>1, <2>1
  <2>3. hook'[c].identity = i /\ \A d \in Context \ {c} : hook'[d] = hook[d]
    BY <2>1, MovesTo DEF PlaceInv
  <2> QED
    BY <1>1, <1>4, <2>1, <2>2, <2>3 DEF InCall
<1>8. ASSUME NEW c \in Context, Withdraw(c) \/ FileTracked(c) \/ TraceTracked(c) PROVE Issued'
  <2>1. hook[c] # None /\ hook[c].skb \in Live
    BY <1>8, PlaceParts DEF Withdraw, FileTracked, TraceTracked, In, PlaceInv
  <2> DEFINE i == IF TraceTracked(c) THEN tracked_skbs[hook[c].skb] ELSE hook[c].identity
  <2>2. i \in Identity \cup {None} /\ IsIssued(i)
    BY <1>1, <1>3, <2>1 DEF Live
  <2>3. Moves(c, "associate", i)
    BY <1>8 DEF Withdraw, FileTracked, TraceTracked, In
  <2>4. /\ UNCHANGED tracked_skbs \/ \E s : tracked_skbs' = [tracked_skbs EXCEPT ![s] = i]
        /\ \/ UNCHANGED skb_data_lineages
           \/ \E h : skb_data_lineages' = [skb_data_lineages EXCEPT ![h] = None]
        /\ UNCHANGED <<named, call, xdp_entry_states, pending_clones, lineage_sequence>>
    BY <1>8 DEF Withdraw, FileTracked, TraceTracked, In, kernelVars, lineageVars, pendingVars
  <2> HIDE DEF i
  <2>5. hook'[c].identity = i /\ \A d \in Context \ {c} : hook'[d] = hook[d]
    BY <2>1, <2>2, <2>3, MovesTo DEF PlaceInv
  <2> QED
    BY <1>6, <2>2, <2>4, <2>5
<1>9. ASSUME NEW c \in Context, NEW a \in Anchor \cup {None}, Report(c, a) PROVE Issued'
  <2> DEFINE i == hook[c].identity
             s == hook[c].skb
  <2>1. hook[c] # None /\ i # None
    BY <1>9 DEF Report, In, PlaceInv, BaseInv, HooksHold
  <2>2. i \in Identity \cup {None} /\ IsIssued(i)
    BY <1>1, <1>3, <2>1
  <2>3. /\ UNCHANGED <<call, tracked_skbs, lineage_sequence, xdp_entry_states, pending_clones>>
        /\ skb_data_lineages' = [skb_data_lineages EXCEPT ![skb[s].head] = i]
        /\ named' = [named EXCEPT ![i] = @ \cup {skb[s].packet}]
        /\ hook' = [hook EXCEPT ![c] = None]
    BY <1>9 DEF Report, kernelVars, pendingVars, associate_skb_data, Observe
  <2>4. hook'[c] = None /\ \A d \in Context \ {c} : hook'[d] = hook[d]
    BY <2>3, EndsHook DEF PlaceInv
  <2> HIDE DEF i, s
  <2> QED
    BY <1>6, <2>1, <2>2, <2>3, <2>4
<1>22. ASSUME NEW c \in Context, Hooks(c) PROVE Issued'
  <2>1. ASSUME NEW s \in Skb, Begin(c, s) PROVE Issued'
    <3> DEFINE i == hook'[c].identity
    <3>1. /\ UNCHANGED <<call, tracked_skbs, skb_data_lineages, lineage_sequence, xdp_entry_states,
                         pending_clones, named>>
      BY <2>1 DEF Begin, kernelVars, lineageVars, pendingVars
    <3>2. s \in Live /\ skb[s].head \in Head
      BY <2>1, Parts DEF Begin, PlaceInv, BaseInv
    <3>3. /\ i = IF IsTracked(s) THEN None ELSE skb_data_lineages[skb[s].head]
          /\ \A d \in Context \ {c} : hook'[d] = hook[d]
      BY <2>1, BeginsWith DEF PlaceInv
    <3>4. i \in Identity \cup {None} /\ IsIssued(i)
      BY <1>1, <1>3, <3>2, <3>3 DEF IsIssued
    <3>5. hook'[c].identity = i
      OBVIOUS
    <3> HIDE DEF i
    <3> QED
      BY <1>6, <3>1, <3>3, <3>4, <3>5
  <2>2. ASSUME TraceFiltered(c) PROVE Issued'
    <3>1. /\ UNCHANGED <<call, tracked_skbs, skb_data_lineages, lineage_sequence, xdp_entry_states,
                         pending_clones, named>>
          /\ hook'[c] = None /\ \A d \in Context \ {c} : hook'[d] = hook[d]
      BY <2>2, EndsHook DEF TraceFiltered, kernelVars, lineageVars, pendingVars, PlaceInv
    <3> QED
      BY <1>6, <3>1 DEF IsIssued
  <2> QED
    BY <1>7, <1>8, <1>9, <1>22, <2>1, <2>2 DEF Hooks
<1>10. ASSUME NEW a \in Anchor, StackAssociated(a) PROVE Issued'
  <2> DEFINE s == Attributed(a)
             i == tracked_skbs[s]
  <2>1. /\ i # None /\ s \in Skb /\ named' = [named EXCEPT ![i] = @ \cup {skb[s].packet}]
        /\ UNCHANGED <<call, hook, tracked_skbs, skb_data_lineages, lineage_sequence,
                       xdp_entry_states, pending_clones>>
    BY <1>10 DEF StackAssociated, IsTracked, Live, Observe, kernelVars, lineageVars, pendingVars
  <2> HIDE DEF s
  <2>2. i \in Identity /\ i <= lineage_sequence
    BY <1>1, <1>3, <2>1 DEF IsIssued
  <2> HIDE DEF i
  <2> QED
    BY <1>1, <1>4, <2>1, <2>2 DEF InCall
\* Nothing is observed, and no number handed out.
<1>11. ASSUME UNCHANGED <<lineage_sequence, named, hook>>, NEW i \in Identity \cup {None}, IsIssued(i),
              UNCHANGED call \/ \E c \in Context : \E x : /\ call' = [call EXCEPT ![c] = x]
                                                          /\ x # None => x.identity = i,
              UNCHANGED tracked_skbs \/ \E s : tracked_skbs' = [tracked_skbs EXCEPT ![s] = i],
              \/ UNCHANGED skb_data_lineages
              \/ \E h : skb_data_lineages' = [skb_data_lineages EXCEPT ![h] = i],
              \/ UNCHANGED pending_clones
              \/ \E k : \E j \in {i, None} : pending_clones' = [pending_clones EXCEPT ![k] = j],
              UNCHANGED xdp_entry_states
       PROVE  Issued'
  <2>1. /\ \A s \in Skb : tracked_skbs'[s] \in {tracked_skbs[s], None, i}
        /\ \A h \in Head : skb_data_lineages'[h] \in {skb_data_lineages[h], None, i}
        /\ \A k \in Pid : pending_clones'[k] \in {pending_clones[k], None, i}
    BY <1>1, <1>11
  <2>2. \A c \in Context : call'[c] # None =>
               \/ call'[c].identity = i
               \/ InCall(c) /\ call'[c].identity = call[c].identity
    <3>1. CASE UNCHANGED call
      BY <3>1 DEF InCall
    <3>2. ASSUME NEW c \in Context, NEW x, call' = [call EXCEPT ![c] = x], x # None => x.identity = i
          PROVE  \A d \in Context : call'[d] # None =>
                   \/ call'[d].identity = i
                   \/ InCall(d) /\ call'[d].identity = call[d].identity
      <4>1. \A d \in Context : call'[d] = IF d = c THEN x ELSE call[d]
        BY <1>1, <3>2
      <4> QED
        BY <3>2, <4>1 DEF InCall
    <3> QED
      BY <1>11, <3>1, <3>2
  <2>3. lineage_sequence <= lineage_sequence' /\ (i # None => i <= lineage_sequence')
    BY <1>1, <1>11 DEF IsIssued
  <2> QED
    BY <1>4, <1>11, <2>1, <2>2, <2>3
<1>12. IsIssued(None)
  BY DEF IsIssued
<1>5. CASE UNCHANGED vars
  BY <1>11, <1>12, <1>5 DEF vars, kernelVars, lineageVars, pendingVars
<1>13. ASSUME NEW s \in Skb, Free(s) \/ EvictTracked(s) PROVE Issued'
  BY <1>11, <1>12, <1>13 DEF Free, lifetime_end, forget_tracked, EvictTracked, kernelVars, pendingVars
<1>23. /\ \A a \in Anchor : EvictStackAnchor(a) => Issued'
       /\ \A s \in Skb : EvictSkbAnchor(s) => Issued'
  BY <1>11, <1>12 DEF EvictStackAnchor, EvictSkbAnchor, kernelVars, lineageVars, pendingVars
<1>14. ASSUME NEW h \in Head, EvictLineage(h) \/ \E s \in Skb : Allocate(s, h) PROVE Issued'
  BY <1>11, <1>12, <1>14 DEF EvictLineage, Allocate, kernelVars, lineageVars, pendingVars
<1>15. ASSUME NEW c \in Context, NEW s \in Skb, NEW op \in {"clone", "copy"}, CloneEntry(c, s, op)
       PROVE  Issued'
  <2> DEFINE i == tracked_skbs[s]
             x == [op |-> op, skb |-> s, made |-> None, identity |-> i]
  <2>1. /\ UNCHANGED <<hook, lineage_sequence, named, tracked_skbs, skb_data_lineages, xdp_entry_states>>
        /\ call' = [call EXCEPT ![c] = x] /\ x.identity = i
        /\ UNCHANGED pending_clones \/ pending_clones' = [pending_clones EXCEPT ![Key[c]] = i]
    BY <1>15 DEF CloneEntry, lineageVars
  <2>2. i \in Identity \cup {None} /\ IsIssued(i)
    BY <1>1, <1>3
  <2> HIDE DEF i, x
  <2> QED
    BY <1>11, <2>1, <2>2
<1>16. ASSUME NEW c \in Context, NEW s \in Skb, ReplaceEntry(c, s) PROVE Issued'
  <2> DEFINE i == tracked_skbs[s]
             x == [op |-> "replace", skb |-> s, made |-> None, identity |-> i]
  <2>1. /\ UNCHANGED <<hook, lineage_sequence, named, tracked_skbs, skb_data_lineages, xdp_entry_states,
                       pending_clones>>
        /\ call' = [call EXCEPT ![c] = x] /\ x.identity = i
    BY <1>16 DEF ReplaceEntry, lineageVars
  <2>2. i \in Identity \cup {None} /\ IsIssued(i)
    BY <1>1, <1>3
  <2> HIDE DEF i, x
  <2> QED
    BY <1>11, <2>1, <2>2
\* A call makes something.
<1>17. ASSUME NEW c \in Context, NEW s \in Skb,
              Clone(c, s) \/ \E h \in Head : Copy(c, s, h) \/ Replace(c, s, h)
       PROVE  Issued'
  <2>1. /\ UNCHANGED <<hook, lineage_sequence, named, skb_data_lineages, xdp_entry_states, pending_clones>>
        /\ UNCHANGED tracked_skbs \/ \E t : tracked_skbs' = [tracked_skbs EXCEPT ![t] = None]
    BY <1>17 DEF Clone, Copy, Replace, lifetime_end, forget_tracked, lineageVars, pendingVars
  <2>2. /\ InCall(c)
        /\ \/ call' = [call EXCEPT ![c].made = s]
           \/ call' = [call EXCEPT ![c].made = s, ![c].skb = s]
    BY <1>17 DEF Clone, Copy, Replace, Making, Inside, InCall
  <2>3. \A d \in Context : call'[d] # None => InCall(d) /\ call'[d].identity = call[d].identity
    BY <1>1, <2>2 DEF InCall, Call
  <2>4. \A t \in Skb : tracked_skbs'[t] \in {tracked_skbs[t], None, None}
    BY <1>1, <2>1
  <2>5. lineage_sequence <= lineage_sequence'
    BY <1>1, <2>1
  <2> QED
    BY <1>4, <2>1, <2>3, <2>4, <2>5
<1>18. ASSUME NEW c \in Context, CloneExit(c) PROVE Issued'
  <2> DEFINE i == pending_clones[Key[c]]
             s == call[c].made
  <2>1. /\ UNCHANGED <<hook, lineage_sequence, named, xdp_entry_states>>
        /\ call' = [call EXCEPT ![c] = None]
        /\ pending_clones' = [pending_clones EXCEPT ![Key[c]] = None]
        /\ \/ UNCHANGED <<tracked_skbs, skb_data_lineages>>
           \/ /\ tracked_skbs' = [tracked_skbs EXCEPT ![s] = i]
              /\ skb_data_lineages' = [skb_data_lineages EXCEPT ![skb[s].head] = i]
    BY <1>18 DEF CloneExit, associate_skb_data
  <2>2. i \in Identity \cup {None} /\ IsIssued(i)
    BY <1>1, <1>3
  <2> HIDE DEF i, s
  <2> QED
    BY <1>11, <2>1, <2>2
<1>19. ASSUME NEW c \in Context, ReplaceExit(c) PROVE Issued'
  <2> DEFINE r == pending_skb_replacements[Key[c]]
             s == Slot(r.slot)
  <2>1. /\ UNCHANGED <<hook, lineage_sequence, named, xdp_entry_states, pending_clones>>
        /\ call' = [call EXCEPT ![c] = None]
    BY <1>19 DEF ReplaceExit
  <2>2. CASE r = None
    BY <1>11, <1>12, <1>19, <2>1, <2>2 DEF ReplaceExit
  <2>3. CASE r # None
    <3>1. /\ tracked_skbs' = [tracked_skbs EXCEPT ![s] = r.identity]
          /\ skb_data_lineages' = [skb_data_lineages EXCEPT ![skb[s].head] = r.identity]
      BY <1>19, <2>3 DEF ReplaceExit, associate_skb_data
    <3>2. /\ InCall(r.slot) /\ call[r.slot].identity = r.identity /\ r.slot \in Context
      BY <1>1, <2>3 DEF PlaceInv, PendingIsCall, BaseInv, LineageTypeOK, Replacement
    <3> HIDE DEF r, s
    <3>3. r.identity \in Identity \cup {None} /\ IsIssued(r.identity)
      BY <1>1, <1>3, <3>2
    <3> QED
      BY <1>11, <2>1, <3>1, <3>3
  <2> QED
    BY <2>2, <2>3
<1>20. ASSUME NEW c \in Context, XdpExit(c) PROVE Issued'
  <2> DEFINE i == xdp_entry_states[c]
  <2>1. /\ UNCHANGED <<call, hook, tracked_skbs, skb_data_lineages, lineage_sequence, pending_clones>>
        /\ xdp_entry_states' = [xdp_entry_states EXCEPT ![c] = None]
        /\ named' = IF i = None THEN named ELSE [named EXCEPT ![i] = @ \cup {frame[c].data.packet}]
    BY <1>20 DEF XdpExit, xdp_exit_filed, lineageVars, pendingVars
  <2>2. i \in Identity \cup {None} /\ (i # None => i <= lineage_sequence)
    BY <1>1, <1>3 DEF IsIssued
  <2> HIDE DEF i
  <2> QED
    BY <1>1, <1>4, <2>1, <2>2 DEF InCall
<1>21. ASSUME NEW c \in Context, NEW h \in Head, XdpEntry(c, h) PROVE Issued'
  <2> DEFINE p == packets + 1
  <2>1. PICK i \in Identity \cup {None} :
          /\ \/ /\ i = skb_data_lineages[h]
                /\ UNCHANGED <<lineage_sequence, skb_data_lineages>>
             \/ /\ i = lineage_sequence + 1 /\ lineage_sequence' = i
                /\ skb_data_lineages' = [skb_data_lineages EXCEPT ![h] = i]
          /\ xdp_entry_states' = xdp_entry_states
               \/ xdp_entry_states' = [xdp_entry_states EXCEPT ![c] = i]
          /\ named' = IF i = None THEN named ELSE [named EXCEPT ![i] = @ \cup {p}]
    BY <1>21 DEF XdpEntry, xdp_entry_filed, NextIdentity
  <2> HIDE DEF p
  <2>2. UNCHANGED <<call, hook, tracked_skbs, pending_clones>>
    BY <1>21 DEF XdpEntry, pendingVars
  <2>3. lineage_sequence <= lineage_sequence' /\ (i # None => i <= lineage_sequence')
    BY <1>1, <1>3, <2>1 DEF IsIssued
  <2> QED
    BY <1>1, <1>4, <2>1, <2>2, <2>3 DEF InCall
<1> QED
  BY <1>5, <1>10, <1>13, <1>14, <1>15, <1>16, <1>17, <1>18, <1>19, <1>20, <1>21, <1>22, <1>23,
     DriverAssumption
     DEF Next, Kernel, Calls, Frames

-----------------------------------------------------------------------------
\* Who carries an identity.

\* A hook on packet p has identity i in hand: it is about to observe p under i.
InHand(c, p, i) == hook[c] # None /\ hook[c].identity = i /\ skb[hook[c].skb].packet = p

\* Identity i is or is about to be observed of packet p.
Owns(p, i) == p \in named[i] \/ \E c \in Context : InHand(c, p, i)

\* What p carries is its own, or p has met what another packet left behind.
Carries(p, i) == i = None \/ p \in inherited \/ p \in mistaken \/ Owns(p, i)

\* Where a packet's identity is found: under its sk_buff, its buffer, its frame's
\* context, and in the call that is to file it for what it makes.
CarriersNamed ==
  /\ \A s \in Live : /\ Carries(skb[s].packet, tracked_skbs[s])
                     /\ Carries(skb[s].packet, skb_data_lineages[skb[s].head])
  /\ \A c \in Context : frame[c] # None =>
       /\ Carries(frame[c].data.packet, xdp_entry_states[c])
       /\ Carries(frame[c].data.packet, skb_data_lineages[frame[c].data.head])
  /\ \A c \in Context : InCall(c) => Carries(skb[call[c].skb].packet, call[c].identity)

\* One packet apart from those that met another's has an identity.
NamesOnePacket ==
  \A i \in Identity : \A p, q \in Packet \ (inherited \cup mistaken) :
    Owns(p, i) /\ Owns(q, i) => p = q

IdentityInv ==
  /\ PlaceInv
  /\ XdpExitPairsWithEntry
  /\ Issued
  /\ CarriersNamed
  /\ NamesOnePacket

\* History is not rewritten.
LEMMA HistoryGrows ==
  BaseInv /\ [Next]_vars => /\ inherited \subseteq inherited' /\ mistaken \subseteq mistaken'
                            /\ split \subseteq split'
                            /\ \A i \in Identity : named[i] \subseteq named'[i]
<1> SUFFICES ASSUME BaseInv, [Next]_vars
             PROVE  /\ inherited \subseteq inherited' /\ mistaken \subseteq mistaken'
                    /\ split \subseteq split'
                    /\ \A i \in Identity : named[i] \subseteq named'[i]
  OBVIOUS
<1>1. named \in [Identity -> SUBSET Packet]
  BY DEF BaseInv, LineageTypeOK
<1> DEFINE Goal == /\ inherited \subseteq inherited' /\ mistaken \subseteq mistaken'
                   /\ split \subseteq split'
                   /\ \A i \in Identity : named[i] \subseteq named'[i]
<1>2. ASSUME NEW i, NEW p, Observe(i, p) PROVE \A j \in Identity : named[j] \subseteq named'[j]
  BY <1>1, <1>2 DEF Observe
<1>3. CASE UNCHANGED vars
  BY <1>3 DEF vars, exempt
<1>4. ASSUME NEW c \in Context, Hooks(c) PROVE Goal
  <2>1. UNCHANGED <<inherited, mistaken>>
    BY <1>4, HookSteps
  <2>2. /\ split \subseteq split'
        /\ UNCHANGED named \/ \E i, p : Observe(i, p)
    BY <1>4 DEF Hooks, Begin, Withdraw, TraceTracked, TraceFiltered, TraceMatched, FileTracked,
       Report, exempt
  <2> QED
    BY <1>2, <2>1, <2>2
<1>5. CASE Kernel
  BY <1>2, <1>5 DEF Kernel, Free, EvictTracked, EvictLineage, EvictStackAnchor, EvictSkbAnchor,
     StackAssociated, Allocate, Inherit, exempt
<1>6. ASSUME NEW c \in Context, Calls(c) PROVE Goal
  <2>1. ASSUME NEW s \in Skb, NEW h \in Head, Copy(c, s, h) PROVE Goal
    BY <2>1 DEF Copy, Inherit
  <2> QED
    BY <1>6, <2>1 DEF Calls, CloneEntry, Clone, CloneExit, ReplaceEntry, Replace, ReplaceExit,
       Inherit, exempt
<1>7. ASSUME NEW c \in Context, Frames(c) PROVE Goal
  BY <1>1, <1>7 DEF Frames, XdpExit, XdpEntry, Inherit, exempt
<1> QED
  BY <1>3, <1>4, <1>5, <1>6, <1>7, DriverAssumption DEF Next

\* A hook keeps what it has in hand until it has observed it.
LEMMA InHandStep ==
  ASSUME BaseInv, [Next]_vars, NEW c \in Context, NEW p, NEW i \in Identity, InHand(c, p, i)
  PROVE  InHand(c, p, i)' \/ p \in named'[i]
<1>1. /\ hook[c] # None /\ hook[c].identity = i /\ skb[hook[c].skb].packet = p
      /\ skb'[hook[c].skb] = skb[hook[c].skb]
      /\ hook[c].step # "filter"
      /\ named \in [Identity -> SUBSET Packet]
  BY HookStep, NoneAssumption DEF InHand, BaseInv, HooksHold, LineageTypeOK
<1>2. ASSUME hook'[c] = hook[c] PROVE InHand(c, p, i)'
  BY <1>1, <1>2 DEF InHand
<1>3. ASSUME NEW d \in Context, Hooks(d) PROVE InHand(c, p, i)' \/ p \in named'[i]
  <2>1. CASE d # c
    BY <1>2, <1>3, <2>1, HookSteps DEF BaseInv
  <2>2. CASE d = c
    <3>1. CASE Withdraw(c) \/ FileTracked(c)
      <4>1. Moves(c, "associate", i)
        BY <1>1, <3>1 DEF Withdraw, FileTracked
      <4>2. hook'[c] # None /\ hook'[c].skb = hook[c].skb /\ hook'[c].identity = i
        BY <1>1, <4>1, MovesTo
      <4> QED
        BY <1>1, <4>2 DEF InHand
    <3>2. ASSUME NEW a \in Anchor \cup {None}, Report(c, a) PROVE p \in named'[i]
      BY <1>1, <3>2 DEF Report, Observe
    <3> QED
      BY <1>1, <1>3, <2>2, <3>1, <3>2
         DEF Hooks, Begin, TraceTracked, TraceFiltered, TraceMatched, In
  <2> QED
    BY <2>1, <2>2
<1>4. CASE UNCHANGED vars \/ Kernel
  BY <1>2, <1>4 DEF vars, Kernel, Free, EvictTracked, EvictLineage, EvictStackAnchor,
     EvictSkbAnchor, StackAssociated, Allocate
<1>5. ASSUME NEW d \in Context, Calls(d) \/ Frames(d) PROVE InHand(c, p, i)'
  BY <1>2, <1>5 DEF Calls, CloneEntry, Clone, Copy, CloneExit, ReplaceEntry, Replace, ReplaceExit,
     Frames, XdpExit, XdpEntry
<1> QED
  BY <1>3, <1>4, <1>5, DriverAssumption DEF Next

\* An identity a packet has is never lost to it.
LEMMA OwnsStep ==
  ASSUME BaseInv, [Next]_vars, NEW p, NEW i \in Identity, Owns(p, i)
  PROVE  Owns(p, i)'
BY HistoryGrows, InHandStep DEF Owns

\* Whatever finds an identity for a packet has observed it, or observes it now.
LEMMA CarriersStep ==
  PlaceInv /\ XdpExitPairsWithEntry /\ CarriersNamed /\ [Next]_vars => CarriersNamed'
<1> SUFFICES ASSUME PlaceInv, XdpExitPairsWithEntry, CarriersNamed, [Next]_vars
             PROVE  CarriersNamed'
  OBVIOUS
<1>1. /\ None \notin Skb /\ None \notin Data /\ None \notin Call /\ None \notin Frame
      /\ None \notin Identity /\ None \notin Replacement
      /\ skb \in [Skb -> Data \cup {None}] /\ frame \in [Context -> Frame \cup {None}]
      /\ call \in [Context -> Call \cup {None}]
      /\ tracked_skbs \in [Skb -> Identity \cup {None}]
      /\ skb_data_lineages \in [Head -> Identity \cup {None}]
      /\ FreeSkbs = {s \in Skb : skb[s] = None}
      /\ \A h \in Head : h \in FreeHeads <=>
              /\ \A s \in Live : skb[s].head # h
              /\ \A c \in Context : frame[c] # None => frame[c].data.head # h
      /\ \A s \in Live : skb[s] \in Data
      /\ \A c \in Context : frame[c] # None => frame[c] \in Frame /\ frame[c].data \in Data
      /\ \A c \in Context : InCall(c) =>
              /\ call[c] \in Call /\ CallHolds(c)
              /\ call[c].skb \in Live
      /\ \A c, d \in Context : InCall(c) /\ InCall(d) /\ c # d => CallsApart(c, d)
      /\ \A s \in Skb : s \notin Held =>
              \A c \in Context : InCall(c) => call[c].skb # s /\ call[c].made # s
  BY PlaceParts DEF PlaceInv
<1>2. Live = {s \in Skb : skb[s] # None} /\ Live' = {s \in Skb : skb'[s] # None}
  BY DEF Live, FreeSkbs
<1>3. /\ \A s \in Live : /\ Carries(skb[s].packet, tracked_skbs[s])
                         /\ Carries(skb[s].packet, skb_data_lineages[skb[s].head])
      /\ \A c \in Context : frame[c] # None =>
           /\ Carries(frame[c].data.packet, xdp_entry_states[c])
           /\ Carries(frame[c].data.packet, skb_data_lineages[frame[c].data.head])
      /\ \A c \in Context : InCall(c) => Carries(skb[call[c].skb].packet, call[c].identity)
  BY DEF CarriersNamed
<1>4. /\ \A s \in Skb : tracked_skbs[s] # None => s \in Live
      /\ \A s \in Live : skb[s].head \in Head /\ skb[s].packet \in Packet
      /\ \A c \in Context : frame[c] # None => frame[c].data.head \in Head
      /\ xdp_entry_states \in [Context -> Identity \cup {None}]
      /\ named \in [Identity -> SUBSET Packet]
      /\ \A c \in Context : InCall(c) => call[c].identity \in Identity \cup {None}
      /\ \A s, t \in Live : skb[s].head = skb[t].head => skb[s].packet = skb[t].packet
      /\ \A c \in Context, s \in Live : frame[c] # None => frame[c].data.head # skb[s].head
      /\ \A c \in Context : frame[c] = None => xdp_entry_states[c] = None
  BY Parts DEF PlaceInv, TrackedLive, BaseInv, LineageTypeOK, HeadsApart, XdpExitPairsWithEntry
<1> DEFINE InHandNow(p, i) == \E c \in Context : /\ hook'[c] # None /\ hook'[c].identity = i
                                               /\ skb'[hook'[c].skb].packet = p
           Now(p, i) == \/ i = None
                        \/ p \in inherited' \/ p \in mistaken'
                        \/ p \in named'[i] \/ InHandNow(p, i)
<1>5. \A p : \A i \in Identity \cup {None} : Carries(p, i) => Now(p, i)
  <2> TAKE p
  <2>1. ASSUME NEW i \in Identity, Owns(p, i) PROVE Now(p, i)
    <3>1. Owns(p, i)'
      BY <2>1, OwnsStep DEF PlaceInv
    <3> QED
      BY <3>1 DEF Owns, InHand
  <2> QED
    BY <2>1, HistoryGrows DEF PlaceInv, Carries
<1>6. /\ \A s \in Live : /\ Now(skb[s].packet, tracked_skbs[s])
                         /\ Now(skb[s].packet, skb_data_lineages[skb[s].head])
      /\ \A c \in Context : frame[c] # None =>
           /\ Now(frame[c].data.packet, xdp_entry_states[c])
           /\ Now(frame[c].data.packet, skb_data_lineages[frame[c].data.head])
      /\ \A c \in Context : InCall(c) => Now(skb[call[c].skb].packet, call[c].identity)
  <2> HIDE DEF Now
  <2> QED
    BY <1>1, <1>2, <1>3, <1>4, <1>5
<1>7. \A p : Now(p, None)
  OBVIOUS
<1>8. ASSUME \A s \in Live' : /\ Now(skb'[s].packet, tracked_skbs'[s])
                              /\ Now(skb'[s].packet, skb_data_lineages'[skb'[s].head]),
             \A c \in Context : frame'[c] # None =>
               /\ Now(frame'[c].data.packet, xdp_entry_states'[c])
               /\ Now(frame'[c].data.packet, skb_data_lineages'[frame'[c].data.head]),
             \A c \in Context : call'[c] # None => Now(skb'[call'[c].skb].packet, call'[c].identity)
      PROVE  CarriersNamed'
  BY <1>8 DEF CarriersNamed, Carries, Owns, InHand, InCall
<1> HIDE DEF Now
\* Packets stay where they are, and i is filed for the packet of s.
<1>9. ASSUME UNCHANGED <<skb, frame, xdp_entry_states>>,
             NEW s \in Live, NEW i, Now(skb[s].packet, i),
             \/ UNCHANGED tracked_skbs
             \/ tracked_skbs' = [tracked_skbs EXCEPT ![s] = i]
             \/ tracked_skbs' = [tracked_skbs EXCEPT ![s] = None],
             \/ UNCHANGED skb_data_lineages
             \/ skb_data_lineages' = [skb_data_lineages EXCEPT ![skb[s].head] = i]
             \/ skb_data_lineages' = [skb_data_lineages EXCEPT ![skb[s].head] = None],
             \A c \in Context : call'[c] # None =>
               \/ call'[c].skb = s /\ call'[c].identity = i
               \/ call'[c] = call[c]
      PROVE  CarriersNamed'
  <2>1. \A t \in Live : \/ tracked_skbs'[t] \in {tracked_skbs[t], None}
                        \/ t = s /\ tracked_skbs'[t] = i
    BY <1>1, <1>2, <1>9
  <2>2. \A t \in Live : Now(skb[t].packet, tracked_skbs'[t])
    BY <1>6, <1>7, <1>9, <2>1
  <2>3. \A h \in Head : \/ skb_data_lineages'[h] \in {skb_data_lineages[h], None}
                        \/ h = skb[s].head /\ skb_data_lineages'[h] = i
    BY <1>1, <1>9
  <2>4. \A t \in Live : Now(skb[t].packet, skb_data_lineages'[skb[t].head])
    BY <1>4, <1>6, <1>7, <1>9, <2>3
  <2>5. \A c \in Context : frame[c] # None =>
          Now(frame[c].data.packet, skb_data_lineages'[frame[c].data.head])
    BY <1>4, <1>6, <1>7, <1>9, <2>3
  <2>6. Live' = Live
    BY <1>2, <1>9
  <2>7. \A c \in Context : call'[c] # None => Now(skb[call'[c].skb].packet, call'[c].identity)
    BY <1>6, <1>9 DEF InCall
  <2> QED
    BY <1>6, <1>8, <1>9, <2>2, <2>4, <2>5, <2>6, <2>7
\* Packets come and go, and nothing is filed.
<1>10. ASSUME UNCHANGED skb_data_lineages,
              \A s \in Live' :
                \/ s \in Live /\ skb'[s] = skb[s] /\ tracked_skbs'[s] = tracked_skbs[s]
                \/ /\ tracked_skbs'[s] = None
                   /\ Now(skb'[s].packet, skb_data_lineages[skb'[s].head]),
              \A c \in Context : frame'[c] # None =>
                frame'[c] = frame[c] /\ xdp_entry_states'[c] = xdp_entry_states[c],
              \A c \in Context : call'[c] # None =>
                /\ InCall(c) /\ call'[c].identity = call[c].identity
                /\ skb'[call'[c].skb].packet = skb[call[c].skb].packet
       PROVE  CarriersNamed'
  <2>1. \A s \in Live' : /\ Now(skb'[s].packet, tracked_skbs'[s])
                         /\ Now(skb'[s].packet, skb_data_lineages'[skb'[s].head])
    BY <1>6, <1>7, <1>10
  <2>2. \A c \in Context : frame'[c] # None =>
          /\ Now(frame'[c].data.packet, xdp_entry_states'[c])
          /\ Now(frame'[c].data.packet, skb_data_lineages'[frame'[c].data.head])
    BY <1>6, <1>10
  <2>3. \A c \in Context : call'[c] # None => Now(skb'[call'[c].skb].packet, call'[c].identity)
    BY <1>6, <1>10
  <2> QED
    BY <1>8, <2>1, <2>2, <2>3
\* One sk_buff is new, another may have gone.
<1>11. ASSUME NEW s \in FreeSkbs, NEW v, skb' = [skb EXCEPT ![s] = v],
              Now(v.packet, skb_data_lineages[v.head]),
              UNCHANGED <<tracked_skbs, skb_data_lineages>>,
              \A c \in Context : frame'[c] # None =>
                frame'[c] = frame[c] /\ xdp_entry_states'[c] = xdp_entry_states[c],
              \A c \in Context : call'[c] # None =>
                InCall(c) /\ call'[c].identity = call[c].identity /\ call'[c].skb = call[c].skb
       PROVE  CarriersNamed'
  <2>1. /\ skb'[s] = v /\ tracked_skbs'[s] = None
        /\ \A t \in Skb : t # s => skb'[t] = skb[t] /\ tracked_skbs'[t] = tracked_skbs[t]
    BY <1>1, <1>2, <1>4, <1>11
  <2>2. \A t \in Live' :
          \/ t \in Live /\ skb'[t] = skb[t] /\ tracked_skbs'[t] = tracked_skbs[t]
          \/ tracked_skbs'[t] = None /\ Now(skb'[t].packet, skb_data_lineages[skb'[t].head])
    BY <1>2, <1>11, <2>1
  <2>3. \A c \in Context : call'[c] # None =>
          /\ InCall(c) /\ call'[c].identity = call[c].identity
          /\ skb'[call'[c].skb].packet = skb[call[c].skb].packet
    BY <1>1, <1>2, <1>11, <2>1
  <2> QED
    BY <1>10, <1>11, <2>2, <2>3
<1>12. \A p, h : Inherit(p, h) => Now(p, skb_data_lineages[h])
  BY DEF Inherit, Now
<1>13. \A i \in Identity : \A p : Observe(i, p) => Now(p, i)
  BY <1>4 DEF Observe, Now
<1>14. CASE UNCHANGED vars
  BY <1>2, <1>6, <1>8, <1>14 DEF vars, kernelVars, lineageVars, InCall
<1>15. ASSUME NEW c \in Context, hook[c] # None
       PROVE  hook[c].skb \in Live /\ Now(skb[hook[c].skb].packet, hook[c].identity)
  <2>1. hook[c].skb \in Live /\ hook[c].identity \in Identity \cup {None}
    BY <1>15, PlaceParts DEF PlaceInv
  <2>2. Carries(skb[hook[c].skb].packet, hook[c].identity)
    BY <1>15 DEF Carries, Owns, InHand
  <2> QED
    BY <1>5, <2>1, <2>2
<1>16. ASSUME NEW c \in Context, Hooks(c) PROVE CarriersNamed'
  <2>1. UNCHANGED <<skb, frame, call, xdp_entry_states>>
    BY <1>16, HookSteps DEF kernelVars
  <2>2. CASE UNCHANGED <<tracked_skbs, skb_data_lineages>>
    BY <1>2, <1>6, <1>8, <2>1, <2>2 DEF InCall
  <2>3. CASE Withdraw(c) \/ FileTracked(c) \/ \E a \in Anchor \cup {None} : Report(c, a)
    <3> DEFINE s == hook[c].skb
               i == hook[c].identity
    <3>1. hook[c] # None
      BY <2>3 DEF Withdraw, FileTracked, Report, In
    <3>2. s \in Live /\ Now(skb[s].packet, i)
      BY <1>15, <3>1
    <3>3. /\ UNCHANGED tracked_skbs \/ tracked_skbs' = [tracked_skbs EXCEPT ![s] = i]
          /\ \/ UNCHANGED skb_data_lineages
             \/ skb_data_lineages' = [skb_data_lineages EXCEPT ![skb[s].head] = i]
             \/ skb_data_lineages' = [skb_data_lineages EXCEPT ![skb[s].head] = None]
      BY <2>3 DEF Withdraw, FileTracked, Report, associate_skb_data
    <3> HIDE DEF s, i
    <3> QED
      BY <1>9, <2>1, <3>2, <3>3
  <2> QED
    BY <1>16, <2>2, <2>3 DEF Hooks, Begin, TraceTracked, TraceFiltered, TraceMatched, lineageVars
<1>17. ASSUME UNCHANGED <<skb, frame, call, tracked_skbs, skb_data_lineages, xdp_entry_states>>
       PROVE  CarriersNamed'
  BY <1>2, <1>6, <1>8, <1>17 DEF InCall
<1>18. /\ \A a \in Anchor : EvictStackAnchor(a) => CarriersNamed'
       /\ \A s \in Skb : EvictSkbAnchor(s) => CarriersNamed'
  BY <1>17 DEF EvictStackAnchor, EvictSkbAnchor, kernelVars, lineageVars
<1>19. ASSUME NEW a \in Anchor, StackAssociated(a) PROVE CarriersNamed'
  BY <1>17, <1>19 DEF StackAssociated, kernelVars, lineageVars
<1>20. ASSUME NEW s \in Skb, Free(s) PROVE CarriersNamed'
  <2>1. /\ s \in Live \ Held /\ skb' = [skb EXCEPT ![s] = None]
        /\ tracked_skbs' = [tracked_skbs EXCEPT ![s] = None]
        /\ UNCHANGED <<frame, call, skb_data_lineages, xdp_entry_states>>
    BY <1>20 DEF Free, lifetime_end, forget_tracked
  <2>2. \A t \in Live' : t \in Live /\ skb'[t] = skb[t] /\ tracked_skbs'[t] = tracked_skbs[t]
    BY <1>1, <1>2, <2>1
  <2>3. \A c \in Context : call'[c] # None =>
          /\ InCall(c) /\ call'[c].identity = call[c].identity
          /\ skb'[call'[c].skb].packet = skb[call[c].skb].packet
    BY <1>1, <1>2, <2>1 DEF InCall
  <2> QED
    BY <1>10, <2>1, <2>2, <2>3
<1>21. ASSUME NEW s \in Skb, EvictTracked(s) PROVE CarriersNamed'
  BY <1>6, <1>7, <1>9, <1>21 DEF EvictTracked, kernelVars
<1>22. ASSUME NEW h \in Head, EvictLineage(h) PROVE CarriersNamed'
  <2>1. /\ UNCHANGED <<skb, frame, call, tracked_skbs, xdp_entry_states>>
        /\ skb_data_lineages' = [skb_data_lineages EXCEPT ![h] = None]
    BY <1>22 DEF EvictLineage, kernelVars
  <2>2. \A g \in Head : skb_data_lineages'[g] \in {skb_data_lineages[g], None}
    BY <1>1, <2>1
  <2>3. Live' = Live
    BY <1>2, <2>1
  <2> QED
    BY <1>4, <1>6, <1>7, <1>8, <2>1, <2>2, <2>3 DEF InCall
<1>23. ASSUME NEW s \in Skb, NEW h \in Head, Allocate(s, h) PROVE CarriersNamed'
  <2> DEFINE v == [packet |-> packets', head |-> h]
  <2>1. /\ s \in FreeSkbs /\ skb' = [skb EXCEPT ![s] = v]
        /\ UNCHANGED <<frame, call, tracked_skbs, skb_data_lineages, xdp_entry_states>>
        /\ Inherit(packets', h) /\ v.packet = packets' /\ v.head = h
    BY <1>23 DEF Allocate, lineageVars
  <2> HIDE DEF v
  <2> QED
    BY <1>11, <1>12, <2>1 DEF InCall
<1>24. ASSUME NEW c \in Context, NEW s \in Skb, NEW op \in {"clone", "copy"}, CloneEntry(c, s, op)
       PROVE  CarriersNamed'
  <2> DEFINE i == tracked_skbs[s]
             x == [op |-> op, skb |-> s, made |-> None, identity |-> i]
  <2>1. /\ s \in Live /\ Now(skb[s].packet, i)
        /\ UNCHANGED <<skb, frame, xdp_entry_states, tracked_skbs, skb_data_lineages>>
        /\ call' = [call EXCEPT ![c] = x] /\ x.identity = i /\ x.skb = s
    BY <1>6, <1>24 DEF CloneEntry, lineageVars
  <2> HIDE DEF i, x
  <2>2. \A d \in Context : call'[d] # None =>
          \/ call'[d].skb = s /\ call'[d].identity = i
          \/ call'[d] = call[d]
    BY <1>1, <2>1
  <2> QED
    BY <1>9, <2>1, <2>2
<1>25. ASSUME NEW c \in Context, NEW s \in Skb, ReplaceEntry(c, s) PROVE CarriersNamed'
  <2> DEFINE i == tracked_skbs[s]
             x == [op |-> "replace", skb |-> s, made |-> None, identity |-> i]
  <2>1. /\ s \in Live /\ Now(skb[s].packet, i)
        /\ UNCHANGED <<skb, frame, xdp_entry_states, tracked_skbs, skb_data_lineages>>
        /\ call' = [call EXCEPT ![c] = x] /\ x.identity = i /\ x.skb = s
    BY <1>6, <1>25 DEF ReplaceEntry, lineageVars
  <2> HIDE DEF i, x
  <2>2. \A d \in Context : call'[d] # None =>
          \/ call'[d].skb = s /\ call'[d].identity = i
          \/ call'[d] = call[d]
    BY <1>1, <2>1
  <2> QED
    BY <1>9, <2>1, <2>2
<1>26. ASSUME NEW c \in Context, NEW s \in Skb, InCall(c), call' = [call EXCEPT ![c].made = s]
       PROVE  \A d \in Context : call'[d] # None =>
                InCall(d) /\ call'[d].identity = call[d].identity /\ call'[d].skb = call[d].skb
  BY <1>1, <1>26 DEF InCall, Call
<1>27. ASSUME NEW c \in Context, NEW s \in Skb, Clone(c, s) PROVE CarriersNamed'
  <2>1. /\ InCall(c) /\ s \in FreeSkbs /\ skb' = [skb EXCEPT ![s] = skb[call[c].skb]]
        /\ call' = [call EXCEPT ![c].made = s]
        /\ UNCHANGED <<frame, tracked_skbs, skb_data_lineages, xdp_entry_states>>
    BY <1>27 DEF Clone, Making, Inside, lineageVars, InCall
  <2>2. \A d \in Context : call'[d] # None =>
          InCall(d) /\ call'[d].identity = call[d].identity /\ call'[d].skb = call[d].skb
    BY <1>26, <2>1
  <2>3. Now(skb[call[c].skb].packet, skb_data_lineages[skb[call[c].skb].head])
    BY <1>1, <1>6, <2>1
  <2> QED
    BY <1>11, <2>1, <2>2, <2>3
<1>28. ASSUME NEW c \in Context, NEW s \in Skb, NEW h \in Head, Copy(c, s, h) PROVE CarriersNamed'
  <2>3. PICK p \in Packet : skb' = [skb EXCEPT ![s] = [packet |-> p, head |-> h]] /\ Inherit(p, h)
    BY <1>28 DEF Copy
  <2> DEFINE v == [packet |-> p, head |-> h]
  <2>1. /\ InCall(c) /\ s \in FreeSkbs /\ skb' = [skb EXCEPT ![s] = v]
        /\ call' = [call EXCEPT ![c].made = s]
        /\ UNCHANGED <<frame, tracked_skbs, skb_data_lineages, xdp_entry_states>>
        /\ Inherit(p, h)
    BY <1>28, <2>3 DEF Copy, Making, Inside, lineageVars, InCall
  <2>2. v.packet = p /\ v.head = h
    OBVIOUS
  <2> HIDE DEF v
  <2> QED
    BY <1>11, <1>12, <1>26, <2>1, <2>2
<1>29. ASSUME NEW c \in Context, NEW s \in Skb, NEW h \in Head, Replace(c, s, h)
       PROVE  CarriersNamed'
  <2> DEFINE old == call[c].skb
             v == [packet |-> skb[old].packet, head |-> h]
  <2>1. /\ InCall(c) /\ old \in Live /\ s \in FreeSkbs
        /\ skb' = [skb EXCEPT ![s] = v, ![old] = None]
        /\ call' = [call EXCEPT ![c].made = s, ![c].skb = s]
        /\ tracked_skbs' = [tracked_skbs EXCEPT ![old] = None]
        /\ UNCHANGED <<frame, skb_data_lineages, xdp_entry_states>>
        /\ Inherit(skb[old].packet, h)
        /\ v.packet = skb[old].packet /\ v.head = h
    BY <1>1, <1>29 DEF Replace, Making, Inside, lifetime_end, forget_tracked, InCall
  <2> HIDE DEF v
  <2>2. /\ skb'[s] = v /\ skb'[old] = None /\ s # old
        /\ \A t \in Skb : t # s /\ t # old => skb'[t] = skb[t] /\ tracked_skbs'[t] = tracked_skbs[t]
    BY <1>1, <1>2, <2>1
  <2>3. tracked_skbs'[s] = None
    BY <1>1, <1>2, <1>4, <2>1, <2>2
  <2>4. \A t \in Live' :
          \/ t \in Live /\ skb'[t] = skb[t] /\ tracked_skbs'[t] = tracked_skbs[t]
          \/ tracked_skbs'[t] = None /\ Now(skb'[t].packet, skb_data_lineages[skb'[t].head])
    <3>1. Now(v.packet, skb_data_lineages[v.head])
      BY <1>12, <2>1
    <3> QED
      BY <1>2, <2>1, <2>2, <2>3, <3>1
  <2>5. call'[c].skb = s /\ call'[c].identity = call[c].identity
    BY <1>1, <2>1 DEF Call
  <2>6. \A d \in Context : d # c /\ call'[d] # None =>
          /\ InCall(d) /\ call'[d] = call[d]
          /\ call[d].skb # old /\ call[d].skb # s
    BY <1>1, <1>2, <2>1 DEF InCall, CallsApart
  <2>7. \A d \in Context : call'[d] # None =>
          /\ InCall(d) /\ call'[d].identity = call[d].identity
          /\ skb'[call'[d].skb].packet = skb[call[d].skb].packet
    BY <1>1, <1>2, <2>1, <2>2, <2>5, <2>6
  <2> QED
    BY <1>10, <2>1, <2>4, <2>7
<1>30. ASSUME NEW c \in Context, CloneExit(c) PROVE CarriersNamed'
  <2> DEFINE i == pending_clones[Key[c]]
             s == call[c].made
  <2>1. /\ InCall(c) /\ call[c].op \in {"clone", "copy"}
        /\ UNCHANGED <<skb, frame, xdp_entry_states>>
        /\ call' = [call EXCEPT ![c] = None]
    BY <1>30 DEF CloneExit, Inside, InCall
  <2>2. \A d \in Context : call'[d] # None => call'[d] = call[d]
    BY <1>1, <2>1
  <2>3. CASE s = None \/ i = None
    <3>1. UNCHANGED <<tracked_skbs, skb_data_lineages>>
      BY <1>30, <2>3 DEF CloneExit
    <3> QED
      BY <1>1, <1>6, <1>7, <1>9, <2>1, <2>2, <3>1
  <2>4. CASE s # None /\ i # None
    <3>1. /\ tracked_skbs' = [tracked_skbs EXCEPT ![s] = i]
          /\ skb_data_lineages' = [skb_data_lineages EXCEPT ![skb[s].head] = i]
          /\ i # call[c].identity => skb[s].packet \in mistaken'
      BY <1>30, <2>4 DEF CloneExit, associate_skb_data
    <3>2. s \in Live
      BY <1>1, <2>1, <2>4 DEF CallHolds
    <3>3. CASE i = call[c].identity
      <4>1. skb[s].packet = skb[call[c].skb].packet
        BY <2>1, <2>4, <3>3 DEF PlaceInv, CallsMakeAlike, MadeAlike
      <4>2. Now(skb[s].packet, i)
        BY <1>6, <2>1, <3>3, <4>1
      <4> HIDE DEF i, s
      <4> QED
        BY <1>9, <2>1, <2>2, <3>1, <3>2, <4>2
    <3>4. CASE i # call[c].identity
      <4>1. Now(skb[s].packet, i)
        BY <3>1, <3>4 DEF Now
      <4> HIDE DEF i, s
      <4> QED
        BY <1>9, <2>1, <2>2, <3>1, <3>2, <4>1
    <3> QED
      BY <3>3, <3>4
  <2> QED
    BY <2>3, <2>4
<1>31. ASSUME NEW c \in Context, ReplaceExit(c) PROVE CarriersNamed'
  <2> DEFINE r == pending_skb_replacements[Key[c]]
             s == Slot(r.slot)
  <2>1. /\ InCall(c)
        /\ UNCHANGED <<skb, frame, xdp_entry_states>>
        /\ call' = [call EXCEPT ![c] = None]
    BY <1>31 DEF ReplaceExit, Inside, InCall
  <2>2. \A d \in Context : call'[d] # None => call'[d] = call[d]
    BY <1>1, <2>1
  <2>3. CASE r = None
    <3>1. UNCHANGED <<tracked_skbs, skb_data_lineages>>
      BY <1>31, <2>3 DEF ReplaceExit
    <3> QED
      BY <1>1, <1>6, <1>7, <1>9, <2>1, <2>2, <3>1
  <2>4. CASE r # None
    <3>1. /\ tracked_skbs' = [tracked_skbs EXCEPT ![s] = r.identity]
          /\ skb_data_lineages' = [skb_data_lineages EXCEPT ![skb[s].head] = r.identity]
      BY <1>31, <2>4 DEF ReplaceExit, associate_skb_data
    <3>2. Key[c] \in Pid
      BY DEF Pid
    <3>3. /\ InCall(r.slot) /\ call[r.slot].identity = r.identity /\ r.slot \in Context
          /\ call[r.slot].op = "replace"
      BY <2>4, <3>2 DEF PlaceInv, PendingIsCall, BaseInv, LineageTypeOK, Replacement
    <3> HIDE DEF r
    <3>4. s = call[r.slot].skb /\ s \in Live
      BY <1>1, <3>3 DEF Slot, CallHolds
    <3>5. Now(skb[s].packet, r.identity)
      BY <1>6, <3>3, <3>4
    <3> HIDE DEF s
    <3> QED
      BY <1>9, <2>1, <2>2, <3>1, <3>4, <3>5
  <2> QED
    BY <2>3, <2>4
<1>32. ASSUME NEW c \in Context, XdpExit(c) PROVE CarriersNamed'
  <2>1. /\ UNCHANGED <<call, tracked_skbs, skb_data_lineages>>
        /\ frame[c] # None
        /\ \A d \in Context : frame'[d] # None =>
             frame'[d] = frame[d] /\ xdp_entry_states'[d] = xdp_entry_states[d]
    BY <1>1, <1>4, <1>32 DEF XdpExit, xdp_exit_filed, lineageVars
  <2>2. CASE UNCHANGED skb
    BY <1>2, <1>10, <2>1, <2>2 DEF InCall
  <2>3. ASSUME NEW s \in FreeSkbs, skb' = [skb EXCEPT ![s] = frame[c].data] PROVE CarriersNamed'
    BY <1>6, <1>11, <2>1, <2>3 DEF InCall
  <2> QED
    BY <1>32, <2>2, <2>3 DEF XdpExit
<1>33. ASSUME NEW c \in Context, NEW h \in Head, XdpEntry(c, h) PROVE CarriersNamed'
  <2> DEFINE p == packets + 1
  <2>1. PICK i \in Identity \cup {None} :
          /\ \/ i = skb_data_lineages[h] /\ UNCHANGED skb_data_lineages
             \/ skb_data_lineages' = [skb_data_lineages EXCEPT ![h] = i]
          /\ xdp_entry_states' = IF i = None THEN xdp_entry_states
                                 ELSE [xdp_entry_states EXCEPT ![c] = i]
          /\ named' = IF i = None THEN named ELSE [named EXCEPT ![i] = @ \cup {p}]
          /\ frame' = [frame EXCEPT ![c] = [data |-> [packet |-> p, head |-> h], entry |-> i]]
    BY <1>33 DEF XdpEntry, xdp_entry_filed
  <2> HIDE DEF p
  <2>2. /\ UNCHANGED <<skb, call, tracked_skbs>> /\ h \in FreeHeads /\ frame[c] = None
    BY <1>33 DEF XdpEntry
  <2>3. Now(p, i)
    BY <1>4, <2>1 DEF Now
  <2>4. /\ xdp_entry_states'[c] = i /\ skb_data_lineages'[h] = i
        /\ frame'[c].data.packet = p /\ frame'[c].data.head = h
        /\ \A d \in Context : d # c => /\ frame'[d] = frame[d]
                                       /\ xdp_entry_states'[d] = xdp_entry_states[d]
        /\ \A g \in Head : g # h => skb_data_lineages'[g] = skb_data_lineages[g]
    BY <1>1, <1>4, <2>1, <2>2
  <2>5. /\ \A s \in Live : skb[s].head # h
        /\ \A d \in Context : frame[d] # None => frame[d].data.head # h
    BY <1>1, <2>2
  <2>6. Live' = Live
    BY <1>2, <2>2
  <2>7. \A s \in Live' : /\ Now(skb'[s].packet, tracked_skbs'[s])
                         /\ Now(skb'[s].packet, skb_data_lineages'[skb'[s].head])
    BY <1>4, <1>6, <2>2, <2>4, <2>5, <2>6
  <2>8. \A d \in Context : frame'[d] # None =>
               /\ Now(frame'[d].data.packet, xdp_entry_states'[d])
               /\ Now(frame'[d].data.packet, skb_data_lineages'[frame'[d].data.head])
    BY <1>4, <1>6, <2>3, <2>4, <2>5
  <2>9. \A d \in Context : call'[d] # None => Now(skb'[call'[d].skb].packet, call'[d].identity)
    BY <1>6, <2>2 DEF InCall
  <2> QED
    BY <1>8, <2>7, <2>8, <2>9
<1> QED
  BY <1>14, <1>16, <1>18, <1>19, <1>20, <1>21, <1>22, <1>23, <1>24, <1>25, <1>27, <1>28, <1>29,
     <1>30, <1>31, <1>32, <1>33, DriverAssumption DEF Next, Kernel, Calls, Frames

\* What is observed under an identity is of a packet that carries it, or of the
\* packet that the number is handed out to.
LEMMA NamesStep == IdentityInv /\ [Next]_vars => NamesOnePacket'
<1> SUFFICES ASSUME IdentityInv, [Next]_vars PROVE NamesOnePacket'
  OBVIOUS
<1>1. /\ None \notin Identity /\ Identity \subseteq Nat /\ lineage_sequence \in Nat
      /\ named \in [Identity -> SUBSET Packet]
      /\ tracked_skbs \in [Skb -> Identity \cup {None}]
      /\ skb_data_lineages \in [Head -> Identity \cup {None}]
      /\ xdp_entry_states \in [Context -> Identity \cup {None}]
      /\ \A c \in Context : InCall(c) =>
           call[c].skb \in Live /\ CallHolds(c) /\ call[c].identity \in Identity \cup {None}
  BY IssuedTypes, PlaceParts DEF IdentityInv, PlaceInv, BaseInv, LineageTypeOK
<1>2. /\ \A s \in Live : /\ Carries(skb[s].packet, tracked_skbs[s])
                         /\ Carries(skb[s].packet, skb_data_lineages[skb[s].head])
      /\ \A c \in Context : frame[c] # None =>
           /\ Carries(frame[c].data.packet, xdp_entry_states[c])
           /\ Carries(frame[c].data.packet, skb_data_lineages[frame[c].data.head])
      /\ \A c \in Context : InCall(c) => Carries(skb[call[c].skb].packet, call[c].identity)
  BY DEF IdentityInv, CarriersNamed
<1>3. /\ \A i \in Identity : \A p, q \in Packet \ (inherited \cup mistaken) :
           Owns(p, i) /\ Owns(q, i) => p = q
      /\ \A i \in Identity : i > lineage_sequence => named[i] = {}
      /\ \A c \in Context : hook[c] # None => IsIssued(hook[c].identity)
  BY DEF IdentityInv, NamesOnePacket, Issued
<1>4. /\ inherited \subseteq inherited' /\ mistaken \subseteq mistaken'
      /\ \A c \in Context : hook[c] # None => skb'[hook[c].skb] = skb[hook[c].skb]
  BY HistoryGrows, HookStep DEF IdentityInv, PlaceInv, BaseInv
\* Only p has an identity now that it had not, and that was nobody else's.
<1>5. ASSUME NEW i \in Identity, NEW p,
             Carries(p, i) \/ p \in inherited' \/ \A q : ~Owns(q, i),
             \A j \in Identity : \A q : Owns(q, j)' => Owns(q, j) \/ (q = p /\ j = i)
      PROVE  NamesOnePacket'
  <2> SUFFICES ASSUME NEW j \in Identity, NEW q \in Packet \ (inherited' \cup mistaken'),
                      NEW r \in Packet \ (inherited' \cup mistaken'), Owns(q, j)', Owns(r, j)'
               PROVE  q = r
    BY DEF NamesOnePacket
  <2>1. /\ Owns(q, j) \/ (q = p /\ j = i)
        /\ Owns(r, j) \/ (r = p /\ j = i)
    BY <1>5
  <2>2. CASE \A t : ~Owns(t, i)
    BY <1>3, <1>4, <2>1, <2>2
  <2>3. CASE Carries(p, i) \/ p \in inherited'
    <3>1. p \notin inherited' \cup mistaken' => Owns(p, i)
      BY <1>1, <1>4, <2>3 DEF Carries
    <3>2. Owns(q, j) /\ Owns(r, j)
      BY <2>1, <3>1
    <3> QED
      BY <1>3, <1>4, <3>2
  <2> QED
    BY <1>5, <2>2, <2>3
<1>6. ASSUME \A j \in Identity : \A q : Owns(q, j)' => Owns(q, j) PROVE NamesOnePacket'
  BY <1>3, <1>4, <1>6 DEF NamesOnePacket
\* Hooks stay.
<1>7. ASSUME UNCHANGED hook, NEW j \in Identity, NEW q, Owns(q, j)'
      PROVE  Owns(q, j) \/ q \in named'[j]
  BY <1>4, <1>7 DEF Owns, InHand
<1>8. ASSUME UNCHANGED <<hook, named>> PROVE NamesOnePacket'
  BY <1>6, <1>7, <1>8 DEF Owns
<1>9. ASSUME UNCHANGED hook, NEW i \in Identity, NEW p,
             Carries(p, i) \/ p \in inherited' \/ \A q : ~Owns(q, i),
             named' = [named EXCEPT ![i] = @ \cup {p}]
      PROVE  NamesOnePacket'
  <2>1. \A j \in Identity : named'[j] = IF j = i THEN named[i] \cup {p} ELSE named[j]
    BY <1>1, <1>9
  <2>2. \A j \in Identity : \A q : Owns(q, j)' => Owns(q, j) \/ (q = p /\ j = i)
    BY <1>7, <1>9, <2>1 DEF Owns
  <2> QED
    BY <1>5, <1>9, <2>2
<1>10. ASSUME NEW i, NextIdentity(i) PROVE i \in Identity /\ \A q : ~Owns(q, i)
  <2>1. i \in Identity /\ i = lineage_sequence + 1
    BY <1>10 DEF NextIdentity
  <2>2. named[i] = {}
    BY <1>1, <1>3, <2>1
  <2>3. ASSUME NEW c \in Context, hook[c] # None PROVE hook[c].identity # i
    BY <1>1, <1>3, <2>1, <2>3 DEF IsIssued
  <2> QED
    BY <2>1, <2>2, <2>3 DEF Owns, InHand
\* The hook of c has i in hand, of the sk_buff s.
<1>11. ASSUME NEW c \in Context, UNCHANGED <<skb, named>>,
              \A d \in Context \ {c} : hook'[d] = hook[d],
              NEW s, NEW i \in Identity \cup {None}, hook'[c].identity = i, hook'[c].skb = s,
              Carries(skb[s].packet, i) \/ \A q : ~Owns(q, i)
       PROVE  NamesOnePacket'
  <2>1. ASSUME NEW j \in Identity, NEW q, Owns(q, j)'
        PROVE  Owns(q, j) \/ (q = skb[s].packet /\ j = i)
    BY <1>11, <2>1 DEF Owns, InHand
  <2>2. CASE i = None
    BY <1>1, <1>6, <2>1, <2>2
  <2>3. CASE i \in Identity
    BY <1>5, <1>11, <2>1, <2>3
  <2> QED
    BY <2>2, <2>3
<1>12. ASSUME NEW c \in Context, Hooks(c) PROVE NamesOnePacket'
  <2>1. UNCHANGED skb /\ BaseInv /\ \A d \in Context \ {c} : hook'[d] = hook[d]
    BY <1>12, HookSteps DEF kernelVars, IdentityInv, PlaceInv, BaseInv
  <2>2. ASSUME NEW s \in Skb, Begin(c, s) PROVE NamesOnePacket'
    <3> DEFINE i == hook'[c].identity
    <3>1. /\ hook'[c].skb = s /\ s \in Live
          /\ i = IF IsTracked(s) THEN None ELSE skb_data_lineages[skb[s].head]
      BY <2>1, <2>2, BeginsWith
    <3>2. UNCHANGED named
      BY <2>2 DEF Begin
    <3>3. Carries(skb[s].packet, i)
      BY <1>2, <3>1 DEF Carries
    <3>4. i \in Identity \cup {None}
      BY <1>1, <2>1, <3>1, Parts DEF BaseInv
    <3>5. hook'[c].identity = i
      OBVIOUS
    <3> HIDE DEF i
    <3> QED
      BY <1>11, <2>1, <3>1, <3>2, <3>3, <3>4, <3>5
  <2>3. ASSUME hook[c] # None,
               NEW i \in Identity \cup {None}, NEW step \in {"filter", "withdraw", "file", "associate"},
               Moves(c, step, i), UNCHANGED named,
               Carries(skb[hook[c].skb].packet, i) \/ \A q : ~Owns(q, i)
        PROVE  NamesOnePacket'
    BY <1>11, <2>1, <2>3, MovesTo
  <2>4. CASE Withdraw(c) \/ FileTracked(c)
    <3>1. /\ hook[c] # None /\ Moves(c, "associate", hook[c].identity) /\ UNCHANGED named
          /\ hook[c].identity \in Identity \cup {None}
      BY <2>1, <2>4, PlaceParts DEF Withdraw, FileTracked, In
    <3>2. Carries(skb[hook[c].skb].packet, hook[c].identity)
      BY <3>1 DEF Carries, Owns, InHand
    <3> QED
      BY <2>3, <3>1, <3>2
  <2>5. CASE TraceTracked(c)
    <3>1. /\ hook[c] # None /\ Moves(c, "associate", tracked_skbs[hook[c].skb]) /\ UNCHANGED named
          /\ hook[c].skb \in Live
      BY <2>1, <2>5, PlaceParts DEF TraceTracked, In
    <3>2. Carries(skb[hook[c].skb].packet, tracked_skbs[hook[c].skb])
      BY <1>2, <3>1
    <3>3. tracked_skbs[hook[c].skb] \in Identity \cup {None}
      BY <1>1, <3>1 DEF Live
    <3> QED
      BY <2>3, <3>1, <3>2, <3>3
  <2>6. CASE TraceMatched(c)
    <3>1. PICK i \in Identity : /\ hook[c] # None /\ NextIdentity(i) /\ Moves(c, "file", i)
                                /\ UNCHANGED named
      BY <2>6 DEF TraceMatched, In
    <3> QED
      BY <1>10, <2>3, <3>1
  <2>7. ASSUME NEW j \in Identity, NEW q, hook'[c] = None, Owns(q, j)'
        PROVE  Owns(q, j) \/ q \in named'[j]
    BY <2>1, <2>7 DEF Owns, InHand
  <2>8. CASE TraceFiltered(c)
    <3>1. hook'[c] = None /\ UNCHANGED named
      BY <2>1, <2>8, EndsHook DEF TraceFiltered
    <3> QED
      BY <1>6, <2>7, <3>1 DEF Owns
  <2>9. ASSUME NEW a \in Anchor \cup {None}, Report(c, a) PROVE NamesOnePacket'
    <3>1. /\ hook[c] # None /\ hook'[c] = None
          /\ named' = [named EXCEPT ![hook[c].identity] = @ \cup {skb[hook[c].skb].packet}]
      BY <2>1, <2>9, EndsHook DEF Report, In, Observe
    <3>2. \A j \in Identity : \A q \in named'[j] :
            q \in named[j] \/ (j = hook[c].identity /\ q = skb[hook[c].skb].packet)
      BY <1>1, <3>1
    <3>3. \A j \in Identity : \A q : Owns(q, j)' => Owns(q, j)
      BY <2>7, <3>1, <3>2 DEF Owns, InHand
    <3> QED
      BY <1>6, <3>3
  <2> QED
    BY <1>12, <2>2, <2>4, <2>5, <2>6, <2>8, <2>9 DEF Hooks
<1>13. ASSUME NEW a \in Anchor, StackAssociated(a) PROVE NamesOnePacket'
  <2> DEFINE s == Attributed(a)
  <2>1. /\ s \in Live /\ s \in Skb /\ tracked_skbs[s] # None /\ UNCHANGED hook
        /\ named' = [named EXCEPT ![tracked_skbs[s]] = @ \cup {skb[s].packet}]
    BY <1>13 DEF StackAssociated, IsTracked, Live, Observe
  <2> HIDE DEF s
  <2>2. tracked_skbs[s] \in Identity /\ Carries(skb[s].packet, tracked_skbs[s])
    BY <1>1, <1>2, <2>1
  <2> QED
    BY <1>9, <2>1, <2>2
<1>14. CASE UNCHANGED vars
  BY <1>8, <1>14 DEF vars
<1>15. CASE /\ Kernel
            /\ ~\E a \in Anchor : StackAssociated(a)
  BY <1>8, <1>15 DEF Kernel, Free, EvictTracked, EvictLineage, EvictStackAnchor, EvictSkbAnchor,
     Allocate
<1>16. ASSUME NEW c \in Context, Calls(c) PROVE NamesOnePacket'
  BY <1>8, <1>16 DEF Calls, CloneEntry, Clone, Copy, CloneExit, ReplaceEntry, Replace, ReplaceExit
<1>17. ASSUME NEW c \in Context, XdpExit(c) PROVE NamesOnePacket'
  <2> DEFINE i == xdp_entry_states[c]
  <2>1. /\ frame[c] # None /\ i \in Identity \cup {None} /\ UNCHANGED hook
        /\ named' = IF i = None THEN named ELSE [named EXCEPT ![i] = @ \cup {frame[c].data.packet}]
    BY <1>1, <1>17 DEF XdpExit
  <2>2. Carries(frame[c].data.packet, i)
    BY <1>2, <2>1
  <2> HIDE DEF i
  <2> QED
    BY <1>8, <1>9, <2>1, <2>2
<1>18. ASSUME NEW c \in Context, NEW h \in Head, XdpEntry(c, h) PROVE NamesOnePacket'
  <2> DEFINE p == packets + 1
  <2>1. Inherit(p, h) /\ UNCHANGED hook
    BY <1>18 DEF XdpEntry
  <2>2. PICK i \in Identity \cup {None} :
          /\ \/ skb_data_lineages[h] # None
             \/ NextIdentity(i)
             \/ i = None
          /\ named' = IF i = None THEN named ELSE [named EXCEPT ![i] = @ \cup {p}]
    BY <1>18 DEF XdpEntry
  <2> HIDE DEF p
  <2>3. i # None => p \in inherited' \/ \A q : ~Owns(q, i)
    BY <1>10, <2>1, <2>2 DEF Inherit
  <2> QED
    BY <1>8, <1>9, <2>1, <2>2, <2>3
<1> QED
  BY <1>12, <1>13, <1>14, <1>15, <1>16, <1>17, <1>18, DriverAssumption DEF Next, Frames, Kernel

\* The parts of the invariant about identities are preserved together.
LEMMA IdentityStep == IdentityInv /\ [Next]_vars => IdentityInv'
BY PlaceInvStep, XdpStep, IssuedStep, CarriersStep, NamesStep DEF IdentityInv, PlaceInv, BaseInv

\* At first there are no identities.
LEMMA IdentityInit == Init => IdentityInv
<1> SUFFICES ASSUME Init PROVE IdentityInv
  OBVIOUS
<1>1. PlaceInv /\ Live = {}
  BY PlaceInvInit DEF Init, Live, FreeSkbs
<1>2. XdpExitPairsWithEntry
  BY DEF Init, XdpExitPairsWithEntry
<1>3. Issued
  BY DEF Init, Issued, IsIssued, InCall
<1>4. CarriersNamed
  BY <1>1 DEF Init, CarriersNamed, InCall
<1>5. NamesOnePacket
  BY DEF Init, NamesOnePacket, Owns, InHand
<1> QED
  BY <1>1, <1>2, <1>3, <1>4, <1>5 DEF IdentityInv

\* In every state of every behaviour.
LEMMA IdentityHolds == Spec => []IdentityInv
BY IdentityInit, IdentityStep, PTL DEF Spec

\* A set whose elements are equal has at most one.
LEMMA OneOrNone ==
  ASSUME NEW S, \A x, y \in S : x = y
  PROVE  IsFiniteSet(S) /\ Cardinality(S) <= 1
<1>1. CASE S = {}
  BY <1>1, FS_EmptySet
<1>2. ASSUME NEW x \in S PROVE IsFiniteSet(S) /\ Cardinality(S) <= 1
  <2>1. S = {x}
    BY <1>2
  <2>2. IsFiniteSet({x}) /\ Cardinality({x}) = 1
    BY FS_Singleton
  <2> QED
    BY <2>1, <2>2
<1> QED
  BY <1>1, <1>2

\* Observations under an identity are of one packet, through clone, copy,
\* replacement, XDP, eviction, the reuse of every address and hooks that interleave,
\* for any number of contexts whose pid_tgid may be the same.  The exceptions met
\* what another packet had left under their buffer, or a call under the pid_tgid.
THEOREM IdentityIsOnePackets == Spec => []IdentityNamesOnePacket
<1>1. IdentityInv => IdentityNamesOnePacket
  <2> SUFFICES ASSUME IdentityInv, NEW i \in Identity
               PROVE  Cardinality(named[i] \ (inherited \cup mistaken)) <= 1
    BY DEF IdentityNamesOnePacket
  <2>1. named[i] \subseteq Packet
    BY DEF IdentityInv, PlaceInv, BaseInv, LineageTypeOK
  <2>2. \A p, q \in named[i] \ (inherited \cup mistaken) : p = q
    BY <2>1 DEF IdentityInv, NamesOnePacket, Owns
  <2> QED
    BY <2>2, OneOrNone
<1> QED
  BY <1>1, IdentityHolds, PTL

-----------------------------------------------------------------------------
\* Following a packet.

\* Packets are numbered as they come, and only those that came are seen.
Seen ==
  /\ \A s \in Live : skb[s].packet <= packets
  /\ \A c \in Context : frame[c] # None => frame[c].data.packet <= packets
  /\ \A i \in Identity : \A p \in named[i] : p <= packets

\* A hook observes packets that are there, and the kernel numbers a new one next.
LEMMA SeenStep == PlaceInv /\ Seen /\ [Next]_vars => Seen'
<1> SUFFICES ASSUME PlaceInv, Seen, [Next]_vars PROVE Seen'
  OBVIOUS
<1>1. /\ None \notin Skb /\ None \notin Data /\ None \notin Frame
      /\ skb \in [Skb -> Data \cup {None}] /\ frame \in [Context -> Frame \cup {None}]
      /\ FreeSkbs = {s \in Skb : skb[s] = None}
      /\ Live = {s \in Skb : skb[s] # None} /\ Live' = {s \in Skb : skb'[s] # None}
      /\ \A c \in Context : InCall(c) => call[c].skb \in Live
      /\ \A s \in Live : skb[s].packet \in Nat
      /\ \A c \in Context : frame[c] # None => frame[c].data.packet \in Nat
      /\ named \in [Identity -> SUBSET Packet] /\ Packet \subseteq Nat
      /\ packets \in Nat /\ packets' \in Nat
      /\ \A c \in Context : hook[c] # None => hook[c].skb \in Live
  BY PlaceParts, Parts, BoundAssumption, BaseInvStep
     DEF PlaceInv, BaseInv, LineageTypeOK, Live, FreeSkbs, Packet
<1>2. /\ \A s \in Live : skb[s].packet <= packets
      /\ \A c \in Context : frame[c] # None => frame[c].data.packet <= packets
      /\ \A i \in Identity : \A p \in named[i] : p <= packets
  BY DEF Seen
<1>3. ASSUME packets <= packets',
             \A s \in Live' : \/ s \in Live /\ skb'[s] = skb[s]
                             \/ skb'[s].packet <= packets',
             \A c \in Context : frame'[c] # None =>
               frame'[c] = frame[c] \/ frame'[c].data.packet <= packets',
             \A i \in Identity : \A p \in named'[i] : p \in named[i] \/ p <= packets'
      PROVE  Seen'
  <2>1. \A s \in Live' : skb'[s].packet <= packets'
    BY <1>1, <1>2, <1>3
  <2>2. \A c \in Context : frame'[c] # None => frame'[c].data.packet <= packets'
    BY <1>1, <1>2, <1>3
  <2>3. ASSUME NEW i \in Identity, NEW p \in named'[i] PROVE p <= packets'
    <3>1. p \in named[i] => p \in Nat /\ p <= packets
      BY <1>1, <1>2
    <3> QED
      BY <1>1, <1>3, <2>3, <3>1
  <2> QED
    BY <2>1, <2>2, <2>3 DEF Seen
<1>4. ASSUME UNCHANGED <<skb, frame, packets>>,
             \/ UNCHANGED named
             \/ \E i : \E s \in Live : Observe(i, skb[s].packet)
      PROVE  Seen'
  <2>1. \A i \in Identity : \A p \in named'[i] : p \in named[i] \/ p <= packets'
    BY <1>1, <1>2, <1>4 DEF Observe
  <2> QED
    BY <1>1, <1>3, <1>4, <2>1
<1>5. ASSUME UNCHANGED <<frame, named>>, packets <= packets', NEW s \in FreeSkbs,
             NEW v, v.packet <= packets', skb' = [skb EXCEPT ![s] = v]
      PROVE  Seen'
  <2>1. \A t \in Live' : \/ t \in Live /\ skb'[t] = skb[t]
                         \/ skb'[t].packet <= packets'
    BY <1>1, <1>5
  <2> QED
    BY <1>3, <1>5, <2>1
<1>6. CASE UNCHANGED vars
  BY <1>4, <1>6 DEF vars, kernelVars
<1>7. ASSUME NEW c \in Context, Hooks(c) PROVE Seen'
  <2>1. UNCHANGED <<skb, frame, packets>>
    BY <1>7, HookSteps DEF kernelVars
  <2>2. ASSUME NEW a \in Anchor \cup {None}, Report(c, a)
        PROVE  \E i : \E s \in Live : Observe(i, skb[s].packet)
    BY <1>1, <2>2 DEF Report, In
  <2>3. \/ UNCHANGED named
        \/ \E i : \E s \in Live : Observe(i, skb[s].packet)
    BY <1>7, <2>2 DEF Hooks, Begin, Withdraw, TraceTracked, TraceFiltered, TraceMatched, FileTracked
  <2> QED
    BY <1>4, <2>1, <2>3
<1>8. ASSUME NEW s \in Skb, Free(s) PROVE Seen'
  <2>1. UNCHANGED <<frame, packets, named>> /\ skb' = [skb EXCEPT ![s] = None]
    BY <1>8 DEF Free
  <2>2. \A t \in Live' : t \in Live /\ skb'[t] = skb[t]
    BY <1>1, <2>1
  <2> QED
    BY <1>1, <1>3, <2>1, <2>2
<1>9. CASE \/ \E s \in Skb : EvictTracked(s) \/ EvictSkbAnchor(s)
           \/ \E h \in Head : EvictLineage(h)
           \/ \E a \in Anchor : EvictStackAnchor(a) \/ StackAssociated(a)
  BY <1>4, <1>9 DEF EvictTracked, EvictLineage, EvictSkbAnchor, EvictStackAnchor, StackAssociated,
     kernelVars
<1>10. ASSUME NEW s \in Skb, NEW h \in Head, Allocate(s, h) PROVE Seen'
  <2> DEFINE v == [packet |-> packets', head |-> h]
  <2>1. /\ UNCHANGED <<frame, named>> /\ packets' = packets + 1 /\ v.packet = packets'
        /\ s \in FreeSkbs /\ skb' = [skb EXCEPT ![s] = v]
    BY <1>10 DEF Allocate
  <2> HIDE DEF v
  <2>2. packets <= packets' /\ v.packet <= packets'
    BY <1>1, <2>1
  <2> QED
    BY <1>5, <2>1, <2>2
<1>11. ASSUME NEW c \in Context, NEW s \in Skb, NEW h \in Head, Copy(c, s, h) PROVE Seen'
  <2> DEFINE original == skb[call[c].skb].packet
  <2>1. PICK p \in Packet :
          /\ UNCHANGED <<frame, named>>
          /\ packets' = IF p = original THEN packets ELSE p
          /\ p \in {original, packets + 1}
          /\ s \in FreeSkbs /\ skb' = [skb EXCEPT ![s] = [packet |-> p, head |-> h]]
          /\ InCall(c)
    BY <1>11 DEF Copy, Making, Inside, InCall
  <2>2. original \in Nat /\ original <= packets
    BY <1>1, <1>2, <2>1
  <2> HIDE DEF original
  <2>3. p <= packets' /\ packets <= packets'
    BY <1>1, <2>1, <2>2
  <2> DEFINE v == [packet |-> p, head |-> h]
  <2>4. v.packet = p
    OBVIOUS
  <2> HIDE DEF v
  <2>5. skb' = [skb EXCEPT ![s] = v]
    BY <2>1 DEF v
  <2> QED
    BY <1>5, <2>1, <2>3, <2>4, <2>5
<1>12. ASSUME NEW c \in Context, NEW s \in Skb, NEW h \in Head, Replace(c, s, h) PROVE Seen'
  <2> DEFINE old == call[c].skb
             v == [packet |-> skb[old].packet, head |-> h]
  <2>1. /\ UNCHANGED <<frame, packets, named>> /\ v.packet = skb[old].packet
        /\ s \in FreeSkbs /\ skb' = [skb EXCEPT ![s] = v, ![old] = None]
        /\ old \in Live
    BY <1>1, <1>12 DEF Replace, Making, Inside, InCall
  <2>2. v.packet <= packets'
    BY <1>2, <2>1
  <2> HIDE DEF v, old
  <2>3. \A t \in Live' : \/ t \in Live /\ skb'[t] = skb[t]
                         \/ skb'[t].packet <= packets'
    BY <1>1, <2>1, <2>2
  <2> QED
    BY <1>1, <1>3, <2>1, <2>3
<1>13. ASSUME NEW c \in Context, NEW s \in Skb, Clone(c, s) PROVE Seen'
  <2>1. /\ UNCHANGED <<frame, packets, named>> /\ s \in FreeSkbs
        /\ skb' = [skb EXCEPT ![s] = skb[call[c].skb]]
        /\ call[c].skb \in Live
    BY <1>1, <1>13 DEF Clone, Making, Inside, InCall
  <2>2. packets <= packets' /\ skb[call[c].skb].packet <= packets'
    BY <1>1, <1>2, <2>1
  <2> QED
    BY <1>5, <2>1, <2>2
<1>14. ASSUME NEW c \in Context,
              \/ \E s \in Skb : \/ \E op \in {"clone", "copy"} : CloneEntry(c, s, op)
                               \/ ReplaceEntry(c, s)
              \/ CloneExit(c) \/ ReplaceExit(c)
       PROVE  Seen'
  BY <1>4, <1>14 DEF CloneEntry, ReplaceEntry, CloneExit, ReplaceExit
<1>15. ASSUME NEW c \in Context, XdpExit(c) PROVE Seen'
  <2> DEFINE p == frame[c].data.packet
  <2>1. /\ frame[c] # None /\ UNCHANGED packets /\ frame' = [frame EXCEPT ![c] = None]
        /\ UNCHANGED skb \/ \E s \in FreeSkbs : skb' = [skb EXCEPT ![s] = frame[c].data]
        /\ UNCHANGED named \/ \E i : named' = [named EXCEPT ![i] = @ \cup {p}]
    BY <1>15 DEF XdpExit
  <2>2. p <= packets
    BY <1>2, <2>1
  <2>3. \A t \in Live' : \/ t \in Live /\ skb'[t] = skb[t]
                         \/ skb'[t].packet <= packets'
    BY <1>1, <2>1, <2>2
  <2> HIDE DEF p
  <2>4. \A i \in Identity : \A q \in named'[i] : q \in named[i] \/ q <= packets'
    BY <1>1, <2>1, <2>2
  <2>5. \A d \in Context : frame'[d] # None => frame'[d] = frame[d]
    BY <1>1, <2>1
  <2> QED
    BY <1>1, <1>3, <2>1, <2>3, <2>4, <2>5
<1>16. ASSUME NEW c \in Context, NEW h \in Head, XdpEntry(c, h) PROVE Seen'
  <2> DEFINE p == packets + 1
  <2>1. /\ UNCHANGED skb /\ packets' = p
        /\ UNCHANGED named \/ \E i : named' = [named EXCEPT ![i] = @ \cup {p}]
        /\ \E i : frame' = [frame EXCEPT ![c] = [data |-> [packet |-> p, head |-> h], entry |-> i]]
    BY <1>16 DEF XdpEntry
  <2>2. \A i \in Identity : \A q \in named'[i] : q \in named[i] \/ q <= packets'
    BY <1>1, <2>1
  <2>3. \A d \in Context : frame'[d] # None =>
          frame'[d] = frame[d] \/ frame'[d].data.packet <= packets'
    BY <1>1, <2>1
  <2> QED
    BY <1>1, <1>3, <2>1, <2>2, <2>3
<1> QED
  BY <1>6, <1>7, <1>8, <1>9, <1>10, <1>11, <1>12, <1>13, <1>14, <1>15, <1>16,
     DriverAssumption DEF Next, Kernel, Calls, Frames

\* A hook has an identity to file under the buffer that s is on.
Refiled(s) ==
  \E c \in Context : /\ hook[c] # None
                     /\ hook[c].step \in {"file", "associate"}
                     /\ skb[hook[c].skb].head = skb[s].head

\* The identity of s is yet to be filed under its buffer, by a call or by a hook.
Waits(s) == Unfiled(s) \/ Refiled(s)

\* Packet p is on buffer h, where its identity is to be found.
At(p, h) ==
  \/ \E s \in Live : skb[s].packet = p /\ skb[s].head = h /\ ~Waits(s)
  \/ \E c \in Context : frame[c] # None /\ frame[c].data.packet = p /\ frame[c].data.head = h

\* Packet p has no identity.
Unowned(p) == \A i \in Identity : ~Owns(p, i)

\* A hook that has yet to decide is on a packet without identity, or will find the
\* one it has, or may miss it: beside another hook, or ahead of a call's exit.
Decides(c, p) ==
  hook[c] # None /\ hook[c].step = "filter" /\ skb[hook[c].skb].packet = p =>
    Unowned(p) \/ IsTracked(hook[c].skb) \/ c \in crowded \/ Unfiled(hook[c].skb)

\* A packet that has an identity finds that one, and no other, wherever it is, and
\* one that has none is on one buffer.
Follows(p) ==
  /\ \A i, j \in Identity : Owns(p, i) /\ Owns(p, j) => i = j
  /\ \A i \in Identity, h \in Head : Owns(p, i) /\ At(p, h) => skb_data_lineages[h] = i
  /\ Unowned(p) => \A g, h \in Head : At(p, g) /\ At(p, h) => g = h
  /\ \A c \in Context : Decides(c, p)

\* Hooks that run beside each other on one packet are known to.
Crowding ==
  \A c, d \in Context : hook[c] # None /\ hook[d] # None /\ c # d
                        /\ skb[hook[c].skb].packet = skb[hook[d].skb].packet => c \in crowded

FollowInv ==
  /\ IdentityInv
  /\ Seen
  /\ Crowding
  /\ \A p \in Packet \ (split \cup inherited \cup mistaken) : Follows(p)

\* A hook that begins marks every hook on its packet, and the end of one hook
\* leaves the mark on the others.
LEMMA CrowdingStep == BaseInv /\ Crowding /\ [Next]_vars => Crowding'
<1> SUFFICES ASSUME BaseInv, Crowding, [Next]_vars PROVE Crowding'
  OBVIOUS
<1>1. \A c \in Context : hook[c] # None => skb'[hook[c].skb] = skb[hook[c].skb]
  BY HookStep DEF BaseInv
<1>2. \A c, d \in Context : hook[c] # None /\ hook[d] # None /\ c # d
        /\ skb[hook[c].skb].packet = skb[hook[d].skb].packet => c \in crowded
  BY DEF Crowding
\* The hook of c goes on, or ends.
<1>3. ASSUME NEW c \in Context, \A d \in Context \ {c} : hook'[d] = hook[d],
             hook'[c] # None => hook[c] # None /\ hook'[c].skb = hook[c].skb /\ c \notin crowded \ crowded',
             crowded \ {c} \subseteq crowded'
      PROVE  Crowding'
  <2> SUFFICES ASSUME NEW d \in Context, NEW e \in Context, hook'[d] # None, hook'[e] # None, d # e,
                      skb'[hook'[d].skb].packet = skb'[hook'[e].skb].packet
               PROVE  d \in crowded'
    BY DEF Crowding
  <2>1. /\ hook[d] # None /\ hook'[d].skb = hook[d].skb
        /\ hook[e] # None /\ hook'[e].skb = hook[e].skb
    BY <1>3
  <2>2. d \in crowded
    BY <1>1, <1>2, <2>1
  <2> QED
    BY <1>3, <2>2
<1>4. ASSUME UNCHANGED <<hook, crowded>> PROVE Crowding'
  BY <1>1, <1>2, <1>4 DEF Crowding
<1>5. ASSUME NEW c \in Context, NEW s \in Skb, Begin(c, s) PROVE Crowding'
  <2> DEFINE p == skb[s].packet
  <2>1. /\ hook[c] = None /\ hook'[c] # None /\ hook'[c].skb = s /\ UNCHANGED skb
        /\ \A d \in Context \ {c} : hook'[d] = hook[d]
    BY <1>5, BeginsWith DEF Begin, kernelVars
  <2>2. /\ crowded \subseteq crowded'
        /\ Beside(c, p) # {} => c \in crowded' /\ Beside(c, p) \subseteq crowded'
    BY <1>5 DEF Begin
  <2>3. \A d \in Context \ {c} : hook[d] # None /\ skb[hook[d].skb].packet = p => d \in Beside(c, p)
    BY DEF Beside, Hooking
  <2> SUFFICES ASSUME NEW d \in Context, NEW e \in Context, hook'[d] # None, hook'[e] # None, d # e,
                      skb'[hook'[d].skb].packet = skb'[hook'[e].skb].packet
               PROVE  d \in crowded'
    BY DEF Crowding
  <2>4. CASE d = c
    BY <2>1, <2>2, <2>3, <2>4
  <2>5. CASE e = c
    BY <2>1, <2>2, <2>3, <2>5
  <2>6. CASE d # c /\ e # c
    BY <1>2, <2>1, <2>2, <2>6
  <2> QED
    BY <2>4, <2>5, <2>6
<1>6. ASSUME NEW c \in Context, Hooks(c) PROVE Crowding'
  <2>1. \A d \in Context \ {c} : hook'[d] = hook[d]
    BY <1>6, HookSteps DEF BaseInv
  <2>2. ASSUME hook[c] # None,
               NEW i \in Identity \cup {None}, NEW step \in {"filter", "withdraw", "file", "associate"},
               Moves(c, step, i), UNCHANGED crowded
        PROVE  Crowding'
    BY <1>3, <2>1, <2>2, MovesTo
  <2>3. ASSUME hook' = [hook EXCEPT ![c] = None], crowded' = crowded \ {c} PROVE Crowding'
    BY <1>3, <2>1, <2>3, EndsHook
  <2>4. hook[c] # None => hook[c].identity \in Identity \cup {None} /\ hook[c].skb \in Live
    BY PlaceParts
  <2>5. CASE Withdraw(c) \/ FileTracked(c)
    BY <2>2, <2>4, <2>5 DEF Withdraw, FileTracked, In
  <2>6. CASE TraceTracked(c)
    <3>1. tracked_skbs[hook[c].skb] \in Identity \cup {None}
      BY <2>4, <2>6, PlaceParts DEF TraceTracked, In, Live
    <3> QED
      BY <2>2, <2>6, <3>1 DEF TraceTracked, In
  <2>7. CASE TraceMatched(c)
    BY <2>2, <2>7 DEF TraceMatched, In
  <2>8. CASE TraceFiltered(c) \/ \E a \in Anchor \cup {None} : Report(c, a)
    BY <2>3, <2>8 DEF TraceFiltered, Report
  <2> QED
    BY <1>5, <1>6, <2>5, <2>6, <2>7, <2>8 DEF Hooks
<1>7. CASE Kernel \/ UNCHANGED vars
  BY <1>4, <1>7 DEF vars, Kernel, Free, EvictTracked, EvictLineage, EvictStackAnchor,
     EvictSkbAnchor, StackAssociated, Allocate
<1>8. ASSUME NEW c \in Context, Calls(c) \/ Frames(c) PROVE Crowding'
  BY <1>4, <1>8 DEF Calls, CloneEntry, Clone, Copy, CloneExit, ReplaceEntry, Replace, ReplaceExit,
     Frames, XdpExit, XdpEntry
<1> QED
  BY <1>6, <1>7, <1>8, DriverAssumption DEF Next

\* A call that goes on is not hooked on: what waits for it or is tracked and hooked
\* on stays so.
LEMMA HookedKeeps ==
  ASSUME PlaceInv, [Next]_vars, NEW c \in Context, hook[c] # None, NEW s, s = hook[c].skb
  PROVE  /\ Unfiled(s) => Unfiled(s)'
         /\ IsTracked(s) /\ skb[s].packet \notin split' => IsTracked(s)'
<1>1. /\ None \notin Identity /\ None \notin Skb /\ tracked_skbs \in [Skb -> Identity \cup {None}]
      /\ call \in [Context -> Call \cup {None}]
      /\ s \in Live /\ s \in Skb
      /\ \A k \in Pid : pending_skb_replacements[k] # None =>
           pending_skb_replacements[k].identity \in Identity
  BY PlaceParts, Parts DEF PlaceInv, BaseInv, Live
<1>2. /\ \A d \in Context : InCall(d) /\ hook[d] = None => call[d].skb # s /\ call[d].made # s
      /\ \A d \in Context : hook[d] # None /\ hook[d].step # "filter" => hook[d].identity # None
      /\ s \in Held
  BY DEF PlaceInv, BaseInv, HooksHold, Held, HeldBy
<1> DEFINE Goal == /\ Unfiled(s) => Unfiled(s)'
                   /\ IsTracked(s) /\ skb[s].packet \notin split' => IsTracked(s)'
<1>3. ASSUME UNCHANGED call PROVE Unfiled(s) => Unfiled(s)'
  BY <1>3 DEF Unfiled, Calling
<1>4. ASSUME NEW d \in Context, hook[d] = None, NEW x, call' = [call EXCEPT ![d] = x]
      PROVE  Unfiled(s) => Unfiled(s)'
  <2> SUFFICES ASSUME NEW e \in Calling, call[e].op \in {"copy", "replace"}, call[e].made = s,
                      call[e].identity # None
               PROVE  Unfiled(s)'
    BY DEF Unfiled
  <2>1. e # d /\ e \in Context /\ call[e] # None
    BY <1>2, <1>4 DEF Calling, InCall
  <2>2. call'[e] = call[e]
    BY <1>1, <1>4, <2>1
  <2> QED
    BY <2>1, <2>2 DEF Unfiled, Calling
<1>5. ASSUME UNCHANGED tracked_skbs \/
             \E t, i : /\ tracked_skbs' = [tracked_skbs EXCEPT ![t] = i]
                       /\ i # None \/ t # s
      PROVE  IsTracked(s) => IsTracked(s)'
  BY <1>1, <1>5 DEF IsTracked
<1>6. ASSUME NEW d \in Context, Hooks(d) PROVE Goal
  <2>1. UNCHANGED call
    BY <1>6, HookSteps DEF kernelVars
  <2>2. \/ UNCHANGED tracked_skbs
        \/ /\ hook[d] # None /\ hook[d].step # "filter"
           /\ tracked_skbs' = [tracked_skbs EXCEPT ![hook[d].skb] = hook[d].identity]
    BY <1>6 DEF Hooks, Begin, Withdraw, TraceTracked, TraceFiltered, TraceMatched, FileTracked,
       Report, In, lineageVars
  <2> QED
    BY <1>2, <1>3, <1>5, <2>1, <2>2
<1>7. ASSUME NEW t \in Skb, Free(t) PROVE Goal
  <2>1. t # s /\ UNCHANGED call /\ tracked_skbs' = [tracked_skbs EXCEPT ![t] = None]
    BY <1>2, <1>7 DEF Free, lifetime_end, forget_tracked
  <2> QED
    BY <1>3, <1>5, <2>1
<1>8. ASSUME NEW t \in Skb, EvictTracked(t) PROVE Goal
  <2>1. /\ UNCHANGED call /\ tracked_skbs' = [tracked_skbs EXCEPT ![t] = None]
        /\ skb[t].packet \in split'
    BY <1>8 DEF EvictTracked, kernelVars
  <2> QED
    BY <1>3, <1>5, <2>1
<1>9. ASSUME NEW d \in Context, Calls(d) PROVE Goal
  <2>1. hook[d] = None /\ \E x : call' = [call EXCEPT ![d] = x]
    <3>1. ASSUME NEW t \in Skb, NEW h \in Head, Copy(d, t, h) \/ Replace(d, t, h)
          PROVE  hook[d] = None /\ \E x : call' = [call EXCEPT ![d] = x]
      <4>1. CASE Copy(d, t, h)
        BY <4>1 DEF Copy, Making, Inside
      <4>2. CASE Replace(d, t, h)
        <5>1. /\ hook[d] = None
              /\ call' = [call EXCEPT ![d] = [call[d] EXCEPT !.made = t, !.skb = t]]
          BY <4>2 DEF Replace, Making, Inside
        <5> QED
          BY <5>1
      <4> QED
        BY <3>1, <4>1, <4>2
    <3> QED
      BY <1>9, <3>1 DEF Calls, CloneEntry, Clone, CloneExit, ReplaceEntry, ReplaceExit, Making,
         Inside, Idle
  <2>2. IsTracked(s) => IsTracked(s)'
    <3>1. ASSUME NEW t \in Skb, NEW h \in Head, Replace(d, t, h) PROVE IsTracked(s) => IsTracked(s)'
      <4>1. /\ tracked_skbs' = [tracked_skbs EXCEPT ![call[d].skb] = None]
            /\ InCall(d) /\ hook[d] = None
        BY <3>1 DEF Replace, lifetime_end, forget_tracked, Making, Inside, InCall
      <4> QED
        BY <1>2, <1>5, <4>1
    <3>2. ASSUME CloneExit(d) PROVE IsTracked(s) => IsTracked(s)'
      <4>1. \/ UNCHANGED tracked_skbs
            \/ \E t, i : i # None /\ tracked_skbs' = [tracked_skbs EXCEPT ![t] = i]
        BY <3>2 DEF CloneExit
      <4> QED
        BY <1>5, <4>1
    <3>3. ASSUME ReplaceExit(d) PROVE IsTracked(s) => IsTracked(s)'
      <4> DEFINE r == pending_skb_replacements[Key[d]]
      <4>1. \/ UNCHANGED tracked_skbs
            \/ r # None /\ tracked_skbs' = [tracked_skbs EXCEPT ![Slot(r.slot)] = r.identity]
        BY <3>3 DEF ReplaceExit
      <4>2. r # None => r.identity # None
        BY <1>1 DEF Pid
      <4> HIDE DEF r
      <4> QED
        BY <1>5, <4>1, <4>2
    <3> QED
      BY <1>5, <1>9, <3>1, <3>2, <3>3 DEF Calls, CloneEntry, Clone, ReplaceEntry, Copy, lineageVars
  <2> QED
    BY <1>4, <2>1, <2>2
<1>10. CASE \/ UNCHANGED vars
            \/ \E t \in Skb : EvictSkbAnchor(t)
            \/ \E h \in Head : EvictLineage(h)
            \/ \E t \in Skb, h \in Head : Allocate(t, h)
            \/ \E a \in Anchor : EvictStackAnchor(a) \/ StackAssociated(a)
            \/ \E d \in Context : Frames(d)
  BY <1>3, <1>5, <1>10 DEF vars, EvictSkbAnchor, EvictLineage, Allocate, EvictStackAnchor,
     StackAssociated, Frames, XdpExit, XdpEntry, kernelVars, lineageVars
<1> QED
  BY <1>6, <1>7, <1>8, <1>9, <1>10, DriverAssumption DEF Next, Kernel

\* Only a match gives a packet an identity it had not, and that is the next number.
LEMMA OwnsBack ==
  ASSUME IdentityInv, [Next]_vars, NEW p, p \notin inherited', p \notin mistaken',
         NEW i \in Identity, Owns(p, i)', ~Owns(p, i)
  PROVE  /\ i = lineage_sequence + 1
         /\ \/ \E c \in Context : TraceMatched(c) /\ skb[hook[c].skb].packet = p
            \/ \E c \in Context, h \in Head : XdpEntry(c, h) /\ p = packets + 1
<1> DEFINE Goal == /\ i = lineage_sequence + 1
                   /\ \/ \E c \in Context : TraceMatched(c) /\ skb[hook[c].skb].packet = p
                      \/ \E c \in Context, h \in Head : XdpEntry(c, h) /\ p = packets + 1
<1>1. /\ None \notin Identity
      /\ named \in [Identity -> SUBSET Packet]
      /\ p \notin inherited /\ p \notin mistaken
      /\ \A c \in Context : hook[c] # None => /\ skb'[hook[c].skb] = skb[hook[c].skb]
                                              /\ hook[c].skb \in Live
                                              /\ hook[c].identity \in Identity \cup {None}
  BY IssuedTypes, PlaceParts, HistoryGrows, HookStep DEF IdentityInv, PlaceInv, BaseInv
<1>2. /\ \A s \in Live : /\ Carries(skb[s].packet, tracked_skbs[s])
                         /\ Carries(skb[s].packet, skb_data_lineages[skb[s].head])
      /\ \A c \in Context : frame[c] # None => Carries(frame[c].data.packet, xdp_entry_states[c])
  BY DEF IdentityInv, CarriersNamed
<1>3. ~Carries(p, i)
  BY <1>1 DEF Carries
<1>4. ASSUME UNCHANGED hook PROVE p \in named'[i] /\ p \notin named[i]
  BY <1>1, <1>4 DEF Owns, InHand
<1>5. ASSUME UNCHANGED <<hook, named>> PROVE FALSE
  BY <1>4, <1>5
\* The hook of c comes to have i in hand.
<1>6. ASSUME NEW c \in Context, \A d \in Context \ {c} : hook'[d] = hook[d], UNCHANGED named
      PROVE  InHand(c, p, i)'
  BY <1>1, <1>6 DEF Owns, InHand
<1>7. ASSUME NEW c \in Context, Hooks(c) PROVE Goal
  <2>1. UNCHANGED skb /\ BaseInv /\ \A d \in Context \ {c} : hook'[d] = hook[d]
    BY <1>7, HookSteps DEF kernelVars, IdentityInv, PlaceInv, BaseInv
  <2>2. ASSUME NEW s \in Skb, Begin(c, s) PROVE FALSE
    <3>1. /\ hook'[c].skb = s /\ s \in Live
          /\ hook'[c].identity = IF IsTracked(s) THEN None ELSE skb_data_lineages[skb[s].head]
      BY <2>1, <2>2, BeginsWith
    <3>2. InHand(c, p, i)'
      BY <1>6, <2>1, <2>2 DEF Begin
    <3> QED
      BY <1>1, <1>2, <1>3, <2>1, <3>1, <3>2 DEF InHand
  <2>3. ASSUME NEW j \in Identity \cup {None}, NEW step \in {"filter", "withdraw", "file", "associate"},
               hook[c] # None, Moves(c, step, j), UNCHANGED named
        PROVE  skb[hook[c].skb].packet = p /\ i = j
    BY <1>6, <2>1, <2>3, MovesTo DEF InHand
  <2>4. CASE Withdraw(c) \/ FileTracked(c)
    <3>1. /\ hook[c] # None /\ Moves(c, "associate", hook[c].identity) /\ UNCHANGED named
      BY <2>4 DEF Withdraw, FileTracked, In
    <3> QED
      BY <1>1, <2>3, <3>1 DEF Owns, InHand
  <2>5. CASE TraceTracked(c)
    <3>1. /\ hook[c] # None /\ Moves(c, "associate", tracked_skbs[hook[c].skb]) /\ UNCHANGED named
          /\ hook[c].skb \in Live
      BY <1>1, <2>5 DEF TraceTracked, In
    <3>2. tracked_skbs[hook[c].skb] \in Identity \cup {None}
      BY <2>1, <3>1, PlaceParts DEF Live
    <3> QED
      BY <1>2, <1>3, <2>3, <3>1, <3>2
  <2>6. CASE TraceMatched(c)
    <3>1. PICK j \in Identity : /\ hook[c] # None /\ j = lineage_sequence + 1
                                /\ Moves(c, "file", j) /\ UNCHANGED named
      BY <2>6 DEF TraceMatched, In, NextIdentity
    <3> QED
      BY <2>3, <2>6, <3>1
  <2>7. CASE TraceFiltered(c)
    BY <1>6, <2>1, <2>7, EndsHook DEF TraceFiltered, InHand
  <2>8. ASSUME NEW a \in Anchor \cup {None}, Report(c, a) PROVE FALSE
    <3>1. /\ hook[c] # None /\ hook'[c] = None
          /\ named' = [named EXCEPT ![hook[c].identity] = @ \cup {skb[hook[c].skb].packet}]
      BY <2>1, <2>8, EndsHook DEF Report, In, Observe
    <3>2. p \notin named[i] /\ ~InHand(c, p, i)
      BY DEF Owns
    <3>3. p \notin named'[i]
      BY <1>1, <3>1, <3>2 DEF InHand
    <3> QED
      BY <2>1, <3>1, <3>3 DEF Owns, InHand
  <2> QED
    BY <1>7, <2>2, <2>4, <2>5, <2>6, <2>7, <2>8 DEF Hooks
<1>8. ASSUME NEW a \in Anchor, StackAssociated(a) PROVE FALSE
  <2> DEFINE s == Attributed(a)
  <2>1. /\ s \in Live /\ UNCHANGED hook
        /\ named' = [named EXCEPT ![tracked_skbs[s]] = @ \cup {skb[s].packet}]
    BY <1>8 DEF StackAssociated, Observe
  <2> HIDE DEF s
  <2> QED
    BY <1>1, <1>2, <1>3, <1>4, <2>1
<1>9. CASE UNCHANGED vars \/ (Kernel /\ ~\E a \in Anchor : StackAssociated(a))
  BY <1>5, <1>9 DEF vars, Kernel, Free, EvictTracked, EvictLineage, EvictStackAnchor,
     EvictSkbAnchor, Allocate
<1>10. ASSUME NEW c \in Context, Calls(c) PROVE FALSE
  BY <1>5, <1>10 DEF Calls, CloneEntry, Clone, Copy, CloneExit, ReplaceEntry, Replace, ReplaceExit
<1>11. ASSUME NEW c \in Context, XdpExit(c) PROVE FALSE
  <2> DEFINE j == xdp_entry_states[c]
  <2>1. /\ frame[c] # None /\ UNCHANGED hook
        /\ named' = IF j = None THEN named ELSE [named EXCEPT ![j] = @ \cup {frame[c].data.packet}]
    BY <1>11 DEF XdpExit
  <2>2. Carries(frame[c].data.packet, j)
    BY <1>2, <2>1
  <2> HIDE DEF j
  <2> QED
    BY <1>1, <1>3, <1>4, <2>1, <2>2
<1>12. ASSUME NEW c \in Context, NEW h \in Head, XdpEntry(c, h) PROVE Goal
  <2> DEFINE q == packets + 1
  <2>1. Inherit(q, h) /\ UNCHANGED hook
    BY <1>12 DEF XdpEntry
  <2>2. PICK j \in Identity \cup {None} :
          /\ \/ skb_data_lineages[h] # None
             \/ j = lineage_sequence + 1
             \/ j = None
          /\ named' = IF j = None THEN named ELSE [named EXCEPT ![j] = @ \cup {q}]
    BY <1>12 DEF XdpEntry, NextIdentity
  <2> HIDE DEF q
  <2>3. p = q /\ i = j
    BY <1>1, <1>4, <2>1, <2>2
  <2>4. skb_data_lineages[h] = None
    BY <2>1, <2>3 DEF Inherit
  <2> QED
    BY <1>1, <1>12, <2>2, <2>3, <2>4 DEF q
<1> QED
  BY <1>7, <1>8, <1>9, <1>10, <1>11, <1>12, DriverAssumption DEF Next, Frames, Kernel

\* A hook on a packet that gets no new identity may be in doubt about it only as
\* Decides says, from its beginning on.
LEMMA DecidesStep ==
  ASSUME FollowInv, [Next]_vars, NEW p \in Packet, p \notin split',
         p \notin inherited', p \notin mistaken',
         \A i \in Identity : Owns(p, i)' => Owns(p, i), NEW c \in Context
  PROVE  Decides(c, p)'
<1> SUFFICES ASSUME hook'[c] # None, hook'[c].step = "filter", skb'[hook'[c].skb].packet = p
             PROVE  (Unowned(p) \/ IsTracked(hook[c].skb) \/ c \in crowded \/ Unfiled(hook[c].skb))'
  BY DEF Decides
<1>1. BaseInv /\ PlaceInv
  BY DEF FollowInv, IdentityInv, PlaceInv
<1>2. /\ Follows(p)
      /\ \A d \in Context : hook[d] # None => /\ skb'[hook[d].skb] = skb[hook[d].skb]
                                              /\ hook[d].skb \in Live
                                              /\ hook[d].step # "filter" => hook[d].identity # None
                                              /\ hook[d].identity \in Identity \cup {None}
  BY <1>1, HistoryGrows, HookStep, PlaceParts DEF FollowInv, BaseInv, HooksHold
<1>3. PICK s : s = hook'[c].skb
  OBVIOUS
\* A hook under way.
<1>4. ASSUME hook[c] # None, hook[c].step = "filter", hook[c].skb = s, c \in crowded => c \in crowded'
      PROVE  Unowned(p)' \/ IsTracked(s)' \/ c \in crowded' \/ Unfiled(s)'
  <2>1. skb[s].packet = p
    BY <1>2, <1>3, <1>4
  <2>2. Unowned(p) \/ IsTracked(s) \/ c \in crowded \/ Unfiled(s)
    BY <1>2, <1>4, <2>1 DEF Follows, Decides
  <2>3. /\ Unfiled(s) => Unfiled(s)'
        /\ IsTracked(s) /\ p \notin split' => IsTracked(s)'
    BY <1>1, <1>4, <2>1, HookedKeeps
  <2>4. Unowned(p) => Unowned(p)'
    BY DEF Unowned
  <2> QED
    BY <1>4, <2>2, <2>3, <2>4
<1>5. ASSUME UNCHANGED <<hook, crowded>>
      PROVE  Unowned(p)' \/ IsTracked(s)' \/ c \in crowded' \/ Unfiled(s)'
  BY <1>3, <1>4, <1>5
<1>6. ASSUME NEW u \in Skb, Begin(c, u)
      PROVE  Unowned(p)' \/ IsTracked(s)' \/ c \in crowded' \/ Unfiled(s)'
  <2>1. /\ hook[c] = None /\ u = s /\ s \in Live
        /\ IsTracked(s) \/ skb_data_lineages[skb[s].head] = None
        /\ UNCHANGED <<skb, call, tracked_skbs>>
    BY <1>1, <1>3, <1>6, BeginsWith DEF Begin, kernelVars, lineageVars
  <2>2. skb[s].packet = p /\ skb[s].head \in Head
    BY <1>1, <1>3, <2>1, Parts DEF BaseInv
  <2>3. CASE IsTracked(s)
    BY <2>1, <2>3 DEF IsTracked
  <2>4. CASE Unfiled(s)
    BY <2>1, <2>4 DEF Unfiled, Calling
  <2>5. CASE Refiled(s)
    <3>1. PICK d \in Context : hook[d] # None /\ skb[hook[d].skb].head = skb[s].head
      BY <2>5 DEF Refiled
    <3>2. skb[hook[d].skb].packet = p
      BY <1>1, <1>2, <2>1, <2>2, <3>1 DEF PlaceInv, HeadsApart
    <3>3. d \in Beside(c, skb[s].packet)
      BY <2>1, <2>2, <3>1, <3>2 DEF Beside, Hooking
    <3> QED
      BY <1>6, <2>1, <3>3 DEF Begin
  <2>6. CASE ~IsTracked(s) /\ ~Waits(s)
    <3>1. At(p, skb[s].head)
      BY <2>1, <2>2, <2>6 DEF At
    <3>2. \A i \in Identity : ~Owns(p, i)
      BY <1>1, <1>2, <2>1, <2>2, <2>6, <3>1, PlaceParts DEF Follows
    <3> QED
      BY <3>2 DEF Unowned
  <2> QED
    BY <2>3, <2>4, <2>5, <2>6 DEF Waits
<1>7. ASSUME NEW d \in Context, Hooks(d)
      PROVE  Unowned(p)' \/ IsTracked(s)' \/ c \in crowded' \/ Unfiled(s)'
  <2>1. \A e \in Context \ {d} : hook'[e] = hook[e] /\ (e \in crowded => e \in crowded')
    BY <1>1, <1>7, HookSteps
       DEF BaseInv, Hooks, Begin, Withdraw, TraceTracked, TraceFiltered, TraceMatched, FileTracked,
           Report
  <2>2. CASE d # c
    BY <1>3, <1>4, <2>1, <2>2
  <2>3. CASE d = c
    <3>1. ASSUME hook[c] # None, NEW i \in Identity \cup {None},
                 NEW step \in {"file", "associate"}, Moves(c, step, i)
          PROVE  FALSE
      BY <1>1, <3>1, MovesTo
    <3>2. ~(Withdraw(c) \/ FileTracked(c))
      BY <1>2, <3>1 DEF Withdraw, FileTracked, In
    <3>3. ~TraceTracked(c)
      <4> SUFFICES ASSUME TraceTracked(c) PROVE FALSE
        OBVIOUS
      <4>1. hook[c] # None /\ Moves(c, "associate", tracked_skbs[hook[c].skb]) /\ hook[c].skb \in Skb
        BY <1>2 DEF TraceTracked, In, Live
      <4> QED
        BY <1>1, <3>1, <4>1, PlaceParts
    <3>4. ~TraceMatched(c)
      BY <3>1 DEF TraceMatched, In
    <3>5. ~TraceFiltered(c) /\ \A a : ~Report(c, a)
      BY <1>1, EndsHook DEF TraceFiltered, Report
    <3> QED
      BY <1>6, <1>7, <2>3, <3>2, <3>3, <3>4, <3>5 DEF Hooks
  <2> QED
    BY <2>2, <2>3
<1>8. ASSUME Kernel \/ UNCHANGED vars
      PROVE  Unowned(p)' \/ IsTracked(s)' \/ c \in crowded' \/ Unfiled(s)'
  BY <1>5, <1>8 DEF vars, Kernel, Free, EvictTracked, EvictLineage, EvictStackAnchor,
     EvictSkbAnchor, StackAssociated, Allocate
<1>9. ASSUME NEW d \in Context, Calls(d) \/ Frames(d)
      PROVE  Unowned(p)' \/ IsTracked(s)' \/ c \in crowded' \/ Unfiled(s)'
  BY <1>5, <1>9 DEF Calls, CloneEntry, Clone, Copy, CloneExit, ReplaceEntry, Replace, ReplaceExit,
     Frames, XdpExit, XdpEntry
<1>10. Unowned(p)' \/ IsTracked(s)' \/ c \in crowded' \/ Unfiled(s)'
  BY <1>7, <1>8, <1>9, DriverAssumption DEF Next
<1>11. IsTracked(s)' => IsTracked(hook[c].skb)'
  BY <1>3 DEF IsTracked
<1>12. Unfiled(s)' => Unfiled(hook[c].skb)'
  BY <1>3 DEF Unfiled
<1> QED
  BY <1>10, <1>11, <1>12

\* A packet that no exception applies to is followed through every step.
LEMMA FollowsStep ==
  ASSUME FollowInv, [Next]_vars, NEW p \in Packet,
         p \notin split', p \notin inherited', p \notin mistaken'
  PROVE  Follows(p)'
<1>1. /\ None \notin Skb /\ None \notin Data /\ None \notin Call /\ None \notin Frame
      /\ None \notin Identity /\ None \notin Replacement
      /\ skb \in [Skb -> Data \cup {None}] /\ frame \in [Context -> Frame \cup {None}]
      /\ call \in [Context -> Call \cup {None}]
      /\ tracked_skbs \in [Skb -> Identity \cup {None}]
      /\ skb_data_lineages \in [Head -> Identity \cup {None}]
      /\ Live = {s \in Skb : skb[s] # None}
      /\ FreeSkbs = {s \in Skb : skb[s] = None}
      /\ \A h \in Head : h \in FreeHeads <=>
              /\ \A s \in Live : skb[s].head # h
              /\ \A c \in Context : frame[c] # None => frame[c].data.head # h
      /\ \A s \in Live : skb[s] \in Data
      /\ \A c \in Context : frame[c] # None => frame[c] \in Frame /\ frame[c].data \in Data
      /\ \A c \in Context : InCall(c) =>
              /\ call[c] \in Call /\ CallHolds(c)
              /\ call[c].skb \in Live
      /\ \A c, d \in Context : InCall(c) /\ InCall(d) /\ c # d => CallsApart(c, d)
      /\ \A c \in Context : hook[c] # None =>
              hook[c].skb \in Live /\ hook[c].identity \in Identity \cup {None}
  BY PlaceParts DEF FollowInv, IdentityInv, PlaceInv
<1>2. Live' = {s \in Skb : skb'[s] # None}
  BY DEF Live, FreeSkbs
<1>3. /\ p \notin split /\ p \notin inherited /\ p \notin mistaken
      /\ BaseInv /\ PlaceInv /\ IdentityInv
      /\ \A i \in Identity : Owns(p, i) => Owns(p, i)'
  BY HistoryGrows, OwnsStep DEF FollowInv, IdentityInv, PlaceInv
<1>4. /\ \A i, j \in Identity : Owns(p, i) /\ Owns(p, j) => i = j
      /\ \A i \in Identity, h \in Head : Owns(p, i) /\ At(p, h) => skb_data_lineages[h] = i
      /\ (\A i \in Identity : ~Owns(p, i)) => \A g, h \in Head : At(p, g) /\ At(p, h) => g = h
      /\ \A c \in Context : Decides(c, p)
  BY <1>3 DEF FollowInv, Follows, Unowned
\* What carries an identity for p.
<1>5. /\ \A s \in Live : skb[s].packet = p =>
           /\ tracked_skbs[s] # None => Owns(p, tracked_skbs[s])
           /\ skb_data_lineages[skb[s].head] # None => Owns(p, skb_data_lineages[skb[s].head])
      /\ \A c \in Context :
           InCall(c) /\ skb[call[c].skb].packet = p /\ call[c].identity # None =>
             Owns(p, call[c].identity)
      /\ \A c \in Context :
           hook[c] # None /\ skb[hook[c].skb].packet = p => Owns(p, hook[c].identity)
             \/ hook[c].identity = None
  BY <1>3 DEF IdentityInv, CarriersNamed, Carries, Owns, InHand
<1>6. /\ \A s \in Live : skb[s].head \in Head
      /\ \A c \in Context : frame[c] # None => frame[c].data.head \in Head
      /\ \A c \in Context : InCall(c) => call[c].identity \in Identity \cup {None}
      /\ \A s, t \in Live : skb[s].head = skb[t].head => skb[s].packet = skb[t].packet
      /\ \A c \in Context, s \in Live : frame[c] # None => frame[c].data.head # skb[s].head
      /\ \A c \in Context : hook[c] # None => /\ skb'[hook[c].skb] = skb[hook[c].skb]
                                              /\ hook[c].step # "filter" => hook[c].identity # None
      /\ \A c, d \in Context : hook[d] # None /\ InCall(c) /\ c # d =>
           hook[d].skb # call[c].skb /\ hook[d].skb # call[c].made
  BY <1>3, Parts, HookStep DEF PlaceInv, BaseInv, HeadsApart, HooksHold
<1>7. /\ Identity \subseteq Nat /\ lineage_sequence \in Nat /\ packets \in Nat
      /\ \A s \in Live : skb[s].packet \in Nat /\ skb[s].packet <= packets
      /\ \A c \in Context : frame[c] # None =>
           frame[c].data.packet \in Nat /\ frame[c].data.packet <= packets
      /\ \A i \in Identity : \A q \in named[i] : q <= packets
  BY <1>3, IssuedTypes, Parts, BoundAssumption
     DEF FollowInv, BaseInv, LineageTypeOK, Seen, Packet
<1>8. \A s \in Live, h \in Head : At(p, h) /\ skb[s].head = h => skb[s].packet = p
  BY <1>6 DEF At
\* p is where it was, or has its identity where it is now.
<1>9. ASSUME \A i \in Identity : Owns(p, i)' => Owns(p, i),
             \A h \in Head : At(p, h)' =>
               \/ At(p, h) /\ skb_data_lineages'[h] = skb_data_lineages[h]
               \/ skb_data_lineages'[h] \in Identity /\ Owns(p, skb_data_lineages'[h])
      PROVE  Follows(p)'
  <2>1. ASSUME NEW i \in Identity, NEW h \in Head, Owns(p, i)', At(p, h)'
        PROVE  skb_data_lineages'[h] = i
    BY <1>4, <1>9, <2>1
  <2>2. ASSUME \A i \in Identity : ~Owns(p, i)', NEW g \in Head, NEW h \in Head, At(p, g)', At(p, h)'
        PROVE  g = h
    BY <1>3, <1>4, <1>9, <2>2
  <2>3. \A i, j \in Identity : Owns(p, i)' /\ Owns(p, j)' => i = j
    BY <1>4, <1>9
  <2>4. \A c \in Context : Decides(c, p)'
    BY <1>9, DecidesStep
  <2> QED
    BY <2>1, <2>2, <2>3, <2>4 DEF Follows, Unowned
\* p has no identity and is on one buffer.
<1>10. ASSUME \A i \in Identity : ~Owns(p, i)', NEW h0, \A h : At(p, h)' => h = h0 PROVE Follows(p)'
  <2>1. \A c \in Context : Decides(c, p)'
    BY <1>10 DEF Decides, Unowned
  <2> QED
    BY <1>10, <2>1 DEF Follows
\* Where p is, when packets stay.
<1>11. ASSUME UNCHANGED <<skb, frame, call>>, \A t : Refiled(t) => Refiled(t)'
       PROVE  \A h : At(p, h)' => At(p, h)
  BY <1>1, <1>2, <1>11 DEF At, Waits, Unfiled, Calling
<1>12. ASSUME UNCHANGED <<skb, hook>> PROVE \A t : Refiled(t) => Refiled(t)'
  BY <1>12 DEF Refiled
\* Where p is, when a call begins or ends.
<1>13. ASSUME UNCHANGED <<skb, frame, hook>>, NEW c \in Context, NEW x, call' = [call EXCEPT ![c] = x]
       PROVE  \A h : At(p, h)' =>
                \/ At(p, h)
                \/ \E s \in Live : /\ InCall(c) /\ call[c].op \in {"copy", "replace"}
                                   /\ call[c].made = s /\ call[c].identity # None
                                   /\ skb[s].packet = p /\ skb[s].head = h
  <2> SUFFICES ASSUME NEW h, At(p, h)', ~At(p, h)
               PROVE  \E s \in Live : /\ InCall(c) /\ call[c].op \in {"copy", "replace"}
                                      /\ call[c].made = s /\ call[c].identity # None
                                      /\ skb[s].packet = p /\ skb[s].head = h
    OBVIOUS
  <2>1. PICK s \in Live : skb[s].packet = p /\ skb[s].head = h /\ ~Waits(s)'
    BY <1>1, <1>2, <1>13 DEF At
  <2>2. Unfiled(s) /\ ~Unfiled(s)'
    BY <1>12, <1>13, <2>1 DEF At, Waits
  <2>3. PICK d \in Calling : /\ call[d].op \in {"copy", "replace"}
                             /\ call[d].made = s /\ call[d].identity # None
    BY <2>2 DEF Unfiled
  <2>4. d # c => call'[d] = call[d] /\ d \in Context
    BY <1>1, <1>13 DEF Calling
  <2>5. d = c
    BY <2>2, <2>3, <2>4 DEF Unfiled, Calling
  <2> QED
    BY <2>1, <2>3, <2>5 DEF Calling, InCall
\* Where p is, when s comes or goes.
<1>14. ASSUME UNCHANGED hook, NEW s \in Skb,
              \A t \in Live' : t # s => t \in Live /\ skb'[t] = skb[t],
              \A c \in Context : frame'[c] # None => frame'[c] = frame[c],
              \A c \in Context, t \in Live' :
                InCall(c) /\ call[c].made = t /\ t # s => call'[c] = call[c]
       PROVE  \A h : At(p, h)' =>
                \/ At(p, h)
                \/ s \in Live' /\ skb'[s].packet = p /\ skb'[s].head = h /\ ~Waits(s)'
  <2> SUFFICES ASSUME NEW t \in Live', t # s, ~Waits(t)' PROVE ~Waits(t)
    BY <1>14 DEF At
  <2>1. t \in Live /\ skb'[t] = skb[t]
    BY <1>14
  <2>2. Refiled(t) => Refiled(t)'
    BY <1>6, <1>14, <2>1 DEF Refiled
  <2>3. Unfiled(t) => Unfiled(t)'
    BY <1>14 DEF Unfiled, Calling, InCall
  <2> QED
    BY <2>2, <2>3 DEF Waits
\* The identity i is filed under the buffer of s, or withdrawn.
<1>15. ASSUME NEW s \in Live, NEW i,
              skb_data_lineages' = [skb_data_lineages EXCEPT ![skb[s].head] = i],
              skb[s].packet = p => i \in Identity /\ Owns(p, i),
              \A j \in Identity : Owns(p, j)' => Owns(p, j),
              \A h \in Head : At(p, h)' =>
                At(p, h) \/ \E t \in Live : skb[t].packet = p /\ skb[t].head = h /\ h = skb[s].head
       PROVE  Follows(p)'
  <2>1. \A h \in Head : skb_data_lineages'[h] = IF h = skb[s].head THEN i ELSE skb_data_lineages[h]
    BY <1>1, <1>15
  <2>2. ASSUME NEW h \in Head, At(p, h)'
        PROVE  \/ At(p, h) /\ skb_data_lineages'[h] = skb_data_lineages[h]
               \/ skb_data_lineages'[h] \in Identity /\ Owns(p, skb_data_lineages'[h])
    <3>1. CASE h # skb[s].head
      BY <1>15, <2>1, <2>2, <3>1
    <3>2. CASE h = skb[s].head
      <4>1. skb[s].packet = p
        BY <1>6, <1>8, <1>15, <2>2, <3>2
      <4> QED
        BY <1>15, <2>1, <3>2, <4>1
    <3> QED
      BY <3>1, <3>2
  <2> QED
    BY <1>9, <1>15, <2>2
\* A new packet.
<1>16. ASSUME p = packets + 1
       PROVE  (\A h : ~At(p, h)) /\ (\A i \in Identity : ~Owns(p, i))
  <2>1. ~(p <= packets)
    BY <1>7, <1>16
  <2>2. /\ \A s \in Live : skb[s].packet # p
        /\ \A c \in Context : frame[c] # None => frame[c].data.packet # p
        /\ \A i \in Identity : p \notin named[i]
    BY <1>7, <2>1
  <2> QED
    BY <1>1, <2>2 DEF At, Owns, InHand
\* p takes the number i: it had none, and is on the buffer that i is to be filed under.
<1>17. ASSUME NEW i \in Identity, Owns(p, i)', ~Owns(p, i) PROVE Follows(p)'
  <2>1. /\ i = lineage_sequence + 1
        /\ \/ \E c \in Context : TraceMatched(c) /\ skb[hook[c].skb].packet = p
           \/ \E c \in Context, h \in Head : XdpEntry(c, h) /\ p = packets + 1
    BY <1>3, <1>17, OwnsBack
  <2>2. \A j \in Identity : Owns(p, j)' /\ ~Owns(p, j) => j = i
    BY <1>3, <2>1, OwnsBack
  <2>3. ASSUME NEW c \in Context, TraceMatched(c), skb[hook[c].skb].packet = p PROVE Follows(p)'
    <3>1. PICK s : s = hook[c].skb
      OBVIOUS
    <3>2. PICK n \in Identity :
            /\ hook[c] # None /\ hook[c].step = "filter" /\ Moves(c, "file", n)
            /\ ~IsTracked(s) /\ c \notin crowded /\ ~Unfiled(s)
            /\ UNCHANGED <<skb, frame, call>>
      BY <2>3, <3>1 DEF TraceMatched, In, kernelVars
    <3>3. s \in Live /\ skb[s].head \in Head /\ skb[s].packet = p
      BY <1>1, <1>6, <2>3, <3>1, <3>2
    <3>4. \A j \in Identity : ~Owns(p, j)
      BY <1>4, <2>3, <3>1, <3>2 DEF Decides, Unowned
    <3>5. ~Refiled(s)
      <4> SUFFICES ASSUME NEW d \in Context, hook[d] # None, hook[d].step \in {"file", "associate"},
                          skb[hook[d].skb].head = skb[s].head
                   PROVE  FALSE
        BY DEF Refiled
      <4>1. skb[hook[d].skb].packet = p /\ hook[d].identity \in Identity
        BY <1>1, <1>6, <3>3
      <4> QED
        BY <1>1, <1>5, <3>2, <3>4, <4>1
    <3>6. At(p, skb[s].head)
      BY <3>2, <3>3, <3>5 DEF At, Waits
    <3>7. /\ hook'[c] # None /\ hook'[c].skb = s /\ hook'[c].step = "file"
          /\ \A d \in Context \ {c} : hook'[d] = hook[d]
      BY <1>3, <3>1, <3>2, MovesTo
    <3>8. \A t : Refiled(t) => Refiled(t)'
      BY <3>1, <3>2, <3>7 DEF Refiled
    <3>9. \A h : ~At(p, h)'
      <4> SUFFICES ASSUME NEW h, At(p, h)' PROVE FALSE
        OBVIOUS
      <4>1. At(p, h)
        BY <1>11, <3>2, <3>8
      <4>2. h \in Head
        BY <1>6, <4>1 DEF At
      <4>3. h = skb[s].head
        BY <1>4, <3>3, <3>4, <3>6, <4>1, <4>2
      <4>4. \A t \in Live' : skb'[t].head = h => Refiled(t)'
        BY <3>2, <3>7, <4>3 DEF Refiled
      <4> QED
        BY <1>6, <3>2, <3>3, <4>3, <4>4 DEF At, Waits
    <3>10. \A j \in Identity : Owns(p, j)' => j = i
      BY <2>2, <3>4
    <3>11. ASSUME NEW d \in Context PROVE Decides(d, p)'
      <4> SUFFICES ASSUME d # c, hook[d] # None, skb[hook[d].skb].packet = p PROVE FALSE
        BY <1>3, <3>2, <3>7 DEF Decides
      <4> QED
        BY <2>3, <3>2 DEF FollowInv, Crowding
    <3> QED
      BY <3>9, <3>10, <3>11, <1>17 DEF Follows, Unowned
  <2>4. ASSUME NEW c \in Context, NEW h0 \in Head, XdpEntry(c, h0), p = packets + 1
        PROVE  Follows(p)'
    <3>1. PICK n \in Identity \cup {None} :
            /\ Inherit(p, h0)
            /\ \/ skb_data_lineages[h0] # None
               \/ skb_data_lineages' = [skb_data_lineages EXCEPT ![h0] = n]
               \/ n = None
            /\ named' = IF n = None THEN named ELSE [named EXCEPT ![n] = @ \cup {p}]
            /\ frame' = [frame EXCEPT ![c] = [data |-> [packet |-> p, head |-> h0], entry |-> n]]
      BY <2>4 DEF XdpEntry
    <3>2. /\ UNCHANGED <<skb, call, hook>> /\ h0 \in FreeHeads
          /\ \A d \in Context : d # c => frame'[d] = frame[d]
          /\ frame'[c].data.packet = p /\ frame'[c].data.head = h0
      BY <1>1, <2>4, <3>1 DEF XdpEntry
    <3>3. (\A h : ~At(p, h)) /\ (\A j \in Identity : ~Owns(p, j))
      BY <1>16, <2>4
    <3>4. \A h : At(p, h)' => h = h0
      <4>1. \A t : Refiled(t) => Refiled(t)'
        BY <1>12, <3>2
      <4>2. \A t \in Live' : t \in Live /\ (Waits(t) => Waits(t)')
        BY <1>1, <1>2, <3>2, <4>1 DEF Waits, Unfiled, Calling
      <4> QED
        BY <3>2, <3>3, <4>2 DEF At
    <3>5. skb_data_lineages[h0] = None
      BY <3>1 DEF Inherit
    <3>6. n = i
      <4>1. p \in named'[i]
        BY <1>6, <1>17, <3>2, <3>3 DEF Owns, InHand
      <4> QED
        BY <1>3, <3>1, <3>3, <4>1 DEF Owns, BaseInv, LineageTypeOK
    <3>7. skb_data_lineages'[h0] = i
      BY <1>1, <3>1, <3>5, <3>6
    <3>8. \A j \in Identity : Owns(p, j)' => j = i
      BY <2>2, <3>3
    <3>9. \A d \in Context : Decides(d, p)'
      BY <1>1, <1>6, <3>2, <2>4, <1>7 DEF Decides
    <3> QED
      BY <1>17, <3>4, <3>7, <3>8, <3>9 DEF Follows, Unowned
  <2> QED
    BY <2>1, <2>3, <2>4
<1>18. SUFFICES ASSUME \A i \in Identity : Owns(p, i)' => Owns(p, i) PROVE Follows(p)'
  BY <1>17
<1>19. ASSUME UNCHANGED skb_data_lineages, \A h \in Head : At(p, h)' => At(p, h)
       PROVE  Follows(p)'
  BY <1>9, <1>18, <1>19
<1>20. CASE UNCHANGED vars
  BY <1>11, <1>12, <1>19, <1>20 DEF vars, kernelVars, lineageVars
\* The steps of a hook.
<1>21. ASSUME NEW c \in Context, Hooks(c) PROVE Follows(p)'
  <2>1. UNCHANGED <<skb, frame, call>> /\ \A d \in Context \ {c} : hook'[d] = hook[d]
    BY <1>3, <1>21, HookSteps DEF kernelVars, BaseInv
  <2>2. ASSUME UNCHANGED skb_data_lineages, \A t : Refiled(t) => Refiled(t)' PROVE Follows(p)'
    BY <1>11, <1>19, <2>1, <2>2
  <2>3. ASSUME hook[c] = None \/ hook[c].step = "filter" PROVE \A t : Refiled(t) => Refiled(t)'
    BY <2>1, <2>3 DEF Refiled
  <2>4. ASSUME hook[c] # None,
               NEW i \in Identity \cup {None}, NEW step \in {"file", "associate"}, Moves(c, step, i)
        PROVE  /\ \A t : Refiled(t) => Refiled(t)'
               /\ \A t : skb[t].head = skb[hook[c].skb].head => Refiled(t)'
    <3>1. hook'[c] # None /\ hook'[c].skb = hook[c].skb /\ hook'[c].step = step
      BY <1>3, <2>4, MovesTo
    <3> QED
      BY <2>1, <3>1 DEF Refiled
  <2>5. CASE \/ \E s \in Skb : Begin(c, s)
             \/ TraceTracked(c) \/ TraceFiltered(c) \/ TraceMatched(c)
    BY <2>2, <2>3, <2>5 DEF Begin, TraceTracked, TraceFiltered, TraceMatched, In, lineageVars
  <2>6. CASE FileTracked(c)
    <3>1. hook[c] # None /\ Moves(c, "associate", hook[c].identity) /\ UNCHANGED skb_data_lineages
      BY <2>6 DEF FileTracked, In
    <3> QED
      BY <1>1, <2>2, <2>4, <3>1
  <2>7. CASE Withdraw(c)
    <3>1. PICK h0 : h0 = skb[hook[c].skb].head
      OBVIOUS
    <3>2. /\ hook[c] # None /\ Moves(c, "associate", hook[c].identity)
          /\ skb_data_lineages' = [skb_data_lineages EXCEPT ![h0] = None]
      BY <2>7, <3>1 DEF Withdraw, In
    <3>3. /\ \A t : Refiled(t) => Refiled(t)'
          /\ \A t : skb[t].head = h0 => Refiled(t)'
      BY <1>1, <2>4, <3>1, <3>2
    <3>4. \A h : At(p, h)' => At(p, h)
      BY <1>11, <2>1, <3>3
    <3>5. ~At(p, h0)'
      <4>1. \A d \in Context : frame'[d] # None => frame'[d].data.head # h0
        BY <1>1, <1>6, <2>1, <3>1, <3>2
      <4> QED
        BY <2>1, <3>3, <4>1 DEF At, Waits
    <3>6. \A h \in Head : h # h0 => skb_data_lineages'[h] = skb_data_lineages[h]
      BY <1>1, <3>2
    <3> QED
      BY <1>9, <1>18, <3>4, <3>5, <3>6
  <2>8. ASSUME NEW a \in Anchor \cup {None}, Report(c, a) PROVE Follows(p)'
    <3>1. PICK s : s = hook[c].skb
      OBVIOUS
    <3>2. PICK i : i = hook[c].identity
      OBVIOUS
    <3>3. /\ hook[c] # None /\ hook[c].step = "associate"
          /\ skb_data_lineages' = [skb_data_lineages EXCEPT ![skb[s].head] = i]
      BY <2>8, <3>1, <3>2 DEF Report, In, associate_skb_data
    <3>4. s \in Live /\ i \in Identity /\ (skb[s].packet = p => Owns(p, i))
      BY <1>1, <1>5, <1>6, <3>1, <3>2, <3>3
    <3>5. ASSUME NEW h \in Head, At(p, h)', ~At(p, h)
          PROVE  \E t \in Live : skb[t].packet = p /\ skb[t].head = h /\ h = skb[s].head
      <4>1. PICK t \in Live : skb[t].packet = p /\ skb[t].head = h /\ ~Waits(t)' /\ Waits(t)
        BY <1>1, <1>2, <2>1, <3>5 DEF At
      <4>2. Refiled(t) /\ ~Refiled(t)'
        BY <2>1, <4>1 DEF Waits, Unfiled, Calling
      <4>3. h = skb[s].head
        BY <2>1, <3>1, <4>1, <4>2 DEF Refiled
      <4> QED
        BY <4>1, <4>3
    <3> QED
      BY <1>15, <1>18, <3>3, <3>4, <3>5
  <2> QED
    BY <1>21, <2>5, <2>6, <2>7, <2>8 DEF Hooks
\* The kernel's steps.
<1>22. CASE \/ \E s \in Skb : EvictTracked(s) \/ EvictSkbAnchor(s)
            \/ \E a \in Anchor : EvictStackAnchor(a) \/ StackAssociated(a)
  BY <1>11, <1>12, <1>19, <1>22 DEF EvictTracked, EvictSkbAnchor, EvictStackAnchor,
     StackAssociated, kernelVars, lineageVars
<1>23. ASSUME NEW s \in Skb, Free(s) PROVE Follows(p)'
  <2>1. /\ skb' = [skb EXCEPT ![s] = None]
        /\ UNCHANGED <<frame, call, hook, skb_data_lineages>>
    BY <1>23 DEF Free
  <2>2. /\ \A t \in Live' : t # s /\ t \in Live /\ skb'[t] = skb[t]
        /\ s \notin Live'
    BY <1>1, <1>2, <2>1
  <2> QED
    BY <1>14, <1>19, <2>1, <2>2
<1>24. ASSUME NEW h0 \in Head, EvictLineage(h0) PROVE Follows(p)'
  <2>1. /\ UNCHANGED <<skb, frame, call, hook>>
        /\ skb_data_lineages' = [skb_data_lineages EXCEPT ![h0] = None]
    BY <1>24 DEF EvictLineage, kernelVars
  <2>2. ~At(p, h0)
    <3>1. split' = split \cup {skb[s].packet : s \in {t \in Live : skb[t].head = h0}}
                \cup {frame[c].data.packet :
                        c \in {d \in Context : frame[d] # None /\ frame[d].data.head = h0}}
      BY <1>24 DEF EvictLineage
    <3> QED
      BY <3>1 DEF At
  <2>3. \A h \in Head : h # h0 => skb_data_lineages'[h] = skb_data_lineages[h]
    BY <1>1, <2>1
  <2> QED
    BY <1>9, <1>11, <1>12, <1>18, <2>1, <2>2, <2>3
<1>25. ASSUME NEW s \in FreeSkbs, NEW q, NEW h0, skb' = [skb EXCEPT ![s] = [packet |-> q, head |-> h0]],
              UNCHANGED <<frame, hook, skb_data_lineages>>,
              \A c \in Context, t \in Live' :
                InCall(c) /\ call[c].made = t /\ t # s => call'[c] = call[c],
              q = packets + 1 \/ q # p \/ Unfiled(s)'
       PROVE  Follows(p)'
  <2> DEFINE v == [packet |-> q, head |-> h0]
  <2>1. v.packet = q /\ v.head = h0
    OBVIOUS
  <2> HIDE DEF v
  <2>2. /\ skb'[s] = v /\ s \in Skb
        /\ \A t \in Live' : t # s => t \in Live /\ skb'[t] = skb[t]
    BY <1>1, <1>2, <1>25 DEF v
  <2>3. \A h : At(p, h)' => At(p, h) \/ (q = p /\ h = h0 /\ ~Waits(s)')
    BY <1>14, <1>25, <2>1, <2>2
  <2>4. CASE q = packets + 1 /\ q = p
    <3>1. (\A h : ~At(p, h)) /\ (\A i \in Identity : ~Owns(p, i))
      BY <1>16, <2>4
    <3> QED
      BY <1>10, <1>18, <2>3, <3>1
  <2>5. CASE q # p \/ Unfiled(s)'
    BY <1>19, <1>25, <2>3, <2>5 DEF Waits
  <2> QED
    BY <1>25, <2>4, <2>5
<1>26. ASSUME NEW s \in Skb, NEW h \in Head, Allocate(s, h) PROVE Follows(p)'
  <2>1. /\ s \in FreeSkbs /\ packets' = packets + 1
        /\ skb' = [skb EXCEPT ![s] = [packet |-> packets', head |-> h]]
        /\ UNCHANGED <<frame, call, hook, skb_data_lineages>>
    BY <1>26 DEF Allocate, lineageVars
  <2> QED
    BY <1>25, <2>1
\* The steps of a call.
<1>27. ASSUME NEW c \in Context, NEW s \in Skb,
              \/ \E op \in {"clone", "copy"} : CloneEntry(c, s, op)
              \/ ReplaceEntry(c, s)
       PROVE  Follows(p)'
  <2>1. /\ call[c] = None /\ UNCHANGED <<skb, frame, hook, skb_data_lineages>>
        /\ \E x : call' = [call EXCEPT ![c] = x]
    BY <1>27 DEF CloneEntry, ReplaceEntry, Idle, lineageVars
  <2>2. \A h : At(p, h)' => At(p, h)
    BY <1>13, <2>1 DEF InCall
  <2> QED
    BY <1>19, <2>1, <2>2
<1>28. ASSUME NEW c \in Context, NEW s \in Skb, Clone(c, s) PROVE Follows(p)'
  <2> DEFINE u == call[c].skb
  <2>1. /\ InCall(c) /\ call[c].op = "clone" /\ call[c].made = None /\ s \in FreeSkbs
        /\ skb' = [skb EXCEPT ![s] = skb[u]]
        /\ call' = [call EXCEPT ![c].made = s]
        /\ UNCHANGED <<frame, hook, skb_data_lineages>>
    BY <1>28 DEF Clone, lineageVars, Making, Inside, InCall
  <2>2. \A d \in Context : d # c => call'[d] = call[d]
    BY <1>1, <2>1
  <2>3. /\ skb'[s] = skb[u] /\ u \in Live /\ None \notin Live'
        /\ \A t \in Live' : t # s => t \in Live /\ skb'[t] = skb[t]
    BY <1>1, <1>2, <2>1
  <2>4. \A h : At(p, h)' =>
          \/ At(p, h)
          \/ skb[u].packet = p /\ skb[u].head = h /\ ~Waits(s)'
    BY <1>14, <2>1, <2>2, <2>3
  <2>5. ~Unfiled(u)
    BY <1>1, <2>1, <2>3 DEF Unfiled, Calling, InCall, CallsApart
  <2>6. Refiled(u) => Refiled(s)'
    BY <1>6, <2>1, <2>3 DEF Refiled
  <2>7. \A h : At(p, h)' => At(p, h)
    BY <2>3, <2>4, <2>5, <2>6 DEF At, Waits
  <2> QED
    BY <1>19, <2>1, <2>7
<1>29. ASSUME NEW c \in Context, NEW s \in Skb, NEW h0 \in Head, Copy(c, s, h0) PROVE Follows(p)'
  <2>1. PICK q :
          /\ InCall(c) /\ call[c].op = "copy" /\ call[c].made = None /\ s \in FreeSkbs
          /\ skb' = [skb EXCEPT ![s] = [packet |-> q, head |-> h0]]
          /\ call' = [call EXCEPT ![c].made = s]
          /\ UNCHANGED <<frame, hook, skb_data_lineages>>
          /\ call[c].identity = None => q = packets + 1 \/ q \in split'
    BY <1>29 DEF Copy, lineageVars, Making, Inside, InCall
  <2>2. \A d \in Context : d # c => call'[d] = call[d]
    BY <1>1, <2>1
  <2>3. call[c].identity # None => Unfiled(s)'
    <3>1. /\ call'[c].op = "copy" /\ call'[c].made = s /\ call'[c].identity = call[c].identity
          /\ call'[c] # None
      <4>1. call[c] \in Call /\ s \in Skb /\ call'[c] = [call[c] EXCEPT !.made = s]
        BY <1>1, <2>1
      <4>2. [call[c] EXCEPT !.made = s] \in Call
        BY <4>1 DEF Call
      <4> QED
        BY <1>1, <2>1, <4>1, <4>2 DEF Call
    <3> QED
      BY <3>1 DEF Unfiled, Calling
  <2>4. None \notin Live'
    BY <1>1, <1>2
  <2> QED
    BY <1>25, <2>1, <2>2, <2>3, <2>4
\* An untracked packet without identity is on the one buffer, and moves to the next.
<1>30. ASSUME NEW c \in Context, NEW s \in Skb, NEW h0 \in Head, Replace(c, s, h0) PROVE Follows(p)'
  <2>0. PICK old : old = call[c].skb
    OBVIOUS
  <2> DEFINE v == [packet |-> skb[old].packet, head |-> h0]
  <2>1. /\ InCall(c) /\ hook[c] = None /\ call[c].op = "replace" /\ call[c].made = None
        /\ s \in FreeSkbs
        /\ skb' = [skb EXCEPT ![s] = v, ![old] = None]
        /\ call' = [call EXCEPT ![c].made = s, ![c].skb = s]
        /\ UNCHANGED <<frame, hook, skb_data_lineages>> /\ old \in Live
        /\ v.packet = skb[old].packet /\ v.head = h0
    BY <1>1, <1>30, <2>0 DEF Replace, Making, Inside, InCall
  <2> HIDE DEF v
  <2>2. \A d \in Context : d # c => call'[d] = call[d]
    BY <1>1, <2>1
  <2>3. /\ s # old /\ s \notin Live /\ skb'[s] = v /\ None \notin Live' /\ s \in Skb
        /\ \A t \in Live' : t # s => t \in Live /\ t # old /\ skb'[t] = skb[t]
    BY <1>1, <1>2, <2>1
  <2>4. \A h : At(p, h)' => At(p, h) \/ (skb[old].packet = p /\ h = h0 /\ ~Waits(s)')
    <3>1. \A d \in Context, t \in Live' :
            InCall(d) /\ call[d].made = t /\ t # s => call'[d] = call[d]
      BY <2>1, <2>2, <2>3
    <3>2. UNCHANGED hook /\ \A d \in Context : frame'[d] # None => frame'[d] = frame[d]
      BY <2>1
    <3>3. \A h : At(p, h)' =>
            \/ At(p, h)
            \/ s \in Live' /\ skb'[s].packet = p /\ skb'[s].head = h /\ ~Waits(s)'
      BY <1>14, <2>3, <3>1, <3>2
    <3> QED
      BY <2>1, <2>3, <3>3
  <2>5. CASE call[c].identity # None
    <3>1. /\ call'[c].op = "replace" /\ call'[c].made = s /\ call'[c] # None
          /\ call'[c].identity = call[c].identity
      <4>1. /\ call[c] \in Call /\ s \in Skb
            /\ call'[c] = [call[c] EXCEPT !.made = s, !.skb = s]
        BY <1>1, <2>1
      <4>2. [call[c] EXCEPT !.made = s, !.skb = s] \in Call
        BY <4>1 DEF Call
      <4> QED
        BY <1>1, <2>1, <4>1, <4>2 DEF Call
    <3>2. Unfiled(s)'
      BY <2>5, <3>1 DEF Unfiled, Calling
    <3> QED
      BY <1>19, <2>1, <2>4, <3>2 DEF Waits
  <2>6. CASE skb[old].packet # p
    BY <1>19, <2>1, <2>4, <2>6
  <2>7. CASE call[c].identity = None /\ skb[old].packet = p
    <3>1. ~Observed(p) /\ \A t \in Live : skb[t].packet = p => t = old
      BY <1>30, <2>0, <2>7 DEF Replace
    <3>2. \A d \in Context : hook[d] # None => hook[d].skb # old
      BY <1>6, <2>0, <2>1
    <3>3. \A i \in Identity : ~Owns(p, i)
      BY <1>1, <3>1, <3>2 DEF Owns, InHand, Observed
    <3>4. ~Unfiled(old)
      BY <1>1, <2>0, <2>1 DEF Unfiled, Calling, InCall, CallsApart
    <3>5. ~Refiled(old)
      <4> SUFFICES ASSUME NEW d \in Context, hook[d] # None, hook[d].step \in {"file", "associate"},
                          skb[hook[d].skb].head = skb[old].head
                   PROVE  FALSE
        BY DEF Refiled
      <4> QED
        BY <1>1, <1>6, <2>1, <2>7, <3>1, <3>2
    <3>6. At(p, skb[old].head) /\ skb[old].head \in Head
      BY <1>6, <2>1, <2>7, <3>4, <3>5 DEF At, Waits
    <3>7. \A d \in Context : frame[d] # None => frame[d].data.packet # p
      <4> SUFFICES ASSUME NEW d \in Context, frame[d] # None, frame[d].data.packet = p PROVE FALSE
        OBVIOUS
      <4>1. At(p, frame[d].data.head) /\ frame[d].data.head \in Head
        BY <1>6 DEF At
      <4> QED
        BY <1>4, <1>6, <2>1, <3>3, <3>6, <4>1
    <3>8. \A h : At(p, h)' => h = h0
      BY <2>1, <2>3, <3>1, <3>7 DEF At
    <3> QED
      BY <1>10, <1>18, <3>3, <3>8
  <2> QED
    BY <2>5, <2>6, <2>7
<1>31. ASSUME NEW c \in Context, CloneExit(c) PROVE Follows(p)'
  <2>1. PICK i : i = pending_clones[Key[c]]
    OBVIOUS
  <2>2. PICK s : s = call[c].made
    OBVIOUS
  <2>3. /\ InCall(c) /\ call[c].op \in {"clone", "copy"}
        /\ UNCHANGED <<skb, frame, hook>>
        /\ call' = [call EXCEPT ![c] = None]
        /\ s # None => s \in Live /\ skb[s].head \in Head
        /\ s # None /\ i = None /\ call[c].identity # None => skb[s].packet \in split'
        /\ s # None /\ i # None /\ i # call[c].identity => skb[s].packet \in mistaken'
    BY <1>1, <1>6, <1>31, <2>1, <2>2 DEF CloneExit, Inside, InCall, CallHolds
  <2>4. \A h : At(p, h)' =>
          \/ At(p, h)
          \/ /\ s \in Live /\ s # None /\ call[c].identity # None
             /\ skb[s].packet = p /\ skb[s].head = h
    <3>1. \A h : At(p, h)' =>
            \/ At(p, h)
            \/ \E t \in Live : /\ call[c].made = t /\ call[c].identity # None
                               /\ skb[t].packet = p /\ skb[t].head = h
      BY <1>13, <2>3
    <3> QED
      BY <1>1, <2>2, <3>1
  <2>5. CASE s = None \/ i = None
    <3>1. UNCHANGED skb_data_lineages
      BY <1>31, <2>1, <2>2, <2>5 DEF CloneExit
    <3> QED
      BY <1>19, <2>3, <2>4, <2>5, <3>1
  <2>6. CASE s # None /\ i # None
    <3>1. skb_data_lineages' = [skb_data_lineages EXCEPT ![skb[s].head] = i]
      BY <1>31, <2>1, <2>2, <2>6 DEF CloneExit, associate_skb_data
    <3>2. skb[s].packet = p => i \in Identity /\ Owns(p, i)
      <4> SUFFICES ASSUME skb[s].packet = p PROVE i \in Identity /\ Owns(p, i)
        OBVIOUS
      <4>1. i = call[c].identity
        BY <2>3, <2>6
      <4>2. skb[call[c].skb].packet = p
        BY <1>3, <2>2, <2>3, <2>6, <4>1 DEF PlaceInv, CallsMakeAlike, MadeAlike
      <4> QED
        BY <1>5, <1>6, <2>3, <2>6, <4>1, <4>2
    <3> QED
      BY <1>15, <1>18, <2>3, <2>4, <2>6, <3>1, <3>2
  <2> QED
    BY <2>5, <2>6
<1>32. ASSUME NEW c \in Context, ReplaceExit(c) PROVE Follows(p)'
  <2>1. PICK r : r = pending_skb_replacements[Key[c]]
    OBVIOUS
  <2>2. PICK made : made = call[c].skb
    OBVIOUS
  <2>3. /\ InCall(c) /\ call[c].op = "replace" /\ made \in Live
        /\ UNCHANGED <<skb, frame, hook>>
        /\ call' = [call EXCEPT ![c] = None]
        /\ call[c].identity # None /\ (r = None \/ r.slot # c) => skb[made].packet \in split'
    BY <1>1, <1>32, <2>1, <2>2 DEF ReplaceExit, Inside, InCall
  <2>4. \A h : At(p, h)' =>
          \/ At(p, h)
          \/ skb[made].packet = p /\ skb[made].head = h /\ call[c].identity # None
    <3>1. \A h : At(p, h)' =>
            \/ At(p, h)
            \/ \E t \in Live : /\ call[c].made = t /\ call[c].identity # None
                               /\ skb[t].packet = p /\ skb[t].head = h
      BY <1>13, <2>3
    <3>2. \A t \in Live : call[c].made = t => t = made
      BY <1>1, <2>2, <2>3 DEF CallHolds
    <3> QED
      BY <3>1, <3>2
  <2>5. CASE r = None
    <3>1. UNCHANGED skb_data_lineages
      BY <1>32, <2>1, <2>5 DEF ReplaceExit
    <3> QED
      BY <1>19, <2>3, <2>4, <2>5, <3>1
  <2>6. CASE r # None
    <3>1. PICK s : s = Slot(r.slot)
      OBVIOUS
    <3>2. skb_data_lineages' = [skb_data_lineages EXCEPT ![skb[s].head] = r.identity]
      BY <1>32, <2>1, <2>6, <3>1 DEF ReplaceExit, associate_skb_data
    <3>3. Key[c] \in Pid
      BY DEF Pid
    <3>4. /\ InCall(r.slot) /\ call[r.slot].identity = r.identity /\ r.slot \in Context
          /\ call[r.slot].op = "replace" /\ r.identity \in Identity
      BY <1>3, <2>1, <2>6, <3>3
         DEF PlaceInv, PendingIsCall, BaseInv, LineageTypeOK, Replacement
    <3>5. s = call[r.slot].skb /\ s \in Live
      BY <1>1, <3>1, <3>4 DEF Slot, CallHolds
    <3>6. skb[s].packet = p => Owns(p, r.identity)
      BY <1>1, <1>5, <3>4, <3>5
    <3>7. \A h \in Head : At(p, h)' =>
            At(p, h) \/ \E t \in Live : skb[t].packet = p /\ skb[t].head = h /\ h = skb[s].head
      BY <2>2, <2>3, <2>4, <2>6, <3>5
    <3> QED
      BY <1>15, <1>18, <3>2, <3>4, <3>5, <3>6, <3>7
  <2> QED
    BY <2>5, <2>6
\* The steps of an XDP program's run.
<1>33. ASSUME NEW c \in Context, XdpExit(c) PROVE Follows(p)'
  <2>1. /\ frame[c] # None /\ frame' = [frame EXCEPT ![c] = None]
        /\ UNCHANGED <<call, hook, skb_data_lineages>>
        /\ UNCHANGED skb \/ \E s \in FreeSkbs : skb' = [skb EXCEPT ![s] = frame[c].data]
    BY <1>33 DEF XdpExit, lineageVars
  <2>2. \A d \in Context : frame'[d] # None => frame'[d] = frame[d]
    BY <1>1, <2>1
  <2>3. CASE UNCHANGED skb
    <3>1. \A t \in Live' : t \in Live /\ (Waits(t) => Waits(t)')
      BY <1>1, <1>2, <1>12, <2>1, <2>3 DEF Waits, Unfiled, Calling
    <3>2. \A h : At(p, h)' => At(p, h)
      BY <2>2, <2>3, <3>1 DEF At
    <3> QED
      BY <1>19, <2>1, <3>2
  <2>4. ASSUME NEW s \in FreeSkbs, skb' = [skb EXCEPT ![s] = frame[c].data] PROVE Follows(p)'
    <3>1. /\ s \in Skb /\ skb'[s] = frame[c].data
          /\ \A t \in Live' : t # s => t \in Live /\ skb'[t] = skb[t]
      BY <1>1, <1>2, <2>4
    <3>2. \A h : At(p, h)' =>
            \/ At(p, h)
            \/ frame[c].data.packet = p /\ frame[c].data.head = h
      BY <1>14, <2>1, <2>2, <3>1
    <3>3. \A h : At(p, h)' => At(p, h)
      BY <2>1, <3>2 DEF At
    <3> QED
      BY <1>19, <2>1, <3>3
  <2> QED
    BY <2>1, <2>3, <2>4
<1>34. ASSUME NEW c \in Context, NEW h0 \in Head, XdpEntry(c, h0) PROVE Follows(p)'
  <2>1. PICK q, i :
          /\ q = packets + 1
          /\ \/ UNCHANGED skb_data_lineages
             \/ skb_data_lineages' = [skb_data_lineages EXCEPT ![h0] = i]
          /\ frame' = [frame EXCEPT ![c] = [data |-> [packet |-> q, head |-> h0], entry |-> i]]
    BY <1>34 DEF XdpEntry
  <2>2. UNCHANGED <<skb, call, hook>> /\ h0 \in FreeHeads
    BY <1>34 DEF XdpEntry
  <2>3. /\ frame'[c].data.packet = q /\ frame'[c].data.head = h0
        /\ \A d \in Context : d # c => frame'[d] = frame[d]
    BY <1>1, <2>1
  <2>4. \A t \in Live' : t \in Live /\ (Waits(t) => Waits(t)')
    BY <1>1, <1>2, <1>12, <2>2 DEF Waits, Unfiled, Calling
  <2>5. ~At(p, h0) /\ \A h : At(p, h)' => At(p, h) \/ (q = p /\ h = h0)
    BY <1>1, <2>2, <2>3, <2>4 DEF At
  <2>6. \A h \in Head : h # h0 => skb_data_lineages'[h] = skb_data_lineages[h]
    BY <1>1, <2>1
  <2>7. CASE q # p
    BY <1>9, <1>18, <2>5, <2>6, <2>7
  <2>8. CASE q = p
    BY <1>10, <1>16, <1>18, <2>1, <2>5, <2>8
  <2> QED
    BY <2>7, <2>8
<1> QED
  BY <1>20, <1>21, <1>22, <1>23, <1>24, <1>26, <1>27, <1>28, <1>29, <1>30, <1>31, <1>32, <1>33,
     <1>34, DriverAssumption DEF Next, Kernel, Calls, Frames

\* A packet no exception applies to now is one that none applied to before.
LEMMA FollowStep == FollowInv /\ [Next]_vars => FollowInv'
<1> SUFFICES ASSUME FollowInv, [Next]_vars PROVE FollowInv'
  OBVIOUS
<1>1. IdentityInv' /\ Seen' /\ Crowding'
  BY IdentityStep, SeenStep, CrowdingStep DEF FollowInv, IdentityInv, PlaceInv
<1>2. \A p \in Packet \ (split' \cup inherited' \cup mistaken') : Follows(p)'
  BY FollowsStep
<1> QED
  BY <1>1, <1>2 DEF FollowInv

\* At first there is no packet to follow.
LEMMA FollowInit == Init => FollowInv
<1> SUFFICES ASSUME Init PROVE FollowInv
  OBVIOUS
<1>1. Live = {} /\ (\A i \in Identity : named[i] = {}) /\ \A c \in Context : hook[c] = None
  BY DEF Init, Live, FreeSkbs
<1>2. Seen /\ Crowding
  BY <1>1 DEF Init, Seen, Crowding
<1>3. \A p, h : ~At(p, h)
  BY <1>1 DEF Init, At
<1>4. \A p : Follows(p)
  BY <1>1, <1>3 DEF Follows, Unowned, Owns, InHand, Decides
<1> QED
  BY <1>2, <1>4, IdentityInit DEF FollowInv

\* A packet's observations carry one identity, from the XDP frame through clones,
\* copies and replacements, however hooks on its clones interleave, unless the
\* kernel evicted its entry, it was copied or replaced untracked, it took a number
\* beside another hook on it, or a call with the same pid_tgid took what was its.
THEOREM PacketKeepsIdentity == Spec => []PacketHasOneIdentity
<1>1. FollowInv => PacketHasOneIdentity
  <2> SUFFICES ASSUME FollowInv, NEW p \in Packet \ (split \cup inherited \cup mistaken)
               PROVE  Cardinality({i \in Identity : p \in named[i]}) <= 1
    BY DEF PacketHasOneIdentity
  <2>1. \A i, j \in {k \in Identity : p \in named[k]} : i = j
    BY DEF FollowInv, Follows, Owns
  <2> QED
    BY <2>1, OneOrNone
<1> QED
  BY <1>1, FollowInit, FollowStep, PTL DEF Spec
=============================================================================
