-------------------------- MODULE MCPacketLineage --------------------------
(***************************************************************************)
(* Small instances of PacketLineage.  The contexts run on idle CPUs, where *)
(* pid_tgid is 0.  Addresses are interchangeable, and so are contexts that *)
(* have one key.                                                           *)
(***************************************************************************)
EXTENDS PacketLineage, TLC

BothIdle == [c \in Context |-> 0]

Symmetry == Permutations(Skb) \cup Permutations(Head) \cup Permutations(Context)

\* Bound: once a stack is known to have handled an sk_buff, one context runs at a
\* time, without XDP programs, no buffer or evicted entry misleads it, and one
\* identity is handed out.
StacksHaveOneContext ==
  \/ stack_anchor_skb = [a \in Anchor |-> None] /\ skb_stack_anchor = [s \in Skb |-> None]
  \/ /\ Cardinality(Calling \cup Hooking) <= 1
     /\ \A c \in Context : frame[c] = None
     /\ lineage_sequence <= 1
     /\ split = {} /\ inherited = {}

\* Bound: while an XDP program runs, one hook or call does.  The frame's buffer is
\* nobody else's.
FramesMeetOneContext ==
  (\E c \in Context : frame[c] # None) => Cardinality(Calling \cup Hooking) <= 1
=============================================================================
