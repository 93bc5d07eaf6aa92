---------------------------- MODULE MCLossLedger ----------------------------
(***************************************************************************)
(* Small instances of LossLedger.  CPUs, packets and probes are            *)
(* interchangeable, so TLC may permute each set.                           *)
(***************************************************************************)
EXTENDS LossLedger, TLC

Symmetry == Permutations(Cpu) \cup Permutations(Skb) \cup Permutations(Site)
=============================================================================
