-------------------------- MODULE MCCaptureSession --------------------------
(***************************************************************************)
(* Small instances of CaptureSession.                                      *)
(***************************************************************************)
EXTENDS CaptureSession, TLC

Symmetry == Permutations(Cpu) \cup Permutations(Skb) \cup Permutations(Site)
=============================================================================
