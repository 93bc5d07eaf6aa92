---------------------------- MODULE MCBoundedMap ----------------------------
(***************************************************************************)
(* The bounded map for TLC: keys are interchangeable.                      *)
(***************************************************************************)
EXTENDS BoundedMapLife, TLC

Symmetry == Permutations(Key)
=============================================================================
