---------------------------- MODULE MCComponents ----------------------------
(* Instances of Components for TLC. *)
EXTENDS Components, TLC

Symmetry == Permutations(Visible)
=============================================================================
