----------------------------- MODULE MCGateway -----------------------------
(* Instances of Gateway, with SendEmail, for TLC.                           *)
EXTENDS SendEmail, TLC

CodeSymmetry == Permutations(Code)
=============================================================================
