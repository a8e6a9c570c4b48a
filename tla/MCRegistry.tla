----------------------------- MODULE MCRegistry -----------------------------
(* Instances of Registry for TLC.  Members may ask for names of the form that *)
(* random ones have; a capital is the only difference between two spellings.  *)
EXTENDS Registry, TLC

MCLowerLocal == [n \in Local |-> IF n = "Bot" THEN "bot" ELSE n]
MCLowerDomain == [d \in Domain |-> IF d = "T" THEN "t" ELSE d]
MCSuffixed == [n \in Local |-> IF n = "bot" THEN {"bot2"} ELSE {}]

\* Two members who want one name, and a member without a name.
MCTeams == {<<"Bot", "bot">>, <<NoName>>}

Symmetry == Permutations(Password)
=============================================================================
