----------------------------- MODULE MCSessions -----------------------------
(* Instances of Sessions for TLC: "Bob" is another spelling of "bob". *)
EXTENDS Sessions, TLC

MCLower == [a \in Address |-> IF a = "Bob" THEN "bob" ELSE a]
Symmetry == Permutations(Token) \cup Permutations(Client)
=============================================================================
