----------------------------- MODULE MCOverview -----------------------------
(* Instances of Overview, and of Subordinates within it, for TLC. *)
EXTENDS Overview, TLC

\* "ALICE" and "alice" are spellings of one address.
Lowercase == [a \in Address |-> IF a = "ALICE" THEN "alice" ELSE a]

MCOrder == [a \in Address |-> CASE a = "alice" -> 1 [] a = "bob" -> 2 [] a = "carol" -> 3 [] OTHER -> 0]

\* To the superior with a copy to another account, either of which may not be
\* registered yet; the third one only sends, and may be a subordinate too.
MCEnvelope == {[to |-> {"alice"}, cc |-> {"bob"}]}

\* Mail to bob, from himself or from somebody else.
ToBob == {[to |-> {"bob"}, cc |-> {}]}
=============================================================================
