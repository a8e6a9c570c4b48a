------------------------------- MODULE MCPush -------------------------------
(* Instances of Push for TLC. *)
EXTENDS Push, TLC

MCLower == [a \in Address |-> IF a = "Bob" THEN "bob" ELSE a]
Daytime == {[on |-> TRUE, start |-> 1, end |-> 3]}
Overnight == {[on |-> TRUE, start |-> 3, end |-> 1]}
ShortNight == {[on |-> TRUE, start |-> 1, end |-> 0]}
=============================================================================
