----------------------------- MODULE MCThreads ------------------------------
(* Instances of Threads for TLC. *)
EXTENDS Threads

CONSTANTS boss, bob

MCSubordinatesOf == [a \in Account |-> IF a = boss THEN {bob} ELSE {}]

\* The first and the second page of one entry each.
MCPage == {[limit |-> 1, offset |-> 0], [limit |-> 1, offset |-> 1]}

\* The second and the third message come in the same second.
MCSecond == [i \in Id |-> i \div 2]
=============================================================================
