------------------------------- MODULE MCFiles -------------------------------
(* Instances of Files for TLC.                                              *)
EXTENDS Files, TLC

\* "ALICE" and "alice" are spellings of one address.
Lowercase == [a \in Address |-> IF a = "ALICE" THEN "alice" ELSE a]

\* Mail to one recipient and a copy to the other.
ToAndCc == {[to |-> {"bob"}, cc |-> {"alice"}]}

\* Uploads that name nobody, or bob.
NobodyOrBob == {{}, {"bob"}}

=============================================================================
