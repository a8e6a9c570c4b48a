---------------------------- MODULE MCMailStore ----------------------------
(* Instances of MailStore for TLC.                                          *)
EXTENDS MailStore, TLC

\* "ALICE" and "alice" are spellings of one address.
Lowercase == [a \in Address |-> IF a = "ALICE" THEN "alice" ELSE a]

\* To one of the accounts, which may not be registered yet.
OneRecipient == {[to |-> {a}, cc |-> {}] : a \in {"alice", "bob"}}

\* To both, and one that names an account twice, in two spellings.
SpelledEnvelopes == {[to |-> {"bob"}, cc |-> {"alice"}], [to |-> {"ALICE"}, cc |-> {"alice"}]}

ClientSymmetry == Permutations(Client)
=============================================================================
