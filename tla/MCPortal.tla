------------------------------ MODULE MCPortal ------------------------------
(* Instances of Portal for TLC. *)
EXTENDS Portal, TLC

MCDefaultSwitch == [s \in SwitchKey |-> s # "random_register"]
NoLimits == [l \in {} |-> 0]
NoPosts == {}

\* Opting in; opting out with a preference that is unknown; a new signature
\* with a preference that is known.
MCProfilePost ==
    {[visible |-> TRUE, signature |-> Keep, prefs |-> Keep],
     [visible |-> FALSE, signature |-> Keep, prefs |-> Unknown],
     [visible |-> Keep, signature |-> "duty", prefs |-> "key" :> TRUE]}

Symmetry == Permutations(Worker) \cup Permutations(Account \ Registered)
=============================================================================
