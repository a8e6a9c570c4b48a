---------------------------- MODULE MCRateLimits ----------------------------
(* Instances of RateLimits for TLC. *)
EXTENDS RateLimits, TLC

MCLimitKey == {"send_rate", "byte_rate", "register_rate"}
MCDefaultLimit == [l \in LimitKey |-> IF l = "register_rate" THEN 1 ELSE 2]
MCLowestLimit == [l \in LimitKey |-> IF l = "register_rate" THEN 0 ELSE 1]
MCDefaultSwitch == [s \in SwitchKey |-> TRUE]
MCFixedLimit == [k \in Kinds |-> 1]

\* Nobody changes a limit.
NoPosts == {}

\* Limits are lowered, raised and switched off; a request is refused at its
\* last field, after the first was stored, or at its first.
MCPosts == {"send_rate" :> 3 @@ "register_rate" :> 0,
            "send_rate" :> 1 @@ "register_rate" :> -1,
            "send_rate" :> 0 @@ "register_rate" :> 2}

\* All addresses are spellings of one.
MCLower == [a \in Address |-> CHOOSE b \in Address : TRUE]

Symmetry == Permutations(Address) \cup Permutations(Client)
=============================================================================
