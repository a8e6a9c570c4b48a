------------------------------ MODULE Settings ------------------------------
(***************************************************************************)
(* The settings an admin changes while the server runs: limits and         *)
(* switches in the meta bucket (internal/store/store.go), written by       *)
(* handleAdminSetLimits and the handlers of the switches                   *)
(* (internal/server/handlers_admin.go).                                    *)
(*                                                                         *)
(* Every setting is written in a transaction of its own, and whoever uses  *)
(* a setting reads it in another one.                                      *)
(***************************************************************************)
EXTENDS Integers, FiniteSets, FiniteSetsExt

CONSTANTS
    LimitKey,       \* the limits in use
    DefaultLimit,   \* limit -> what is in force while nothing is stored
    LowestLimit,    \* limit -> the lowest value that is accepted
    LimitPost,      \* bodies of POST /admin/set-limits: some limits -> values
    SwitchKey,      \* the switches in use
    DefaultSwitch,  \* switch -> what an absent one counts as
    MaxPosts,       \* bound on the requests of the admin
    Unset

\* The order in which a set-limits request stores its fields.
Place == [send_rate |-> 1, byte_rate |-> 2, register_rate |-> 3]

ASSUME SettingsAssumption ==
    /\ LimitKey \subseteq DOMAIN Place /\ LimitKey \cap SwitchKey = {}
    /\ DefaultLimit \in [LimitKey -> Int] /\ LowestLimit \in [LimitKey -> {0, 1}]
    /\ \A l \in LimitKey : DefaultLimit[l] >= LowestLimit[l]
    /\ \A p \in LimitPost : DOMAIN p \subseteq LimitKey /\ p \in [DOMAIN p -> Int]
    /\ DefaultSwitch \in [SwitchKey -> BOOLEAN]
    /\ MaxPosts \in Nat /\ Unset \notin Int \cup BOOLEAN

VARIABLES
    meta,           \* limit or switch -> what is stored
    post,           \* limits a set-limits request has still to store -> their values
    posts           \* requests an admin has made

settingsVars == <<meta, post, posts>>

Setting == LimitKey \cup SwitchKey

\* The getters: a limit that is not acceptable counts as not stored.
InForce(m, s) ==
    IF s \in SwitchKey THEN (IF m[s] = Unset THEN DefaultSwitch[s] ELSE m[s])
    ELSE IF m[s] = Unset \/ m[s] < LowestLimit[s] THEN DefaultLimit[s]
    ELSE m[s]

Store(s, v) == meta' = [meta EXCEPT ![s] = v]

NoPost == [l \in {} |-> Unset]

\* Only provided fields are updated, one after the other.
PostLimits(body) ==
    /\ post = NoPost /\ posts < MaxPosts
    /\ post' = body
    /\ posts' = posts + 1
    /\ UNCHANGED meta

\* The next field; one that is too low ends the request, and those before it
\* stay stored.
SetLimits ==
    /\ \E limit \in DOMAIN post :
          /\ \A l \in DOMAIN post : Place[limit] <= Place[l]
          /\ IF post[limit] < LowestLimit[limit]
             THEN post' = NoPost /\ UNCHANGED meta
             ELSE /\ Store(limit, post[limit])
                  /\ post' = [l \in DOMAIN post \ {limit} |-> post[l]]
    /\ UNCHANGED posts

SetSwitch(s, enabled) ==
    /\ posts < MaxPosts
    /\ Store(s, enabled)
    /\ posts' = posts + 1
    /\ UNCHANGED post

InitSettings == meta = [s \in Setting |-> Unset] /\ post = NoPost /\ posts = 0

NextSettings ==
    \/ \E p \in LimitPost : PostLimits(p)
    \/ SetLimits
    \/ \E s \in SwitchKey, enabled \in BOOLEAN : SetSwitch(s, enabled)

=============================================================================
