------------------------------ MODULE Sessions ------------------------------
(***************************************************************************)
(* Passwords and session tokens: how a request is authenticated            *)
(* (internal/server/server.go), remembered logins with rolling expiry      *)
(* (internal/store/tokens.go) and the change of a password, which is four  *)
(* transactions of one request (internal/store/account.go).                *)
(*                                                                         *)
(* Every account exists from the start, under its lowercase key; callers   *)
(* may spell its address in other ways.                                    *)
(***************************************************************************)
EXTENDS Integers, FiniteSets

CONSTANTS
    Address, Lower,     \* spellings of addresses, and strings.ToLower
    Password,
    Token,              \* wire tokens, each drawn once from 2^256
    Client,             \* concurrent requests
    TTL, Slack,         \* sessionTTL, and how much of it passes before a renewal
    MaxTime,            \* bound on the clock
    NoToken

ASSUME SessionsAssumption ==
    /\ Lower \in [Address -> Address] /\ \A a \in Address : Lower[Lower[a]] = Lower[a]
    /\ TTL \in Nat /\ Slack \in Nat /\ 0 < Slack /\ Slack < TTL
    /\ MaxTime \in Nat /\ Address # {} /\ Password # {}
    /\ NoToken \notin Token /\ NoToken \notin [address : Address, expires : Nat]

VARIABLES
    password,   \* account key -> password
    disabled,   \* account key -> flag
    tokens,     \* the tokens bucket
    now,        \* the clock
    pc, req,    \* client -> next transaction of its request; what it holds
    used        \* history: token -> when it was minted or last resolved

vars == <<password, disabled, tokens, now, pc, req, used>>

store == <<password, disabled, tokens, used>>

Key == {Lower[a] : a \in Address}

SessionToken == [address : Address, expires : Nat]

\* A request carries a bearer token, or a Basic pair (who, old); once
\* authenticated, who is the address it acts for.
Request == [op : {"issue", "change", "logout"}, tok : Token \cup {NoToken},
            who : Address, old : Password, new : Password]

NoRequest == [op |-> "issue", tok |-> NoToken, who |-> CHOOSE a \in Address : TRUE,
              old |-> CHOOSE p \in Password : TRUE, new |-> CHOOSE p \in Password : TRUE]

Goto(c, next) == pc' = [pc EXCEPT ![c] = next]

\* The first transaction of each operation behind requireAccount.
Handler(op) ==
    CASE op = "issue"  -> "mint"
      [] op = "change" -> "verifyOld"
      [] op = "logout" -> "revoke"

-----------------------------------------------------------------------------
(* Authentication: a bearer that fails does not fall through to Basic.     *)

Arrive(c, r) ==
    /\ pc[c] = "idle"
    /\ Goto(c, IF r.tok = NoToken THEN "basic" ELSE "bearer")
    /\ req' = [req EXCEPT ![c] = r]
    /\ UNCHANGED <<store, now>>

Verifies(who, pw) == ~disabled[Lower[who]] /\ password[Lower[who]] = pw

BasicAuth(c) ==
    /\ pc[c] = "basic"
    /\ Goto(c, IF Verifies(req[c].who, req[c].old) THEN Handler(req[c].op) ELSE "unauthorized")
    /\ UNCHANGED <<store, now, req>>

Reject(c) ==
    /\ Goto(c, "unauthorized")
    /\ UNCHANGED <<password, disabled, now, req, used>>

\* A live token is resolved; renewed(r): its record r gets a full TTL.
Resolved(c, renewed(_)) ==
    LET t == req[c].tok  r == tokens[t] IN
    /\ tokens' = [tokens EXCEPT ![t].expires = IF renewed(r) THEN now + TTL ELSE @]
    /\ used' = [used EXCEPT ![t] = now]
    /\ req' = [req EXCEPT ![c].who = r.address]
    /\ Goto(c, Handler(req[c].op))
    /\ UNCHANGED <<password, disabled, now>>

Live(t) == tokens[t] # NoToken /\ now < tokens[t].expires

\* Mutant of ResolveSessionToken: renewal waits for the last moment.
ResolveRenewingLate(c) ==
    /\ pc[c] = "bearer"
    /\ \/ Live(req[c].tok) /\ Resolved(c, LAMBDA r : r.expires - now < Slack)
       \/ /\ ~Live(req[c].tok)
          /\ tokens' = [tokens EXCEPT ![req[c].tok] = NoToken]
          /\ Reject(c)

\* One Update: an unknown token is refused, an expired one is deleted and
\* refused, a live one is renewed when more than Slack of its TTL has passed.
ResolveSessionToken(c) ==
    /\ pc[c] = "bearer"
    /\ \/ Live(req[c].tok) /\ Resolved(c, LAMBDA r : r.expires - now < TTL - Slack)
       \/ /\ ~Live(req[c].tok)
          /\ tokens' = [tokens EXCEPT ![req[c].tok] = NoToken]
          /\ Reject(c)

-----------------------------------------------------------------------------
(* The operations.                                                         *)

\* Older tokens of the account stay.  A token is never drawn twice.
CreateSessionToken(c) ==
    /\ pc[c] = "mint"
    /\ \E t \in Token :
          /\ used[t] = -1
          /\ tokens' = [tokens EXCEPT ![t] = [address |-> req[c].who, expires |-> now + TTL]]
          /\ used' = [used EXCEPT ![t] = now]
    /\ Goto(c, "issued")
    /\ UNCHANGED <<password, disabled, now, req>>

\* Mutant of RevokeSessionToken: every device of the account is logged out.
RevokeSiblings(c) ==
    /\ pc[c] = "revoke"
    /\ tokens' = [t \in Token |-> IF tokens[t] # NoToken /\ tokens[t].address = req[c].who
                                  THEN NoToken ELSE tokens[t]]
    /\ Goto(c, "loggedOut")
    /\ UNCHANGED <<password, disabled, now, req, used>>

\* Only the device that presents the token; a Basic caller has none.
RevokeSessionToken(c) ==
    /\ pc[c] = "revoke"
    /\ tokens' = IF req[c].tok = NoToken THEN tokens
                 ELSE [tokens EXCEPT ![req[c].tok] = NoToken]
    /\ Goto(c, "loggedOut")
    /\ UNCHANGED <<password, disabled, now, req, used>>

\* ChangePassword compares the old password outside its write transaction.
ChangeVerify(c) ==
    /\ pc[c] = "verifyOld"
    /\ Goto(c, IF Verifies(req[c].who, req[c].old) THEN "replace" ELSE "wrongPassword")
    /\ UNCHANGED <<store, now, req>>

\* The record is looked up by the address as it is spelled.
ChangeReplace(c) ==
    LET who == req[c].who IN
    /\ pc[c] = "replace"
    /\ \/ /\ who \in Key
          /\ password' = [password EXCEPT ![who] = req[c].new]
          /\ Goto(c, "revokeAll")
       \/ /\ who \notin Key
          /\ Goto(c, "noAccount")
          /\ UNCHANGED password
    /\ UNCHANGED <<disabled, tokens, used, now, req>>

\* The tokens issued for this spelling of the address.
RevokeAllSessionTokens(c) ==
    /\ pc[c] = "revokeAll"
    /\ tokens' = [t \in Token |-> IF tokens[t] # NoToken /\ tokens[t].address = req[c].who
                                  THEN NoToken ELSE tokens[t]]
    /\ Goto(c, "changed")
    /\ UNCHANGED <<password, disabled, now, req, used>>

Outcome == {"unauthorized", "issued", "loggedOut", "wrongPassword", "noAccount", "changed"}

Respond(c) ==
    /\ pc[c] \in Outcome
    /\ Goto(c, "idle")
    /\ req' = [req EXCEPT ![c] = NoRequest]
    /\ UNCHANGED <<store, now>>

\* Both address an account by its exact key.
ResetPassword(k, pw) ==
    /\ password' = [password EXCEPT ![k] = pw]
    /\ UNCHANGED <<disabled, tokens, now, pc, req, used>>

SetAccountDisabled(k, flag) ==
    /\ disabled' = [disabled EXCEPT ![k] = flag]
    /\ UNCHANGED <<password, tokens, now, pc, req, used>>

Crash ==
    /\ \E c \in Client : pc[c] # "idle"
    /\ pc' = [c \in Client |-> "idle"]
    /\ req' = [c \in Client |-> NoRequest]
    /\ UNCHANGED <<store, now>>

Tick ==
    /\ now < MaxTime
    /\ now' = now + 1
    /\ UNCHANGED <<store, pc, req>>

Init ==
    /\ password \in {[k \in Key |-> p] : p \in Password}
    /\ disabled = [k \in Key |-> FALSE]
    /\ tokens = [t \in Token |-> NoToken]
    /\ now = 0
    /\ pc = [c \in Client |-> "idle"]
    /\ req = [c \in Client |-> NoRequest]
    /\ used = [t \in Token |-> -1]

\* Devices present tokens they were given.  The parts of a request that its
\* operation does not read are those of NoRequest.
Ask(c) ==
    \/ \E t \in Token :
          /\ used[t] # -1
          /\ \/ \E op \in {"issue", "logout"} :
                   Arrive(c, [NoRequest EXCEPT !.op = op, !.tok = t])
             \/ \E old, new \in Password :
                   Arrive(c, [NoRequest EXCEPT !.op = "change", !.tok = t, !.old = old, !.new = new])
    \/ \E who \in Address, old, new \in Password :
          \/ Arrive(c, [NoRequest EXCEPT !.op = "change", !.who = who, !.old = old, !.new = new])
          \/ Arrive(c, [NoRequest EXCEPT !.op = "issue", !.who = who, !.old = old])

Step(c) ==
    \/ BasicAuth(c) \/ ResolveSessionToken(c)
    \/ CreateSessionToken(c) \/ RevokeSessionToken(c)
    \/ ChangeVerify(c) \/ ChangeReplace(c) \/ RevokeAllSessionTokens(c)
    \/ Respond(c)

Next ==
    \/ \E c \in Client : Ask(c) \/ Step(c)
    \/ \E k \in Key : \/ \E pw \in Password : ResetPassword(k, pw)
                      \/ \E flag \in BOOLEAN : SetAccountDisabled(k, flag)
    \/ Crash
    \/ Tick

Spec == Init /\ [][Next]_vars

-----------------------------------------------------------------------------
(* Properties.                                                             *)

\* Every variable stays within its type.
TypeOK ==
    /\ password \in [Key -> Password]
    /\ disabled \in [Key -> BOOLEAN]
    /\ tokens \in [Token -> SessionToken \cup {NoToken}]
    /\ now \in Nat
    /\ pc \in [Client -> {"idle", "basic", "bearer", "mint", "verifyOld", "revoke",
                          "replace", "revokeAll"} \cup Outcome]
    /\ req \in [Client -> Request]
    /\ used \in [Token -> Nat \cup {-1}]

\* "An active device never re-authenticates while an abandoned token ages
\* out": renewal is throttled, yet a token lives at least TTL - Slack from its
\* last use, and never more than TTL.
ActiveTokenLives ==
    \A t \in Token : tokens[t] # NoToken =>
        tokens[t].expires \in (used[t] + TTL - Slack) .. (used[t] + TTL)

\* A device is only logged out by its own logout, by expiry, or by a change of
\* the password of its account: logging in or out elsewhere leaves it alone.
RevocationsJustified ==
    [][\A t \in Token : tokens[t] # NoToken /\ tokens'[t] = NoToken =>
          \/ now >= tokens[t].expires
          \/ \E c \in Client : \/ pc[c] = "revoke" /\ req[c].tok = t
                               \/ /\ pc[c] = "revokeAll"
                                  /\ Lower[req[c].who] = Lower[tokens[t].address]]_vars

\* tokens.go on multiple tokens: "Password change revokes all of them".  When
\* the change is answered, no token of the account is left that was in use
\* before: here, none at all while no other login is under way.
ChangeRevokesAll ==
    \A c \in Client : pc[c] = "changed" /\ (\A d \in Client \ {c} : pc[d] = "idle") =>
        \A t \in Token : tokens[t] # NoToken => Lower[tokens[t].address] # Lower[req[c].who]

\* ChangePassword "verifies oldPassword against the stored hash and, on
\* success, replaces it": what it replaces is what it verified.
ChangeReplacesVerified ==
    [][\A c \in Client : pc[c] = "replace" /\ pc'[c] = "revokeAll" =>
          password[req[c].who] = req[c].old]_vars

\* GetAccount lets a caller "who still sends mixed case ... find their record
\* instead of silently 404ing": whoever authenticated has an account to change.
AuthenticatedIsFound == \A c \in Client : pc[c] # "noAccount"

\* SetAccountDisabled: "A disabled account cannot authenticate".
DisabledCannotAuthenticate ==
    [][\A c \in Client : pc[c] \in {"basic", "bearer"} /\ pc'[c] \in {"mint", "verifyOld", "revoke"} =>
          ~disabled[Lower[req'[c].who]]]_vars

=============================================================================
