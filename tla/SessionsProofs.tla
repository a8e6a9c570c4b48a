--------------------------- MODULE SessionsProofs ---------------------------
(***************************************************************************)
(* TLAPS proofs about session tokens, module Sessions.                     *)
(***************************************************************************)
EXTENDS Sessions, TLAPS

-----------------------------------------------------------------------------
(* The invariant.                                                          *)

\* A request that goes by a bearer has one; no token was used in the future;
\* and the promise itself.
SessionsInv ==
    /\ TypeOK
    /\ \A c \in Client : pc[c] = "bearer" => req[c].tok \in Token
    /\ \A t \in Token : used[t] <= now
    /\ ActiveTokenLives

-----------------------------------------------------------------------------
(* Types.                                                                  *)

LEMMA NoRequestTyped == NoRequest \in Request
  BY SessionsAssumption DEF NoRequest, Request

LEMMA HandlerIs == \A op \in {"issue", "change", "logout"} : Handler(op) \in {"mint", "verifyOld", "revoke"}
  BY DEF Handler

LEMMA GotoTyped ==
    ASSUME TypeOK, NEW c \in Client, NEW next \in {"idle", "basic", "bearer", "mint", "verifyOld", "revoke",
                          "replace", "revokeAll"} \cup Outcome, Goto(c, next)
    PROVE  /\ pc' \in [Client -> {"idle", "basic", "bearer", "mint", "verifyOld", "revoke",
                                  "replace", "revokeAll"} \cup Outcome]
           /\ \A d \in Client : pc'[d] = IF d = c THEN next ELSE pc[d]
  BY DEF Goto, TypeOK

LEMMA RequestParts ==
    ASSUME NEW r \in Request
    PROVE  /\ r.op \in {"issue", "change", "logout"} /\ r.tok \in Token \cup {NoToken}
           /\ r.who \in Address
  BY DEF Request

\* Any part of a request may be filled in.
LEMMA RequestWith ==
    ASSUME NEW r \in Request
    PROVE  /\ \A op \in {"issue", "change", "logout"} : [r EXCEPT !.op = op] \in Request
           /\ \A t \in Token : [r EXCEPT !.tok = t] \in Request
           /\ \A a \in Address : [r EXCEPT !.who = a] \in Request
           /\ \A pw \in Password : [r EXCEPT !.old = pw] \in Request /\ [r EXCEPT !.new = pw] \in Request
  BY DEF Request

\* A resolved token keeps its address and is one still.
LEMMA RenewedTyped ==
    ASSUME NEW r \in SessionToken, NEW e \in Nat
    PROVE  /\ [r EXCEPT !.expires = e] \in SessionToken
           /\ [r EXCEPT !.expires = e].expires = e /\ [r EXCEPT !.expires = e].address = r.address
           /\ [r EXCEPT !.expires = e] # NoToken
  BY SessionsAssumption DEF SessionToken

-----------------------------------------------------------------------------
(* Each step keeps the invariant.                                          *)

LEMMA InvInit == Init => SessionsInv
  <1> SUFFICES ASSUME Init PROVE SessionsInv
    OBVIOUS
  <1>1. password \in [Key -> Password] /\ req \in [Client -> Request]
    BY NoRequestTyped DEF Init
  <1>2. \A t \in Token : used[t] <= now
    BY DEF Init
  <1>3. QED
    BY <1>1, <1>2 DEF Init, SessionsInv, TypeOK, ActiveTokenLives

\* Requests that come and go, and transactions that only read.
LEMMA InvRequests ==
    ASSUME SessionsInv, UNCHANGED store, now' = now,
           pc' \in [Client -> {"idle", "basic", "bearer", "mint", "verifyOld", "revoke",
                               "replace", "revokeAll"} \cup Outcome],
           req' \in [Client -> Request],
           \A c \in Client : pc'[c] = "bearer" => req'[c].tok \in Token
    PROVE  SessionsInv'
  BY DEF SessionsInv, TypeOK, store, ActiveTokenLives

\* A step of one client that leaves its request as it is, and goes elsewhere.
LEMMA InvStep ==
    ASSUME SessionsInv, NEW c \in Client,
           NEW next \in {"idle", "mint", "verifyOld", "revoke", "replace", "revokeAll"} \cup Outcome,
           Goto(c, next), UNCHANGED <<now, req>>,
           password' \in [Key -> Password], disabled' = disabled,
           tokens' \in [Token -> SessionToken \cup {NoToken}],
           used' \in [Token -> Nat \cup {-1}],
           \A t \in Token : used'[t] <= now,
           ActiveTokenLives'
    PROVE  SessionsInv'
  <1>1. /\ pc' \in [Client -> {"idle", "basic", "bearer", "mint", "verifyOld", "revoke",
                               "replace", "revokeAll"} \cup Outcome]
        /\ \A d \in Client : pc'[d] = IF d = c THEN next ELSE pc[d]
    BY GotoTyped DEF SessionsInv
  <1>2. next # "bearer"
    BY DEF Outcome
  <1>3. QED
    BY <1>1, <1>2 DEF SessionsInv, TypeOK

\* Tokens that go leave the promise to the others.
LEMMA FewerTokens ==
    ASSUME SessionsInv, NEW S, used' = used,
           tokens' = [t \in Token |-> IF t \in S THEN NoToken ELSE tokens[t]]
    PROVE  tokens' \in [Token -> SessionToken \cup {NoToken}] /\ ActiveTokenLives'
  <1>1. \A t \in Token : tokens'[t] # NoToken => tokens'[t] = tokens[t]
    OBVIOUS
  <1>2. QED
    BY <1>1 DEF SessionsInv, TypeOK, ActiveTokenLives

LEMMA InvArrive ==
    ASSUME SessionsInv, NEW c \in Client, Ask(c)
    PROVE  SessionsInv'
  <1>1. \E r \in Request : Arrive(c, r)
    <2>1. NoRequest \in Request
      BY NoRequestTyped
    <2>2. ASSUME NEW t \in Token, NEW op \in {"issue", "logout"}
          PROVE  [NoRequest EXCEPT !.op = op, !.tok = t] \in Request
      BY <2>1, RequestWith
    <2>3. ASSUME NEW t \in Token, NEW old \in Password, NEW new \in Password
          PROVE  [NoRequest EXCEPT !.op = "change", !.tok = t, !.old = old, !.new = new] \in Request
      BY <2>1, RequestWith
    <2>4. ASSUME NEW who \in Address, NEW old \in Password, NEW new \in Password
          PROVE  /\ [NoRequest EXCEPT !.op = "change", !.who = who, !.old = old, !.new = new] \in Request
                 /\ [NoRequest EXCEPT !.op = "issue", !.who = who, !.old = old] \in Request
      BY <2>1, RequestWith
    <2>5. QED
      BY <2>2, <2>3, <2>4 DEF Ask
  <1>2. PICK r \in Request : Arrive(c, r)
    BY <1>1
  <1>3. req' \in [Client -> Request] /\ req'[c] = r /\ \A d \in Client : d # c => req'[d] = req[d]
    BY <1>2 DEF Arrive, SessionsInv, TypeOK
  <1> DEFINE next == IF r.tok = NoToken THEN "basic" ELSE "bearer"
  <1>4. Goto(c, next) /\ TypeOK
    BY <1>2 DEF Arrive, SessionsInv
  <1>5. /\ pc' \in [Client -> {"idle", "basic", "bearer", "mint", "verifyOld", "revoke",
                               "replace", "revokeAll"} \cup Outcome]
        /\ \A d \in Client : pc'[d] = IF d = c THEN next ELSE pc[d]
    BY <1>4, GotoTyped
  <1>6. \A d \in Client : pc'[d] = "bearer" => req'[d].tok \in Token
    BY <1>3, <1>5, RequestParts DEF SessionsInv
  <1>7. QED
    BY <1>2, <1>3, <1>5, <1>6, InvRequests DEF Arrive

\* A token that is resolved is used now, and expires neither too early nor
\* too late: not renewed, it has more than TTL - Slack of its time left.
LEMMA InvResolve ==
    ASSUME SessionsInv, NEW c \in Client, ResolveSessionToken(c)
    PROVE  SessionsInv'
  <1> DEFINE t == req[c].tok
  <1>1. t \in Token /\ req[c] \in Request /\ TypeOK /\ now \in Nat
    BY DEF ResolveSessionToken, SessionsInv, TypeOK
  <1>2. CASE ~Live(t)
    <2>1. /\ tokens' = [tokens EXCEPT ![t] = NoToken] /\ Goto(c, "unauthorized")
          /\ UNCHANGED <<password, disabled, now, req, used>>
      BY <1>2 DEF ResolveSessionToken, Reject
    <2>2. tokens' = [s \in Token |-> IF s \in {t} THEN NoToken ELSE tokens[s]]
      BY <1>1, <2>1 DEF TypeOK
    <2>3. tokens' \in [Token -> SessionToken \cup {NoToken}] /\ ActiveTokenLives'
      BY <2>1, <2>2, FewerTokens
    <2>4. QED
      BY <2>1, <2>3, InvStep DEF SessionsInv, TypeOK, Outcome
  <1>3. CASE Live(t)
    <2> DEFINE r == tokens[t]
               e == IF r.expires - now < TTL - Slack THEN now + TTL ELSE r.expires
    <2>1. /\ tokens' = [tokens EXCEPT ![t].expires = e] /\ used' = [used EXCEPT ![t] = now]
          /\ req' = [req EXCEPT ![c].who = r.address] /\ Goto(c, Handler(req[c].op))
          /\ UNCHANGED <<password, disabled, now>>
      BY <1>3 DEF ResolveSessionToken, Resolved
    <2>2. r \in SessionToken /\ r.expires \in Nat /\ r.address \in Address
      BY <1>1, <1>3 DEF Live, TypeOK, SessionToken
    <2>3. e \in (now + TTL - Slack) .. (now + TTL)
      <3>1. used[t] \in Nat \cup {-1} /\ used[t] <= now
        BY <1>1 DEF SessionsInv, TypeOK
      <3>2. r.expires \in (used[t] + TTL - Slack) .. (used[t] + TTL)
        BY <1>1, <1>3 DEF SessionsInv, ActiveTokenLives, Live
      <3>3. r.expires <= now + TTL
        BY <1>1, <2>2, <3>1, <3>2, SessionsAssumption
      <3>4. QED
        BY <1>1, <2>2, <3>3, SessionsAssumption
    <2>4. e \in Nat
      BY <1>1, <2>2, SessionsAssumption
    <2>5. tokens'[t] = [r EXCEPT !.expires = e] /\ \A s \in Token : s # t => tokens'[s] = tokens[s]
      BY <1>1, <2>1 DEF TypeOK
    <2>6. tokens'[t] \in SessionToken /\ tokens'[t].expires = e
      BY <2>2, <2>4, <2>5, RenewedTyped
    <2>7. tokens' \in [Token -> SessionToken \cup {NoToken}]
      BY <1>1, <2>1, <2>5, <2>6 DEF TypeOK
    <2>8. /\ used' \in [Token -> Nat \cup {-1}] /\ used'[t] = now
          /\ \A s \in Token : s # t => used'[s] = used[s]
      BY <1>1, <2>1 DEF TypeOK
    <2>9. ActiveTokenLives'
      <3>1. ASSUME NEW s \in Token, tokens'[s] # NoToken
            PROVE  tokens'[s].expires \in (used'[s] + TTL - Slack) .. (used'[s] + TTL)
        <4>1. CASE s = t
          BY <2>3, <2>6, <2>8, <4>1
        <4>2. CASE s # t
          BY <2>5, <2>8, <3>1, <4>2 DEF SessionsInv, ActiveTokenLives
        <4>3. QED
          BY <4>1, <4>2
      <3>2. QED
        BY <3>1 DEF ActiveTokenLives
    <2>10. /\ req' \in [Client -> Request] /\ \A d \in Client : req'[d].tok = req[d].tok
      <3>1. [req[c] EXCEPT !.who = r.address] \in Request /\ [req[c] EXCEPT !.who = r.address].tok = req[c].tok
        BY <1>1, <2>2 DEF Request
      <3>2. QED
        BY <1>1, <2>1, <3>1 DEF TypeOK
    <2>11. Handler(req[c].op) \in {"mint", "verifyOld", "revoke"}
      BY <1>1, HandlerIs, RequestParts
    <2>12. /\ pc' \in [Client -> {"idle", "basic", "bearer", "mint", "verifyOld", "revoke",
                                  "replace", "revokeAll"} \cup Outcome]
           /\ \A d \in Client : pc'[d] = IF d = c THEN Handler(req[c].op) ELSE pc[d]
      BY <1>1, <2>1, <2>11, GotoTyped
    <2>13. TypeOK'
      BY <1>1, <2>1, <2>7, <2>8, <2>10, <2>12 DEF TypeOK
    <2>14. \A d \in Client : pc'[d] = "bearer" => req'[d].tok \in Token
      BY <2>10, <2>11, <2>12 DEF SessionsInv
    <2>15. \A s \in Token : used'[s] <= now'
      BY <1>1, <2>1, <2>8 DEF SessionsInv
    <2>16. QED
      BY <2>9, <2>13, <2>14, <2>15 DEF SessionsInv
  <1>4. QED
    BY <1>2, <1>3

LEMMA InvCreate ==
    ASSUME SessionsInv, NEW c \in Client, CreateSessionToken(c)
    PROVE  SessionsInv'
  <1>1. PICK t \in Token :
           /\ tokens' = [tokens EXCEPT ![t] = [address |-> req[c].who, expires |-> now + TTL]]
           /\ used' = [used EXCEPT ![t] = now]
    BY DEF CreateSessionToken
  <1>2. req[c].who \in Address /\ now \in Nat
    BY RequestParts DEF SessionsInv, TypeOK
  <1>3. tokens' \in [Token -> SessionToken \cup {NoToken}] /\ used' \in [Token -> Nat \cup {-1}]
    BY <1>1, <1>2, SessionsAssumption DEF SessionsInv, TypeOK, SessionToken
  <1>4. /\ used'[t] = now /\ tokens'[t].expires = now + TTL
        /\ \A s \in Token : s # t => used'[s] = used[s] /\ tokens'[s] = tokens[s]
    BY <1>1 DEF SessionsInv, TypeOK
  <1>5. \A s \in Token : used'[s] <= now
    BY <1>2, <1>4 DEF SessionsInv
  <1>6. now + TTL \in (now + TTL - Slack) .. (now + TTL)
    BY <1>2, SessionsAssumption
  <1>7. ActiveTokenLives'
    BY <1>4, <1>6 DEF SessionsInv, ActiveTokenLives
  <1>8. QED
    BY <1>3, <1>5, <1>7, InvStep DEF CreateSessionToken, SessionsInv, TypeOK, Outcome

\* The steps of a request that only delete tokens or write passwords.
LEMMA InvOthers ==
    ASSUME SessionsInv, NEW c \in Client,
           \/ BasicAuth(c) \/ RevokeSessionToken(c) \/ ChangeVerify(c) \/ ChangeReplace(c)
           \/ RevokeAllSessionTokens(c)
    PROVE  SessionsInv'
  <1>1. TypeOK /\ req[c] \in Request
    BY DEF SessionsInv, TypeOK
  <1>2. ASSUME UNCHANGED <<disabled, tokens, used, now, req>>, password' \in [Key -> Password],
               NEW next \in {"mint", "verifyOld", "revoke", "revokeAll", "replace"} \cup Outcome,
               Goto(c, next)
        PROVE  SessionsInv'
    <2>1. ActiveTokenLives'
      BY <1>2 DEF SessionsInv, ActiveTokenLives
    <2>2. QED
      BY <1>2, <2>1, InvStep DEF SessionsInv, TypeOK
  <1>3. ASSUME NEW S, tokens' = [t \in Token |-> IF t \in S THEN NoToken ELSE tokens[t]],
               UNCHANGED <<password, disabled, used, now, req>>, NEW next \in Outcome, Goto(c, next)
        PROVE  SessionsInv'
    <2>1. tokens' \in [Token -> SessionToken \cup {NoToken}] /\ ActiveTokenLives'
      BY <1>3, FewerTokens
    <2>2. QED
      BY <1>3, <2>1, InvStep DEF SessionsInv, TypeOK
  <1>4. CASE BasicAuth(c)
    <2>1. Handler(req[c].op) \in {"mint", "verifyOld", "revoke"}
      BY <1>1, HandlerIs, RequestParts
    <2>2. QED
      BY <1>1, <1>2, <1>4, <2>1 DEF BasicAuth, store, TypeOK, Outcome
  <1>5. CASE RevokeSessionToken(c)
    <2> DEFINE S == IF req[c].tok = NoToken THEN {} ELSE {req[c].tok}
    <2>1. tokens' = [t \in Token |-> IF t \in S THEN NoToken ELSE tokens[t]]
      BY <1>1, <1>5 DEF RevokeSessionToken, TypeOK
    <2>2. QED
      BY <1>3, <1>5, <2>1 DEF RevokeSessionToken, Outcome
  <1>6. CASE ChangeVerify(c)
    BY <1>1, <1>2, <1>6 DEF ChangeVerify, store, TypeOK, Outcome
  <1>7. CASE ChangeReplace(c)
    <2>1. password' \in [Key -> Password]
      BY <1>1, <1>7 DEF ChangeReplace, TypeOK, Request
    <2>2. QED
      BY <1>2, <1>7, <2>1 DEF ChangeReplace, Outcome
  <1>8. CASE RevokeAllSessionTokens(c)
    <2> DEFINE S == {t \in Token : tokens[t] # NoToken /\ tokens[t].address = req[c].who}
    <2>1. tokens' = [t \in Token |-> IF t \in S THEN NoToken ELSE tokens[t]]
      BY <1>8 DEF RevokeAllSessionTokens
    <2>2. QED
      BY <1>3, <1>8, <2>1 DEF RevokeAllSessionTokens, Outcome
  <1>9. QED
    BY <1>4, <1>5, <1>6, <1>7, <1>8

LEMMA InvNext ==
    ASSUME SessionsInv, [Next]_vars
    PROVE  SessionsInv'
  <1>1. ASSUME NEW c \in Client, Respond(c)
        PROVE  SessionsInv'
    <2>1. /\ req' \in [Client -> Request] /\ \A d \in Client : d # c => req'[d] = req[d]
      BY <1>1, NoRequestTyped DEF Respond, SessionsInv, TypeOK
    <2>2. /\ pc' \in [Client -> {"idle", "basic", "bearer", "mint", "verifyOld", "revoke",
                                 "replace", "revokeAll"} \cup Outcome]
          /\ \A d \in Client : pc'[d] = IF d = c THEN "idle" ELSE pc[d]
      BY <1>1, GotoTyped DEF Respond, SessionsInv
    <2>3. QED
      BY <1>1, <2>1, <2>2, InvRequests DEF Respond, SessionsInv
  <1>2. ASSUME NEW k \in Key, NEW pw \in Password, ResetPassword(k, pw)
        PROVE  SessionsInv'
    BY <1>2 DEF ResetPassword, SessionsInv, TypeOK, ActiveTokenLives
  <1>3. ASSUME NEW k \in Key, NEW flag \in BOOLEAN, SetAccountDisabled(k, flag)
        PROVE  SessionsInv'
    BY <1>3 DEF SetAccountDisabled, SessionsInv, TypeOK, ActiveTokenLives
  <1>4. CASE Crash
    <2>1. req' \in [Client -> Request]
      BY <1>4, NoRequestTyped DEF Crash
    <2>2. QED
      BY <1>4, <2>1, InvRequests DEF Crash
  <1>5. CASE Tick
    <2>1. now' \in Nat /\ \A t \in Token : used[t] \in Nat \cup {-1} /\ used[t] <= now'
      BY <1>5 DEF Tick, SessionsInv, TypeOK
    <2>2. QED
      BY <1>5, <2>1 DEF Tick, store, SessionsInv, TypeOK, ActiveTokenLives
  <1>6. CASE UNCHANGED vars
    BY <1>6 DEF vars, SessionsInv, TypeOK, ActiveTokenLives
  <1>7. QED
    BY <1>1, <1>2, <1>3, <1>4, <1>5, <1>6, InvArrive, InvResolve, InvCreate, InvOthers DEF Next, Step

-----------------------------------------------------------------------------
(* What sessions promise.                                                  *)

LEMMA Invariance == Spec => []SessionsInv
  BY InvInit, InvNext, PTL DEF Spec

\* Every variable of the sessions stays within its type.
THEOREM SessionsTypeCorrect == Spec => []TypeOK
  <1>1. SessionsInv => TypeOK
    BY DEF SessionsInv
  <1>2. QED
    BY <1>1, Invariance, PTL

\* "An active device never re-authenticates while an abandoned token ages
\* out": whatever requests, logouts, changes of passwords and restarts come in
\* between, a token lives at least TTL - Slack and at most TTL from its last use
\* (ResolveSessionToken renews only when more than Slack has passed).
THEOREM ActiveTokensLive == Spec => []ActiveTokenLives
  <1>1. SessionsInv => ActiveTokenLives
    BY DEF SessionsInv
  <1>2. QED
    BY <1>1, Invariance, PTL

\* No device is logged out but by its own logout (RevokeSessionToken), by
\* expiry, or by a change of the password of its account.
THEOREM LogoutsAreJustified == Spec => RevocationsJustified
  <1> DEFINE Justified(t) ==
                \/ now >= tokens[t].expires
                \/ \E c \in Client : \/ pc[c] = "revoke" /\ req[c].tok = t
                                     \/ /\ pc[c] = "revokeAll"
                                        /\ Lower[req[c].who] = Lower[tokens[t].address]
             Right == \A t \in Token : tokens[t] # NoToken /\ tokens'[t] = NoToken => Justified(t)
  <1>1. SessionsInv /\ [Next]_vars => [Right]_vars
    <2> SUFFICES ASSUME SessionsInv, [Next]_vars, NEW t \in Token, tokens[t] # NoToken,
                        tokens'[t] = NoToken
                 PROVE  Justified(t)
      OBVIOUS
    <2>1. tokens[t] \in SessionToken /\ tokens[t].expires \in Nat /\ now \in Nat
      BY DEF SessionsInv, TypeOK, SessionToken
    <2>2. ASSUME NEW c \in Client, ResolveSessionToken(c)
          PROVE  Justified(t)
      <3> DEFINE s == req[c].tok
      <3>1. s \in Token
        BY <2>2 DEF ResolveSessionToken, SessionsInv
      <3>2. CASE ~Live(s)
        <4>1. s = t
          BY <2>2, <3>2 DEF ResolveSessionToken, SessionsInv, TypeOK
        <4>2. QED
          BY <2>1, <3>2, <4>1 DEF Live
      <3>3. CASE Live(s)
        <4> DEFINE e == IF tokens[s].expires - now < TTL - Slack THEN now + TTL ELSE tokens[s].expires
        <4>1. tokens' = [tokens EXCEPT ![s].expires = e]
          BY <2>2, <3>3 DEF ResolveSessionToken, Resolved
        <4>2. s = t /\ tokens'[t] = [tokens[t] EXCEPT !.expires = e]
          BY <3>1, <4>1 DEF SessionsInv, TypeOK
        <4>3. e \in Nat
          BY <2>1, <4>2, SessionsAssumption
        <4>4. QED
          BY <2>1, <4>2, <4>3, RenewedTyped
      <3>4. QED
        BY <3>2, <3>3
    <2>3. ASSUME NEW c \in Client, CreateSessionToken(c)
          PROVE  FALSE
      <3>1. PICK s \in Token :
               tokens' = [tokens EXCEPT ![s] = [address |-> req[c].who, expires |-> now + TTL]]
        BY <2>3 DEF CreateSessionToken
      <3>2. [address |-> req[c].who, expires |-> now + TTL] \in SessionToken
        BY <2>1, RequestParts, SessionsAssumption DEF SessionsInv, TypeOK, SessionToken
      <3>3. QED
        BY <3>1, <3>2, SessionsAssumption DEF SessionsInv, TypeOK, SessionToken
    <2>4. ASSUME NEW c \in Client, RevokeSessionToken(c)
          PROVE  Justified(t)
      BY <2>4 DEF RevokeSessionToken, SessionsInv, TypeOK
    <2>5. ASSUME NEW c \in Client, RevokeAllSessionTokens(c)
          PROVE  Justified(t)
      <3>1. tokens[t].address = req[c].who
        BY <2>5 DEF RevokeAllSessionTokens
      <3>2. QED
        BY <2>5, <3>1 DEF RevokeAllSessionTokens
    <2>6. tokens' # tokens
      OBVIOUS
    <2>7. QED
      BY <2>2, <2>3, <2>4, <2>5, <2>6 DEF Next, Ask, Step, Arrive, BasicAuth, ChangeVerify,
         ChangeReplace, Respond, ResetPassword, SetAccountDisabled, Crash, Tick, store, vars
  <1>2. QED
    BY <1>1, Invariance, PTL DEF Spec, RevocationsJustified

=============================================================================
