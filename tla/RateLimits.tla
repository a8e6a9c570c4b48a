----------------------------- MODULE RateLimits -----------------------------
(***************************************************************************)
(* The in-memory rate limiters (internal/server/server.go, ratelimit.go):  *)
(* counting windows for sends, declarations, attachment operations and     *)
(* push subscriptions, one for received bytes, and the attempts of a       *)
(* client IP, which several registration endpoints share.                  *)
(*                                                                         *)
(* A window belongs to an address as the client typed it: requireAccount   *)
(* hands on the user name of the header (or the spelling that a token was  *)
(* issued for), a recipient is what the sender wrote, and the maps are     *)
(* keyed by that, whereas the password is checked under the lowercased     *)
(* address.  So an account has a window for each spelling of its address.  *)
(*                                                                         *)
(* Time goes by ticks, Hour of them to the hour; what is at least an hour  *)
(* old has age Hour.  Each check takes its lock once, and what the lock     *)
(* protects does not change between the checks of a request, so a request  *)
(* is one action; the limit it compares with was read before the lock and  *)
(* may have been changed since: lately keeps what was in force since the   *)
(* clock moved.                                                            *)
(***************************************************************************)
EXTENDS Settings

CONSTANTS
    Address,        \* addresses as clients type them
    Lower,          \* address -> the lowercase one, which names its account
    Client,         \* client IPs
    Hour,           \* ticks of an hour
    Kind,           \* which of "send", "declare", "file", "push" are made
    FixedLimit,     \* kind -> operations an hour, of the kinds no admin limits
    TeamLimit,      \* registrations of teams per client and hour
    PushIPLimit,
    MaxClients,     \* clients above which the old attempts of all are swept
    Size            \* sizes of mail bodies

Kinds == {"send", "declare", "file", "push"}

ASSUME RateAssumption ==
    /\ {"send_rate", "byte_rate", "register_rate"} \subseteq LimitKey
    /\ Lower \in [Address -> Address] /\ \A a \in Address : Lower[Lower[a]] = Lower[a]
    /\ Hour \in Nat \ {0} /\ Kind \subseteq Kinds /\ FixedLimit \in [Kinds -> Nat \ {0}]
    /\ TeamLimit \in Nat /\ PushIPLimit \in Nat
    /\ MaxClients \in Nat /\ Size \subseteq Nat

VARIABLES
    rates,          \* kind -> address -> its window of operations
    recvRates,      \* address -> its window of received bytes
    hits,           \* limiter -> client -> its attempts
    passed,         \* history: kind -> address -> operations let through
    received,       \* history: address -> bytes delivered in its window
    tried,          \* history: limiter -> client -> attempts let through
    lately,         \* history: limit -> what was in force since the last tick
    ceiling         \* history: age -> the highest send limit in force at that age

counted == <<rates, recvRates, hits, passed, received, tried>>
unlimited == <<settingsVars, lately, ceiling>>
ratesVars == <<counted, unlimited>>

Limiter == {"register", "push"}

Age == 0 .. Hour

Window == [age : Age, used : Nat]

Current(w) == IF w.age = Hour THEN [age |-> 0, used |-> 0] ELSE w

\* Attempts, and operations that were let through, of one age are numbered.
Attempt == [age : Age, n : Nat]

Since(attempts, age) == {t \in attempts : t.age <= age}

Kept(attempts) == {t \in attempts : t.age < Hour}

Recent(attempts) == Cardinality(Kept(attempts))

OneMore(attempts) == attempts \cup {[age |-> 0, n |-> Cardinality(Since(attempts, 0))]}

-----------------------------------------------------------------------------
\* The limits that a check may have read.
Limits(kind) == IF kind = "send" THEN lately["send_rate"] ELSE {FixedLimit[kind]}

Within(kind, a, limit) == Current(rates[kind][a]).used < limit

\* Mutant of Count: a new window forgets to begin.
CountStale(kind, a, limit) ==
    LET w == rates[kind][a] IN
    /\ rates' = [rates EXCEPT ![kind][a] =
                    [w EXCEPT !.used = IF w.age = Hour THEN 1 ELSE @ + 1]]
    /\ passed' = IF Within(kind, a, limit) THEN [passed EXCEPT ![kind][a] = OneMore(@)] ELSE passed

\* The window counts one more; what it lets through is noted.
Count(kind, a, limit) ==
    LET w == Current(rates[kind][a]) IN
    /\ rates' = [rates EXCEPT ![kind][a] = [w EXCEPT !.used = @ + 1]]
    /\ passed' = IF Within(kind, a, limit) THEN [passed EXCEPT ![kind][a] = OneMore(@)] ELSE passed

\* A send is counted for its sender; every recipient whose budget allows is
\* charged, and the mail goes to all of them unless none is left.
HandleSend(from, to, size, limit, byteLimit) ==
    LET budget == [a \in to |-> Current(recvRates[a])]
        valid == {a \in to : budget[a].used + size <= byteLimit}
        delivered == IF valid = {} THEN {} ELSE to
    IN
    /\ Within("send", from, limit) /\ Count("send", from, limit)
    /\ recvRates' = [a \in Address |->
                        IF a \in valid THEN [budget[a] EXCEPT !.used = @ + size]
                        ELSE IF a \in to THEN budget[a] ELSE recvRates[a]]
    /\ received' = [a \in Address |->
                       (IF a \in to /\ recvRates[a].age = Hour THEN 0 ELSE received[a])
                           + (IF a \in delivered THEN size ELSE 0)]
    /\ UNCHANGED <<hits, tried, unlimited>>

\* handleSubsDeclare and allowFileOp.
CountOperation(kind, a) ==
    /\ kind \in {"declare", "file"}
    /\ Within(kind, a, FixedLimit[kind]) /\ Count(kind, a, FixedLimit[kind])
    /\ UNCHANGED <<recvRates, hits, received, tried, unlimited>>

\* Mutant of Allow: a refusal starts the count anew.
AllowForgetful(limiter, ip, limit) ==
    /\ hits' = [hits EXCEPT ![limiter][ip] = IF Recent(@) >= limit THEN {} ELSE OneMore(@)]
    /\ tried' = IF Recent(hits[limiter][ip]) < limit
                THEN [tried EXCEPT ![limiter][ip] = OneMore(@)] ELSE tried

\* A refused attempt is not kept; an accepted one may sweep all clients.
Allow(limiter, ip, limit) ==
    LET kept == Kept(hits[limiter][ip])
        accepted == [hits[limiter] EXCEPT ![ip] = OneMore(kept)]
        many == Cardinality({c \in Client : accepted[c] # {}}) > MaxClients
    IN
    IF limit = 0 THEN UNCHANGED <<hits, tried>>
    ELSE IF Recent(kept) >= limit
    THEN hits' = [hits EXCEPT ![limiter][ip] = kept] /\ UNCHANGED tried
    ELSE /\ hits' = [hits EXCEPT ![limiter] =
                        IF many THEN [c \in Client |-> Kept(accepted[c])] ELSE accepted]
         /\ tried' = [tried EXCEPT ![limiter][ip] = OneMore(@)]

\* The limits of handleRegister and handleRegisterSubordinate, and of
\* handleRegisterTeam, for the same attempts.
RegisterLimits == lately["register_rate"] \cup {TeamLimit}

RegisterFrom(ip, limit) ==
    /\ Allow("register", ip, limit)
    /\ UNCHANGED <<rates, recvRates, passed, received, unlimited>>

\* handlePushSubscribe counts a refused attempt too, to one above the limit
\* here; the client is asked only if the address may go on.
PushSubscribe(a, ip) ==
    /\ Current(rates["push"][a]).used <= FixedLimit["push"]
    /\ Count("push", a, FixedLimit["push"])
    /\ IF Within("push", a, FixedLimit["push"]) THEN Allow("push", ip, PushIPLimit)
       ELSE UNCHANGED <<hits, tried>>
    /\ UNCHANGED <<recvRates, received, unlimited>>

\* Of what is an hour old, only whether there is any is kept.
Older(attempts) ==
    {[age |-> t.age + 1, n |-> IF t.age + 1 = Hour THEN 0 ELSE t.n] : t \in Kept(attempts)}
    \cup (attempts \ Kept(attempts))

Aged(w) == [w EXCEPT !.age = IF @ < Hour THEN @ + 1 ELSE Hour]

Tick ==
    /\ rates' = [k \in Kinds |-> [a \in Address |-> Aged(rates[k][a])]]
    /\ recvRates' = [a \in Address |-> Aged(recvRates[a])]
    /\ hits' = [l \in Limiter |-> [c \in Client |-> Older(hits[l][c])]]
    /\ passed' = [k \in Kinds |-> [a \in Address |-> Kept(Older(passed[k][a]))]]
    /\ tried' = [l \in Limiter |-> [c \in Client |-> Kept(Older(tried[l][c]))]]
    /\ ceiling' = [age \in 1 .. Hour |-> IF age = 1 THEN Max(lately["send_rate"])
                                         ELSE ceiling[age - 1]]
    /\ lately' = [l \in LimitKey |-> {InForce(meta, l)}]
    /\ UNCHANGED <<received, settingsVars>>

\* handleAdminSetLimits while the server runs.
ChangeSettings ==
    /\ NextSettings
    /\ lately' = [l \in LimitKey |-> lately[l] \cup {InForce(meta', l)}]
    /\ UNCHANGED <<counted, ceiling>>

\* A restart clears the counters; the properties are about one run.
RatesInit ==
    /\ InitSettings
    /\ lately = [l \in LimitKey |-> {InForce(meta, l)}]
    /\ ceiling = [age \in 1 .. Hour |-> 0]
    /\ rates = [k \in Kinds |-> [a \in Address |-> [age |-> Hour, used |-> 0]]]
    /\ recvRates = [a \in Address |-> [age |-> Hour, used |-> 0]]
    /\ hits = [l \in Limiter |-> [c \in Client |-> {}]]
    /\ passed = [k \in Kinds |-> [a \in Address |-> {}]]
    /\ received = [a \in Address |-> 0]
    /\ tried = [l \in Limiter |-> [c \in Client |-> {}]]

RatesNext ==
    \/ "send" \in Kind /\ \E from \in Address, to \in (SUBSET Address) \ {{}}, size \in Size :
                              \E limit \in Limits("send"), byteLimit \in lately["byte_rate"] :
                                  HandleSend(from, to, size, limit, byteLimit)
    \/ \E kind \in Kind, a \in Address : CountOperation(kind, a)
    \/ "push" \in Kind /\ \E a \in Address, ip \in Client : PushSubscribe(a, ip)
    \/ \E ip \in Client, limit \in RegisterLimits : RegisterFrom(ip, limit)
    \/ ChangeSettings
    \/ Tick

RatesSpec == RatesInit /\ [][RatesNext]_ratesVars

-----------------------------------------------------------------------------
(* Properties.                                                             *)

\* Every variable stays within its type, and what counts as a limit is never
\* below the lowest value that is accepted.
RatesTypeOK ==
    /\ DOMAIN meta = Setting /\ \A l \in LimitKey : meta[l] \in Int \cup {Unset}
    /\ post \in [DOMAIN post -> Int] /\ DOMAIN post \subseteq LimitKey
    /\ \A l \in LimitKey : InForce(meta, l) >= LowestLimit[l]
    /\ lately \in [LimitKey -> SUBSET Nat]
    /\ rates \in [Kinds -> [Address -> Window]]
    /\ recvRates \in [Address -> Window]
    /\ hits \in [Limiter -> [Client -> SUBSET Attempt]]
    /\ passed \in [Kinds -> [Address -> SUBSET Attempt]]
    /\ received \in [Address -> Nat]
    /\ tried \in [Limiter -> [Client -> SUBSET Attempt]]
    /\ ceiling \in [1 .. Hour -> Nat]

\* The highest limit of a kind that was in force in the last n ticks.
Highest(kind, n) ==
    IF kind # "send" THEN FixedLimit[kind]
    ELSE Max(lately["send_rate"] \cup {ceiling[age] : age \in 1 .. n})

\* Per address as typed, and hour: what was let through since a window began
\* is within the highest limit in force since then, however the admin changed
\* it, and two windows meet within an hour at most.  An account has as many
\* windows as its address has spellings: see AccountCap.
WindowsCap ==
    \A k \in Kinds, a \in Address :
        LET w == rates[k][a] IN
        /\ w.age < Hour => Cardinality(Since(passed[k][a], w.age)) <= Highest(k, w.age)
        /\ Recent(passed[k][a]) <= 2 * Highest(k, Hour - 1)

\* An attempt of a client is let through only if, with it, no more than the
\* largest of its endpoints' limits were in the last hour, through whatever
\* endpoint, however often the map was swept and the limit changed in between;
\* and none of those has been forgotten.
AttemptsCap ==
    [][\A l \in Limiter, c \in Client :
          Recent(tried'[l][c]) > Recent(tried[l][c]) =>
              \E limit \in IF l = "push" THEN {PushIPLimit} ELSE RegisterLimits :
                  Recent(tried'[l][c]) <= limit /\ Recent(tried'[l][c]) = Recent(hits'[l][c])]_ratesVars

\* README.md: "500 / hour / account": whatever spellings of its address its
\* clients use, an account does no more in an hour than two windows let through.
AccountCap ==
    \A k \in Kinds, a \in Address :
        LET spellings == {b \in Address : Lower[b] = Lower[a]}
            operations == UNION {{b} \X Kept(passed[k][b]) : b \in spellings}
        IN  Cardinality(operations) <= 2 * Highest(k, Hour - 1)

\* server.go: "1-hour sliding window": no more than the limit in any hour, were
\* it for one spelling only.
SlidingCap == \A k \in Kinds, a \in Address : Recent(passed[k][a]) <= Highest(k, Hour - 1)

\* handleSend: "filter out recipients whose hourly byte budget would be
\* exceeded": nothing is delivered beyond the budget, were it under one
\* spelling only.
BudgetKept == \A a \in Address : received[a] <= InForce(meta, "byte_rate")

=============================================================================
