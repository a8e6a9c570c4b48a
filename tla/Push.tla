-------------------------------- MODULE Push --------------------------------
(***************************************************************************)
(* Notification pushes (internal/server/pushsend.go, push.go and           *)
(* internal/store/pushsubs.go): a delivery starts a goroutine for each     *)
(* recipient, which either joins the account's aggregation window or, in   *)
(* its quiet hours, is counted for a summary at their end; timers flush    *)
(* both, and each flush pushes to the subscriptions of the account.        *)
(*                                                                         *)
(* Time goes by the minute, and a day has Day of them.  Timers hold the    *)
(* minutes they have left.  What is in memory under pd.mu changes in one   *)
(* action; bucket reads and the calls to the push service are their own.   *)
(***************************************************************************)
EXTENDS Integers, FiniteSets

CONSTANTS
    Address, Lower,     \* spellings of addresses, and strings.ToLower
    Endpoint,           \* devices' push endpoints
    Worker,             \* goroutines: of deliveries and of fired timers
    Day,                \* minutes of a day
    AggWindow,          \* pushAggWindow in minutes
    Quiet,              \* the quiet hours accounts may set
    MaxCount,           \* arrivals of one quiet period that are told apart
    NoOne, NoTimer, Fired

ASSUME PushAssumption ==
    /\ Lower \in [Address -> Address] /\ \A a \in Address : Lower[Lower[a]] = Lower[a]
    /\ Day \in Nat \ {0} /\ AggWindow \in Nat \ {0} /\ MaxCount \in Nat \ {0}
    /\ Quiet \subseteq [on : BOOLEAN, start : 0 .. (Day - 1), end : 0 .. (Day - 1)]
    /\ NoTimer \notin Int /\ Fired \notin Int /\ NoTimer # Fired

VARIABLES
    minute,         \* minutes since midnight
    dnd,            \* the do-not-disturb bucket: address as spelled -> window
    subs,           \* the subscriptions bucket: endpoint -> owner as spelled
    gone,           \* endpoints the push service has dropped
    pending,        \* pd.pending: address -> its aggregation timer
    latestFrom,     \* the addresses that have an entry in pd.latestFrom
    digestCount,    \* pd.digestCount
    digestTimers,   \* pd.digestTimers
    stale,          \* armed digest timers that are no longer in the map
    work,           \* worker -> what it is doing
    quietFor        \* history: address -> minutes since its last aggregated flush

settings == <<dnd, subs>>
window == <<pending, latestFrom>>
digest == <<digestCount, digestTimers, stale>>

vars == <<minute, settings, gone, window, digest, work, quietFor>>

Off == [on |-> FALSE, start |-> 0, end |-> 0]

\* The longest wait enqueueDigest can compute.
Timer == 0 .. (2 * Day) \cup {NoTimer, Fired}

Task == [step : {"check", "aggregate", "digest", "flushAggregated", "flushDigest",
                 "list", "push", "prune"},
         addr : Address, targets : SUBSET Endpoint]

NoTask == [step |-> "idle"]

TaskOf(step, a) == [step |-> step, addr |-> a, targets |-> {}]

Do(w, task) == work' = [work EXCEPT ![w] = task]

\* Which of the idle workers takes a task makes no difference.
Spawn(task) ==
    \E w \in Worker : /\ work[w] = NoTask
                      /\ w = CHOOSE v \in Worker : work[v] = NoTask
                      /\ Do(w, task)

ActiveAt(d, m) ==
    /\ d.on /\ d.start # d.end
    /\ IF d.start < d.end THEN m >= d.start /\ m < d.end ELSE m >= d.start \/ m < d.end

-----------------------------------------------------------------------------
(* Deliveries.                                                             *)

\* A mail is delivered to a recipient, spelled as its sender did.
Deliver(a) ==
    /\ Spawn(TaskOf("check", a))
    /\ UNCHANGED <<minute, settings, gone, window, digest, quietFor>>

NotifyRecipient(w) ==
    LET a == work[w].addr IN
    /\ work[w].step = "check"
    /\ Do(w, TaskOf(IF ActiveAt(dnd[a], minute) THEN "digest" ELSE "aggregate", a))
    /\ UNCHANGED <<minute, settings, gone, window, digest, quietFor>>

\* Mutant of AggregateOrPush: an arrival is pushed at once.
AggregateNone(w) ==
    LET a == work[w].addr IN
    /\ work[w].step = "aggregate"
    /\ pending' = [pending EXCEPT ![a] = IF @ = NoTimer THEN 0 ELSE @]
    /\ latestFrom' = latestFrom \cup {a}
    /\ Do(w, NoTask)
    /\ UNCHANGED <<minute, settings, gone, digest, quietFor>>

AggregateOrPush(w) ==
    LET a == work[w].addr IN
    /\ work[w].step = "aggregate"
    /\ pending' = [pending EXCEPT ![a] = IF @ = NoTimer THEN AggWindow ELSE @]
    /\ latestFrom' = latestFrom \cup {a}
    /\ Do(w, NoTask)
    /\ UNCHANGED <<minute, settings, gone, digest, quietFor>>

\* The quiet hours are read again; a wait below zero is over at once.
Wait(d) ==
    LET wait == IF d.start < d.end THEN d.end - minute ELSE Day + d.end - minute
    IN  IF wait < 0 THEN 0 ELSE wait

\* A timer that is there is set again, be it fired or not.
EnqueueDigest(w) ==
    LET a == work[w].addr IN
    /\ work[w].step = "digest"
    /\ digestCount' = [digestCount EXCEPT ![a] = IF @ < MaxCount THEN @ + 1 ELSE @]
    /\ digestTimers' = [digestTimers EXCEPT ![a] = Wait(dnd[a])]
    /\ Do(w, NoTask)
    /\ UNCHANGED <<minute, settings, gone, window, stale, quietFor>>

-----------------------------------------------------------------------------
(* Timers.                                                                 *)

FireAggregated(a) ==
    /\ pending[a] = 0
    /\ pending' = [pending EXCEPT ![a] = Fired]
    /\ Spawn(TaskOf("flushAggregated", a))
    /\ UNCHANGED <<minute, settings, gone, latestFrom, digest, quietFor>>

FireDigest(a) ==
    /\ \/ /\ digestTimers[a] = 0
          /\ digestTimers' = [digestTimers EXCEPT ![a] = Fired]
          /\ UNCHANGED stale
       \/ /\ <<a, 0>> \in stale
          /\ stale' = stale \ {<<a, 0>>}
          /\ UNCHANGED digestTimers
    /\ Spawn(TaskOf("flushDigest", a))
    /\ UNCHANGED <<minute, settings, gone, window, digestCount, quietFor>>

\* Mutant of FlushAggregated: the timer stays in the map.
FlushKeepingTimer(w) ==
    LET a == work[w].addr IN
    /\ work[w].step = "flushAggregated"
    /\ latestFrom' = latestFrom \ {a}
    /\ Do(w, TaskOf("list", a))
    /\ quietFor' = [quietFor EXCEPT ![a] = 0]
    /\ UNCHANGED <<minute, settings, gone, pending, digest>>

FlushAggregated(w) ==
    LET a == work[w].addr IN
    /\ work[w].step = "flushAggregated"
    /\ pending' = [pending EXCEPT ![a] = NoTimer]
    /\ latestFrom' = latestFrom \ {a}
    /\ Do(w, TaskOf("list", a))
    /\ quietFor' = [quietFor EXCEPT ![a] = 0]
    /\ UNCHANGED <<minute, settings, gone, digest>>

\* A timer that was set again after it had fired stays armed, out of the map.
FlushDigest(w) ==
    LET a == work[w].addr IN
    /\ work[w].step = "flushDigest"
    /\ digestCount' = [digestCount EXCEPT ![a] = 0]
    /\ digestTimers' = [digestTimers EXCEPT ![a] = NoTimer]
    /\ stale' = stale \cup ({<<a, digestTimers[a]>>} \ {<<a, NoTimer>>, <<a, Fired>>})
    /\ Do(w, IF digestCount[a] = 0 THEN NoTask ELSE TaskOf("list", a))
    /\ UNCHANGED <<minute, settings, gone, window, quietFor>>

-----------------------------------------------------------------------------
(* Pushes: to one endpoint after the other.  The unread count and the      *)
(* sender's name a push carries are left out.                              *)

PushSubsByAddress(w) ==
    /\ work[w].step = "list"
    /\ Do(w, [work[w] EXCEPT !.step = "push",
                             !.targets = {e \in Endpoint : subs[e] = work[w].addr}])
    /\ UNCHANGED <<minute, settings, gone, window, digest, quietFor>>

SendToSubs(w) ==
    /\ work[w].step = "push"
    /\ \/ /\ work[w].targets = {}
          /\ Do(w, NoTask)
       \/ \E e \in work[w].targets :
             Do(w, IF e \in gone THEN [work[w] EXCEPT !.step = "prune"]
                                 ELSE [work[w] EXCEPT !.targets = @ \ {e}])
    /\ UNCHANGED <<minute, settings, gone, window, digest, quietFor>>

\* Mutant of Prune: the owner is not compared.
PruneForeign(w) ==
    /\ work[w].step = "prune"
    /\ \E e \in work[w].targets \cap gone :
          /\ subs' = [subs EXCEPT ![e] = NoOne]
          /\ Do(w, [work[w] EXCEPT !.step = "push", !.targets = @ \ {e}])
    /\ UNCHANGED <<minute, dnd, gone, window, digest, quietFor>>

\* RemovePushSub leaves an endpoint alone that is no longer the address's own.
Prune(w) ==
    /\ work[w].step = "prune"
    /\ \E e \in work[w].targets \cap gone :
          /\ subs' = [subs EXCEPT ![e] = IF @ = work[w].addr THEN NoOne ELSE @]
          /\ Do(w, [work[w] EXCEPT !.step = "push", !.targets = @ \ {e}])
    /\ UNCHANGED <<minute, dnd, gone, window, digest, quietFor>>

-----------------------------------------------------------------------------
(* Devices and settings.                                                   *)

\* An endpoint that is someone else's is refused.
UpsertPushSub(who, e) ==
    /\ subs[e] \in {NoOne, who}
    /\ subs' = [subs EXCEPT ![e] = who]
    /\ UNCHANGED <<minute, dnd, gone, window, digest, work, quietFor>>

RemovePushSub(who, e) ==
    /\ subs[e] = who
    /\ subs' = [subs EXCEPT ![e] = NoOne]
    /\ UNCHANGED <<minute, dnd, gone, window, digest, work, quietFor>>

SetPushDND(who, d) ==
    /\ dnd' = [dnd EXCEPT ![who] = d]
    /\ UNCHANGED <<minute, subs, gone, window, digest, work, quietFor>>

\* The push service drops an endpoint.
Expire(e) ==
    /\ gone' = gone \cup {e}
    /\ UNCHANGED <<minute, settings, window, digest, work, quietFor>>

\* A timer fires and flushes within the minute it is due, and an arrival is
\* counted for the digest within the minute in which it was found quiet.
Prompt ==
    /\ \A a \in Address : pending[a] # 0 /\ digestTimers[a] # 0 /\ <<a, 0>> \notin stale
    /\ \A w \in Worker : work[w].step \notin {"digest", "flushAggregated", "flushDigest"}

Less(timer) == IF timer \in {NoTimer, Fired} THEN timer ELSE timer - 1

Tick ==
    /\ Prompt
    /\ minute' = (minute + 1) % Day
    /\ pending' = [a \in Address |-> Less(pending[a])]
    /\ digestTimers' = [a \in Address |-> Less(digestTimers[a])]
    /\ stale' = {<<s[1], s[2] - 1>> : s \in stale}
    /\ quietFor' = [a \in Address |-> IF quietFor[a] < AggWindow THEN quietFor[a] + 1
                                      ELSE AggWindow]
    /\ UNCHANGED <<settings, gone, latestFrom, digestCount, work>>

\* What is in memory is lost; pushes are best effort.
Crash ==
    /\ pending' = [a \in Address |-> NoTimer]
    /\ latestFrom' = {}
    /\ digestTimers' = [a \in Address |-> NoTimer]
    /\ digestCount' = [a \in Address |-> 0]
    /\ stale' = {}
    /\ work' = [w \in Worker |-> NoTask]
    /\ quietFor' = [a \in Address |-> AggWindow]
    /\ UNCHANGED <<minute, settings, gone>>

Init ==
    /\ minute \in 0 .. (Day - 1)
    /\ dnd \in [Address -> Quiet \cup {Off}]
    /\ subs = [e \in Endpoint |-> NoOne]
    /\ gone = {}
    /\ pending = [a \in Address |-> NoTimer]
    /\ latestFrom = {}
    /\ digestCount = [a \in Address |-> 0]
    /\ digestTimers = [a \in Address |-> NoTimer]
    /\ stale = {}
    /\ work = [w \in Worker |-> NoTask]
    /\ quietFor = [a \in Address |-> AggWindow]

Work(w) ==
    \/ NotifyRecipient(w) \/ AggregateOrPush(w) \/ EnqueueDigest(w)
    \/ FlushAggregated(w) \/ FlushDigest(w)
    \/ PushSubsByAddress(w) \/ SendToSubs(w) \/ Prune(w)

Fire(a) == FireAggregated(a) \/ FireDigest(a)

Devices ==
    \E who \in Address :
        \/ \E e \in Endpoint : UpsertPushSub(who, e) \/ RemovePushSub(who, e)
        \/ \E d \in Quiet \cup {Off} : SetPushDND(who, d)

Next ==
    \/ \E a \in Address : Deliver(a) \/ Fire(a)
    \/ \E w \in Worker : Work(w)
    \/ Devices
    \/ \E e \in Endpoint : Expire(e)
    \/ Tick
    \/ Crash

Spec == Init /\ [][Next]_vars

\* The runtime fires timers, also while mail keeps arriving, and runs
\* goroutines; the push service answers or times out; time goes on.
FairSpec ==
    /\ Spec
    /\ \A w \in Worker : WF_vars(Work(w))
    /\ \A a \in Address : SF_vars(FireAggregated(a)) /\ SF_vars(FireDigest(a))
    /\ SF_vars(Tick)

-----------------------------------------------------------------------------
(* Properties.                                                             *)

\* Every variable stays within its type; a digest never waits beyond the end
\* of the next day.
TypeOK ==
    /\ minute \in 0 .. (Day - 1)
    /\ dnd \in [Address -> Quiet \cup {Off}]
    /\ subs \in [Endpoint -> Address \cup {NoOne}]
    /\ gone \in SUBSET Endpoint
    /\ pending \in [Address -> (0 .. AggWindow) \cup {NoTimer, Fired}]
    /\ latestFrom \in SUBSET Address
    /\ digestCount \in [Address -> 0 .. MaxCount]
    /\ digestTimers \in [Address -> Timer]
    /\ stale \in SUBSET (Address \X (0 .. (2 * Day)))
    /\ work \in [Worker -> Task \cup {NoTask}]
    /\ quietFor \in [Address -> 0 .. AggWindow]

Flushing(a, step) == \E w \in Worker : work[w] = TaskOf(step, a)

Armed(timer) == timer \notin {NoTimer, Fired}

\* No arrival is forgotten: what waits for the end of the window or of the
\* quiet hours has a timer ahead or a flush under way, whatever arrives
\* between the firing of a timer and its flush.
ArrivalsCovered ==
    \A a \in Address :
        /\ a \in latestFrom => Armed(pending[a]) \/ Flushing(a, "flushAggregated")
        /\ digestCount[a] > 0 => Armed(digestTimers[a]) \/ Flushing(a, "flushDigest")

\* "N arrivals collapse into one push": aggregated flushes of one address are
\* at least a window apart.
AggregationSpacing ==
    [][\A a \in Address :
          a \in latestFrom /\ a \notin latestFrom' =>
              quietFor[a] = AggWindow \/ \A w \in Worker : work'[w] = NoTask]_vars

\* "One account cannot hijack another's registration": an endpoint passes to
\* another owner only after it was removed; and a push removes only an
\* endpoint of the account it is for, which the push service has dropped.
EndpointsKeepOwner ==
    [][\A e \in Endpoint : (subs[e] # NoOne /\ subs'[e] # subs[e]) =>
          /\ subs'[e] = NoOne
          /\ \A w \in Worker : work'[w] # work[w] => e \in gone /\ subs[e] = work[w].addr]_vars

\* pushsend.go: "ONE summary push ... fires when it closes": arrivals of the
\* quiet hours are announced in the end, unless the server dies, even if mail
\* arrives every day.
DigestAnnounced == \A a \in Address : digestCount[a] > 0 ~> digestCount[a] = 0

\* The design note: in quiet hours arrivals are only queued, nothing is sent.
QuietIsQuiet ==
    [][\A w \in Worker : (work[w] # NoTask /\ work[w].step = "push") =>
          ((\E e \in work[w].targets \ gone : work'[w] = [work[w] EXCEPT !.targets = @ \ {e}])
              => ~ActiveAt(dnd[work[w].addr], minute))]_vars

\* "Fans out web pushes to every subscription of the recipient": those of the
\* account, however the sender spelled its address.
PushReachesAccount ==
    [][\A w \in Worker : (work[w] # NoTask /\ work[w].step = "list" /\ work'[w].step = "push") =>
          \A e \in Endpoint : (subs[e] # NoOne /\ Lower[subs[e]] = Lower[work[w].addr]) =>
              e \in work'[w].targets]_vars

=============================================================================
