----------------------------- MODULE PushProofs ------------------------------
(***************************************************************************)
(* TLAPS proofs about notification pushes, module Push.                    *)
(***************************************************************************)
EXTENDS Push, TLAPS

-----------------------------------------------------------------------------
(* The invariant.                                                          *)

Typed ==
    /\ minute \in 0 .. (Day - 1)
    /\ dnd \in [Address -> Quiet \cup {Off}]
    /\ subs \in [Endpoint -> Address \cup {NoOne}]
    /\ gone \in SUBSET Endpoint
    /\ pending \in [Address -> (0 .. AggWindow) \cup {NoTimer, Fired}]
    /\ latestFrom \in SUBSET Address
    /\ digestCount \in [Address -> 0 .. MaxCount]
    /\ digestTimers \in [Address -> Timer]
    /\ work \in [Worker -> Task \cup {NoTask}]
    /\ quietFor \in [Address -> 0 .. AggWindow]

\* What waits has a timer in the map, and a timer that has fired has its flush
\* under way.
Covered ==
    \A a \in Address :
        /\ a \in latestFrom => pending[a] # NoTimer
        /\ pending[a] = Fired => Flushing(a, "flushAggregated")
        /\ digestCount[a] > 0 => digestTimers[a] # NoTimer
        /\ digestTimers[a] = Fired => Flushing(a, "flushDigest")

\* An armed timer and the time since the last flush make a window; a flush has
\* the timer that fired for it to itself.
Spaced ==
    /\ \A a \in Address :
          /\ pending[a] \in 0 .. AggWindow => AggWindow <= pending[a] + quietFor[a]
          /\ pending[a] = Fired => quietFor[a] = AggWindow
    /\ \A w \in Worker : work[w].step = "flushAggregated" =>
          /\ pending[work[w].addr] = Fired
          /\ \A v \in Worker : v # w /\ work[v].step = "flushAggregated" =>
                work[v].addr # work[w].addr

PushInv == Typed /\ Covered /\ Spaced

-----------------------------------------------------------------------------
(* Types.                                                                  *)

\* A worker has a task with its fields, or none.
LEMMA WorkFields ==
    ASSUME Typed, NEW w \in Worker
    PROVE  /\ work[w] = NoTask <=> work[w].step = "idle"
           /\ work[w] # NoTask => /\ work[w] \in Task /\ work[w].addr \in Address
                                  /\ work[w].targets \in SUBSET Endpoint
                                  /\ work[w] = [step |-> work[w].step, addr |-> work[w].addr,
                                                targets |-> work[w].targets]
  BY DEF Typed, Task, NoTask

\* A task with another step and other targets.
LEMMA TaskWith ==
    ASSUME NEW t \in Task, NEW s \in {"push", "prune"}, NEW x \in SUBSET Endpoint
    PROVE  [t EXCEPT !.step = s, !.targets = x] = [step |-> s, addr |-> t.addr, targets |-> x]
  <1>1. [t EXCEPT !.step = s] = [step |-> s, addr |-> t.addr, targets |-> t.targets]
    BY DEF Task
  <1>2. [[step |-> s, addr |-> t.addr, targets |-> t.targets] EXCEPT !.targets = x]
           = [step |-> s, addr |-> t.addr, targets |-> x]
    OBVIOUS
  <1>3. QED
    BY <1>1, <1>2

LEMMA TaskOfIs ==
    ASSUME NEW step \in {"check", "aggregate", "digest", "flushAggregated", "flushDigest", "list"},
           NEW a \in Address
    PROVE  /\ TaskOf(step, a) \in Task /\ TaskOf(step, a).step = step /\ TaskOf(step, a).addr = a
           /\ TaskOf(step, a) # NoTask
  BY DEF TaskOf, Task, NoTask

LEMMA DoTyped ==
    ASSUME Typed, NEW w \in Worker, NEW t \in Task \cup {NoTask}, Do(w, t)
    PROVE  work' \in [Worker -> Task \cup {NoTask}]
  BY DEF Do, Typed

LEMMA SpawnIs ==
    ASSUME NEW t, Spawn(t)
    PROVE  \E w \in Worker : work[w] = NoTask /\ Do(w, t)
  BY DEF Spawn

\* A digest waits until the end of its quiet hours, tomorrow at the latest.
LEMMA WaitIs ==
    ASSUME Typed, NEW d \in Quiet \cup {Off}
    PROVE  Wait(d) \in 0 .. (2 * Day)
  <1>1. d.start \in 0 .. (Day - 1) /\ d.end \in 0 .. (Day - 1) /\ Day \in Nat \ {0}
    BY PushAssumption DEF Off
  <1>2. minute \in 0 .. (Day - 1)
    BY DEF Typed
  <1>3. /\ d.end - minute \in Int /\ d.end - minute <= Day
        /\ Day + d.end - minute \in 0 .. (2 * Day)
    BY <1>1, <1>2
  <1>4. CASE d.start < d.end
    BY <1>1, <1>3, <1>4 DEF Wait
  <1>5. CASE ~(d.start < d.end)
    BY <1>1, <1>3, <1>5 DEF Wait
  <1>6. QED
    BY <1>4, <1>5

\* The bounds the typing cites.
LEMMA Bounds ==
    /\ AggWindow \in 0 .. AggWindow /\ 0 \in 0 .. AggWindow /\ 0 \in 0 .. MaxCount
    /\ NoTimer \in Timer /\ Fired \in Timer /\ Day \in Nat \ {0} /\ AggWindow \in Nat \ {0}
  BY PushAssumption DEF Timer

\* A minute less of a timer that is not due.
LEMMA LessTyped ==
    ASSUME NEW n \in Nat, NEW t \in (0 .. n) \cup {NoTimer, Fired}, t # 0
    PROVE  Less(t) \in (0 .. n) \cup {NoTimer, Fired}
  <1>1. CASE t \in {NoTimer, Fired}
    BY <1>1 DEF Less
  <1>2. CASE t \notin {NoTimer, Fired}
    <2>1. t \in 1 .. n
      BY <1>2
    <2>2. t - 1 \in 0 .. n
      BY <2>1
    <2>3. QED
      BY <1>2, <2>2 DEF Less
  <1>3. QED
    BY <1>1, <1>2

LEMMA TypedInit == Init => Typed
  <1> SUFFICES ASSUME Init PROVE Typed
    OBVIOUS
  <1>1. work \in [Worker -> Task \cup {NoTask}] /\ digestTimers \in [Address -> Timer]
    BY DEF Init, Timer
  <1>2. quietFor \in [Address -> 0 .. AggWindow] /\ digestCount \in [Address -> 0 .. MaxCount]
    BY PushAssumption DEF Init
  <1>3. QED
    BY <1>1, <1>2 DEF Init, Typed

LEMMA TypedNext ==
    ASSUME Typed, [Next]_vars
    PROVE  Typed'
  <1> USE DEF settings, window, digest
  <1>1. ASSUME NEW w \in Worker, NEW t \in Task \cup {NoTask}, Do(w, t),
               UNCHANGED <<minute, dnd, gone, window, digestCount, digestTimers, quietFor>>,
               subs' \in [Endpoint -> Address \cup {NoOne}]
        PROVE  Typed'
    BY <1>1, DoTyped DEF Typed
  <1>2. ASSUME NEW a \in Address, Deliver(a)
        PROVE  Typed'
    <2>1. PICK w \in Worker : Do(w, TaskOf("check", a))
      BY <1>2, SpawnIs DEF Deliver
    <2>2. QED
      BY <1>1, <1>2, <2>1, TaskOfIs DEF Deliver, Typed
  <1>3. ASSUME NEW w \in Worker, NotifyRecipient(w)
        PROVE  Typed'
    <2>1. work[w].addr \in Address
      BY <1>3, WorkFields DEF NotifyRecipient
    <2>2. \E t \in Task : Do(w, t)
      BY <1>3, <2>1, TaskOfIs DEF NotifyRecipient
    <2>3. QED
      BY <1>1, <1>3, <2>2 DEF NotifyRecipient, Typed
  <1>4. ASSUME NEW w \in Worker, AggregateOrPush(w)
        PROVE  Typed'
    <2>1. work[w].addr \in Address
      BY <1>4, WorkFields DEF AggregateOrPush
    <2>2. pending' \in [Address -> (0 .. AggWindow) \cup {NoTimer, Fired}]
      BY <1>4, Bounds DEF AggregateOrPush, Typed
    <2>3. work' \in [Worker -> Task \cup {NoTask}]
      BY <1>4, DoTyped DEF AggregateOrPush
    <2>4. QED
      BY <1>4, <2>1, <2>2, <2>3 DEF AggregateOrPush, Typed
  <1>5. ASSUME NEW w \in Worker, EnqueueDigest(w)
        PROVE  Typed'
    <2>1. work[w].addr \in Address
      BY <1>5, WorkFields DEF EnqueueDigest
    <2>2. digestTimers' \in [Address -> Timer]
      BY <1>5, <2>1, WaitIs DEF EnqueueDigest, Typed, Timer
    <2>3. digestCount' \in [Address -> 0 .. MaxCount]
      BY <1>5, <2>1, PushAssumption DEF EnqueueDigest, Typed
    <2>4. work' \in [Worker -> Task \cup {NoTask}]
      BY <1>5, DoTyped DEF EnqueueDigest
    <2>5. QED
      BY <1>5, <2>2, <2>3, <2>4 DEF EnqueueDigest, Typed
  <1>6. ASSUME NEW a \in Address, FireAggregated(a)
        PROVE  Typed'
    <2>1. PICK w \in Worker : Do(w, TaskOf("flushAggregated", a))
      BY <1>6, SpawnIs DEF FireAggregated
    <2>2. work' \in [Worker -> Task \cup {NoTask}]
      BY <2>1, DoTyped, TaskOfIs
    <2>3. pending' \in [Address -> (0 .. AggWindow) \cup {NoTimer, Fired}]
      BY <1>6 DEF FireAggregated, Typed
    <2>4. QED
      BY <1>6, <2>2, <2>3 DEF FireAggregated, Typed
  <1>7. ASSUME NEW a \in Address, FireDigest(a)
        PROVE  Typed'
    <2>1. PICK w \in Worker : Do(w, TaskOf("flushDigest", a))
      BY <1>7, SpawnIs DEF FireDigest
    <2>2. work' \in [Worker -> Task \cup {NoTask}]
      BY <2>1, DoTyped, TaskOfIs
    <2>3. digestTimers' \in [Address -> Timer]
      BY <1>7 DEF FireDigest, Typed, Timer
    <2>4. QED
      BY <1>7, <2>2, <2>3 DEF FireDigest, Typed
  <1>8. ASSUME NEW w \in Worker, FlushAggregated(w)
        PROVE  Typed'
    <2>1. work[w].addr \in Address
      BY <1>8, WorkFields DEF FlushAggregated
    <2>2. work' \in [Worker -> Task \cup {NoTask}]
      BY <1>8, <2>1, DoTyped, TaskOfIs DEF FlushAggregated
    <2>3. pending' \in [Address -> (0 .. AggWindow) \cup {NoTimer, Fired}]
      BY <1>8 DEF FlushAggregated, Typed
    <2>4. quietFor' \in [Address -> 0 .. AggWindow]
      BY <1>8, Bounds DEF FlushAggregated, Typed
    <2>5. QED
      BY <1>8, <2>2, <2>3, <2>4 DEF FlushAggregated, Typed
  <1>9. ASSUME NEW w \in Worker, FlushDigest(w)
        PROVE  Typed'
    <2>1. work[w].addr \in Address
      BY <1>9, WorkFields DEF FlushDigest
    <2>2. \E t \in Task \cup {NoTask} : Do(w, t)
      BY <1>9, <2>1, TaskOfIs DEF FlushDigest
    <2>3. work' \in [Worker -> Task \cup {NoTask}]
      BY <2>2, DoTyped
    <2>4. digestTimers' \in [Address -> Timer]
      BY <1>9, Bounds DEF FlushDigest, Typed
    <2>5. digestCount' \in [Address -> 0 .. MaxCount]
      BY <1>9, Bounds DEF FlushDigest, Typed
    <2>6. QED
      BY <1>9, <2>3, <2>4, <2>5 DEF FlushDigest, Typed
  <1>10. ASSUME NEW w \in Worker, work[w].step \in {"list", "push", "prune"},
                NEW step \in {"push", "prune"}, NEW targets \in SUBSET Endpoint
         PROVE  [step |-> step, addr |-> work[w].addr, targets |-> targets] \in Task
    BY <1>10, WorkFields DEF Task
  <1>11. ASSUME NEW w \in Worker, PushSubsByAddress(w)
         PROVE  Typed'
    <2> DEFINE targets == {e \in Endpoint : subs[e] = work[w].addr}
    <2>0. [work[w] EXCEPT !.step = "push", !.targets = targets]
              = [step |-> "push", addr |-> work[w].addr, targets |-> targets]
      <3>1. work[w] \in Task /\ targets \in SUBSET Endpoint
        BY <1>11, WorkFields DEF PushSubsByAddress, NoTask
      <3>2. QED
        BY <3>1, TaskWith
    <2>1. Do(w, [step |-> "push", addr |-> work[w].addr, targets |-> targets])
      BY <1>11, <2>0 DEF PushSubsByAddress
    <2>2. [step |-> "push", addr |-> work[w].addr, targets |-> targets] \in Task
      BY <1>10, <1>11 DEF PushSubsByAddress
    <2>3. QED
      BY <1>1, <1>11, <2>1, <2>2 DEF PushSubsByAddress, Typed
  <1>12. ASSUME NEW w \in Worker, SendToSubs(w)
         PROVE  Typed'
    <2>1. Do(w, NoTask) \/ \E step \in {"push", "prune"}, targets \in SUBSET Endpoint :
             Do(w, [step |-> step, addr |-> work[w].addr, targets |-> targets])
      BY <1>12, WorkFields DEF SendToSubs
    <2>2. \E t \in Task \cup {NoTask} : Do(w, t)
      BY <1>10, <1>12, <2>1 DEF SendToSubs
    <2>3. QED
      BY <1>1, <1>12, <2>2 DEF SendToSubs, Typed
  <1>13. ASSUME NEW w \in Worker, Prune(w)
         PROVE  Typed'
    <2>0. PICK e \in work[w].targets :
             Do(w, [work[w] EXCEPT !.step = "push", !.targets = @ \ {e}])
      BY <1>13 DEF Prune
    <2> DEFINE targets == work[w].targets \ {e}
    <2>1. /\ targets \in SUBSET Endpoint
          /\ Do(w, [step |-> "push", addr |-> work[w].addr, targets |-> targets])
      <3>1. work[w] \in Task /\ work[w].targets \in SUBSET Endpoint
        BY <1>13, WorkFields DEF Prune, NoTask
      <3>2. [work[w] EXCEPT !.step = "push", !.targets = targets]
               = [step |-> "push", addr |-> work[w].addr, targets |-> targets]
        BY <3>1, TaskWith
      <3>3. QED
        BY <2>0, <3>1, <3>2
    <2>2. [step |-> "push", addr |-> work[w].addr, targets |-> targets] \in Task
      BY <1>10, <1>13, <2>1 DEF Prune
    <2>3. subs' \in [Endpoint -> Address \cup {NoOne}]
      BY <1>13 DEF Prune, Typed
    <2>4. QED
      BY <1>1, <1>13, <2>1, <2>2, <2>3 DEF Prune
  <1>14. CASE Devices
    BY <1>14 DEF Devices, UpsertPushSub, RemovePushSub, SetPushDND, Typed
  <1>15. ASSUME NEW e \in Endpoint, Expire(e)
         PROVE  Typed'
    BY <1>15 DEF Expire, Typed
  <1>16. CASE Tick
    <2>1. minute' \in 0 .. (Day - 1)
      BY <1>16, PushAssumption DEF Tick, Typed
    <2>2. pending' \in [Address -> (0 .. AggWindow) \cup {NoTimer, Fired}]
      BY <1>16, Bounds, LessTyped DEF Tick, Prompt, Typed
    <2>3. digestTimers' \in [Address -> Timer]
      <3>1. 2 * Day \in Nat
        BY Bounds
      <3>2. \A a \in Address : Less(digestTimers[a]) \in Timer
        BY <1>16, <3>1, LessTyped DEF Tick, Prompt, Typed, Timer
      <3>3. QED
        BY <1>16, <3>2 DEF Tick
    <2>4. quietFor' \in [Address -> 0 .. AggWindow]
      BY <1>16, PushAssumption DEF Tick, Typed
    <2>5. QED
      BY <1>16, <2>1, <2>2, <2>3, <2>4 DEF Tick, Typed
  <1>17. CASE Crash
    <2>1. digestTimers' \in [Address -> Timer]
      BY <1>17 DEF Crash, Timer
    <2>2. quietFor' \in [Address -> 0 .. AggWindow] /\ digestCount' \in [Address -> 0 .. MaxCount]
      BY <1>17, PushAssumption DEF Crash
    <2>3. QED
      BY <1>17, <2>1, <2>2 DEF Crash, Typed
  <1>18. CASE UNCHANGED vars
    BY <1>18 DEF vars, Typed
  <1>19. QED
    BY <1>2, <1>3, <1>4, <1>5, <1>6, <1>7, <1>8, <1>9, <1>11, <1>12, <1>13, <1>14, <1>15, <1>16,
       <1>17, <1>18 DEF Next, Fire, Work

-----------------------------------------------------------------------------
(* Arrivals are covered.                                                   *)

LEMMA DoIs ==
    ASSUME Typed, NEW w \in Worker, NEW t, Do(w, t)
    PROVE  work'[w] = t /\ \A v \in Worker : v # w => work'[v] = work[v]
  BY DEF Do, Typed

\* A flush stays under way while others work.
LEMMA FlushKept ==
    ASSUME Typed, NEW w \in Worker, NEW t, Do(w, t), NEW a, NEW step,
           Flushing(a, step), work[w] # TaskOf(step, a)
    PROVE  Flushing(a, step)'
  <1>1. PICK v \in Worker : work[v] = TaskOf(step, a)
    BY DEF Flushing
  <1>2. work'[v] = TaskOf(step, a)
    BY <1>1, DoIs
  <1>3. QED
    BY <1>2 DEF Flushing, TaskOf

\* A task started is under way.
LEMMA FlushStarted ==
    ASSUME Typed, NEW w \in Worker, NEW a, NEW step, Do(w, TaskOf(step, a))
    PROVE  Flushing(a, step)'
  <1>1. work'[w] = TaskOf(step, a)
    BY DoIs
  <1>2. QED
    BY <1>1 DEF Flushing, TaskOf

\* Timers and their marks are told apart.
LEMMA Apart ==
    /\ NoTimer # Fired /\ NoTimer \notin Nat /\ Fired \notin Nat
    /\ AggWindow # NoTimer /\ AggWindow # Fired
    /\ \A t : t # 0 /\ t \in Nat => Less(t) \in Nat
    /\ Less(NoTimer) = NoTimer /\ Less(Fired) = Fired
  <1>1. NoTimer # Fired /\ NoTimer \notin Nat /\ Fired \notin Nat
    BY PushAssumption
  <1>2. AggWindow # NoTimer /\ AggWindow # Fired
    BY <1>1, PushAssumption
  <1>3. ASSUME NEW t, t # 0, t \in Nat
        PROVE  Less(t) \in Nat
    BY <1>1, <1>3 DEF Less
  <1>4. Less(NoTimer) = NoTimer /\ Less(Fired) = Fired
    BY DEF Less
  <1>5. QED
    BY <1>1, <1>2, <1>3, <1>4

LEMMA CoveredInit == Init => Covered
  BY Apart, PushAssumption DEF Init, Covered

LEMMA CoveredNext ==
    ASSUME Typed, Covered, [Next]_vars
    PROVE  Covered'
  <1> USE DEF settings, window, digest
  <1>1. ASSUME NEW w \in Worker, NEW t, Do(w, t), UNCHANGED <<window, digestCount, digestTimers>>,
               work[w].step \notin {"flushAggregated", "flushDigest"}
        PROVE  Covered'
    <2>1. \A a \in Address : work[w] # TaskOf("flushAggregated", a) /\ work[w] # TaskOf("flushDigest", a)
      BY <1>1, TaskOfIs
    <2>2. QED
      BY <1>1, <2>1, FlushKept DEF Covered
  <1>2. ASSUME NEW a \in Address, Deliver(a)
        PROVE  Covered'
    <2>1. PICK w \in Worker : work[w] = NoTask /\ Do(w, TaskOf("check", a))
      BY <1>2, SpawnIs DEF Deliver
    <2>2. QED
      BY <1>1, <1>2, <2>1 DEF Deliver, NoTask
  <1>3. ASSUME NEW w \in Worker,
               NotifyRecipient(w) \/ PushSubsByAddress(w) \/ SendToSubs(w) \/ Prune(w)
        PROVE  Covered'
    <2>1. \E t : Do(w, t)
      BY <1>3 DEF NotifyRecipient, PushSubsByAddress, SendToSubs, Prune
    <2>2. QED
      BY <1>1, <1>3, <2>1 DEF NotifyRecipient, PushSubsByAddress, SendToSubs, Prune
  <1>4. ASSUME NEW w \in Worker, AggregateOrPush(w)
        PROVE  Covered'
    <2> DEFINE a == work[w].addr
    <2>1. a \in Address
      BY <1>4, WorkFields DEF AggregateOrPush, NoTask
    <2>2. \A b \in Address : work[w] # TaskOf("flushAggregated", b) /\ work[w] # TaskOf("flushDigest", b)
      BY <1>4, TaskOfIs DEF AggregateOrPush
    <2>3. ASSUME NEW b \in Address
          PROVE  /\ pending'[b] = pending[b] \/ (b = a /\ pending'[b] = AggWindow)
                 /\ b \in latestFrom' <=> b \in latestFrom \/ b = a
                 /\ b = a => pending'[b] # NoTimer
      BY <1>4, <2>1, Apart DEF AggregateOrPush, Typed
    <2>4. QED
      BY <1>4, <2>2, <2>3, FlushKept, Apart DEF AggregateOrPush, Covered
  <1>5. ASSUME NEW w \in Worker, EnqueueDigest(w)
        PROVE  Covered'
    <2> DEFINE a == work[w].addr
    <2>1. a \in Address
      BY <1>5, WorkFields DEF EnqueueDigest, NoTask
    <2>2. \A b \in Address : work[w] # TaskOf("flushAggregated", b) /\ work[w] # TaskOf("flushDigest", b)
      BY <1>5, TaskOfIs DEF EnqueueDigest
    <2>3. Wait(dnd[a]) # NoTimer /\ Wait(dnd[a]) # Fired
      <3>1. dnd[a] \in Quiet \cup {Off}
        BY <2>1 DEF Typed
      <3>2. Wait(dnd[a]) \in Nat
        BY <3>1, WaitIs, Bounds
      <3>3. QED
        BY <3>2, Apart
    <2>4. ASSUME NEW b \in Address
          PROVE  \/ b = a /\ digestTimers'[b] = Wait(dnd[a])
                 \/ b # a /\ digestTimers'[b] = digestTimers[b] /\ digestCount'[b] = digestCount[b]
      BY <1>5, <2>1 DEF EnqueueDigest, Typed
    <2>5. QED
      BY <1>5, <2>2, <2>3, <2>4, FlushKept DEF EnqueueDigest, Covered
  <1>6. ASSUME NEW a \in Address, FireAggregated(a)
        PROVE  Covered'
    <2>1. PICK w \in Worker : work[w] = NoTask /\ Do(w, TaskOf("flushAggregated", a))
      BY <1>6, SpawnIs DEF FireAggregated
    <2>2. \A b \in Address : work[w] # TaskOf("flushAggregated", b) /\ work[w] # TaskOf("flushDigest", b)
      BY <2>1, TaskOfIs
    <2>3. \A b \in Address : pending'[b] = IF b = a THEN Fired ELSE pending[b]
      BY <1>6 DEF FireAggregated, Typed
    <2>4. Flushing(a, "flushAggregated")'
      BY <2>1, FlushStarted
    <2>5. QED
      BY <1>6, <2>1, <2>2, <2>3, <2>4, FlushKept, Apart DEF FireAggregated, Covered
  <1>7. ASSUME NEW a \in Address, FireDigest(a)
        PROVE  Covered'
    <2>1. PICK w \in Worker : work[w] = NoTask /\ Do(w, TaskOf("flushDigest", a))
      BY <1>7, SpawnIs DEF FireDigest
    <2>2. \A b \in Address : work[w] # TaskOf("flushAggregated", b) /\ work[w] # TaskOf("flushDigest", b)
      BY <2>1, TaskOfIs
    <2>3. \A b \in Address : digestTimers'[b] = digestTimers[b] \/ (b = a /\ digestTimers'[b] = Fired)
      BY <1>7 DEF FireDigest, Typed
    <2>4. Flushing(a, "flushDigest")'
      BY <2>1, FlushStarted
    <2>5. QED
      BY <1>7, <2>1, <2>2, <2>3, <2>4, FlushKept, Apart DEF FireDigest, Covered
  <1>8. ASSUME NEW w \in Worker, FlushAggregated(w)
        PROVE  Covered'
    <2> DEFINE a == work[w].addr
    <2>1. \A b \in Address : /\ b # a => work[w] # TaskOf("flushAggregated", b)
                             /\ work[w] # TaskOf("flushDigest", b)
      BY <1>8, TaskOfIs DEF FlushAggregated
    <2>2. \A b \in Address : /\ pending'[b] = IF b = a THEN NoTimer ELSE pending[b]
                             /\ b \in latestFrom' <=> b \in latestFrom /\ b # a
      BY <1>8 DEF FlushAggregated, Typed
    <2>3. QED
      BY <1>8, <2>1, <2>2, FlushKept, Apart DEF FlushAggregated, Covered
  <1>9. ASSUME NEW w \in Worker, FlushDigest(w)
        PROVE  Covered'
    <2> DEFINE a == work[w].addr
    <2>1. \A b \in Address : /\ b # a => work[w] # TaskOf("flushDigest", b)
                             /\ work[w] # TaskOf("flushAggregated", b)
      BY <1>9, TaskOfIs DEF FlushDigest
    <2>2. \A b \in Address : /\ digestTimers'[b] = IF b = a THEN NoTimer ELSE digestTimers[b]
                             /\ digestCount'[b] = IF b = a THEN 0 ELSE digestCount[b]
      BY <1>9 DEF FlushDigest, Typed
    <2>3. \E t : Do(w, t)
      BY <1>9 DEF FlushDigest
    <2>4. QED
      BY <1>9, <2>1, <2>2, <2>3, FlushKept, Apart DEF FlushDigest, Covered
  <1>10. CASE Devices
    BY <1>10 DEF Devices, UpsertPushSub, RemovePushSub, SetPushDND, Covered, Flushing
  <1>11. ASSUME NEW e \in Endpoint, Expire(e)
         PROVE  Covered'
    BY <1>11 DEF Expire, Covered, Flushing
  <1>12. CASE Tick
    <2>1. ASSUME NEW t, t \in Nat \cup {NoTimer, Fired}, t # 0
          PROVE  (Less(t) = NoTimer <=> t = NoTimer) /\ (Less(t) = Fired <=> t = Fired)
      BY <2>1, Apart
    <2>2. \A a \in Address : /\ pending[a] # 0 /\ pending[a] \in Nat \cup {NoTimer, Fired}
                             /\ digestTimers[a] # 0 /\ digestTimers[a] \in Nat \cup {NoTimer, Fired}
      <3>1. \A a \in Address : pending[a] \in Nat \cup {NoTimer, Fired}
        BY Bounds DEF Typed
      <3>2. \A a \in Address : digestTimers[a] \in Nat \cup {NoTimer, Fired}
        BY Bounds DEF Typed, Timer
      <3>3. QED
        BY <1>12, <3>1, <3>2 DEF Tick, Prompt
    <2>3. \A a \in Address : pending'[a] = Less(pending[a]) /\ digestTimers'[a] = Less(digestTimers[a])
      BY <1>12 DEF Tick
    <2>4. \A a \in Address : \A step : Flushing(a, step)' = Flushing(a, step)
      BY <1>12 DEF Tick, Flushing
    <2>5. QED
      BY <1>12, <2>1, <2>2, <2>3, <2>4 DEF Tick, Covered
  <1>13. CASE Crash
    BY <1>13, Apart DEF Crash, Covered
  <1>14. CASE UNCHANGED vars
    BY <1>14 DEF vars, Covered, Flushing
  <1>15. QED
    BY <1>2, <1>3, <1>4, <1>5, <1>6, <1>7, <1>8, <1>9, <1>10, <1>11, <1>12, <1>13, <1>14
       DEF Next, Fire, Work

-----------------------------------------------------------------------------
(* Aggregated flushes are spaced.                                          *)

LEMMA SpacedInit == Init => Spaced
  <1> SUFFICES ASSUME Init PROVE Spaced
    OBVIOUS
  <1>1. \A a \in Address : pending[a] = NoTimer
    BY DEF Init
  <1>2. NoTimer # Fired /\ NoTimer \notin 0 .. AggWindow
    BY Apart
  <1>3. \A w \in Worker : work[w].step # "flushAggregated"
    BY DEF Init, NoTask
  <1>4. QED
    BY <1>1, <1>2, <1>3 DEF Spaced

LEMMA SpacedNext ==
    ASSUME Typed, Spaced, [Next]_vars
    PROVE  Spaced'
  <1> USE DEF settings, window, digest
  <1>1. ASSUME NEW w \in Worker, NEW t, Do(w, t), UNCHANGED <<pending, quietFor>>,
               t.step # "flushAggregated"
        PROVE  Spaced'
    <2>1. work'[w] = t /\ \A v \in Worker : v # w => work'[v] = work[v]
      BY <1>1, DoIs
    <2>2. QED
      BY <1>1, <2>1 DEF Spaced
  <1>2. ASSUME NEW a \in Address, Deliver(a)
        PROVE  Spaced'
    <2>1. PICK w \in Worker : Do(w, TaskOf("check", a))
      BY <1>2, SpawnIs DEF Deliver
    <2>2. QED
      BY <1>1, <1>2, <2>1, TaskOfIs DEF Deliver
  <1>3. ASSUME NEW w \in Worker, NotifyRecipient(w)
        PROVE  Spaced'
    <2>1. work[w].addr \in Address
      BY <1>3, WorkFields DEF NotifyRecipient, NoTask
    <2>2. QED
      BY <1>1, <1>3, <2>1, TaskOfIs DEF NotifyRecipient
  <1>4. ASSUME NEW w \in Worker, PushSubsByAddress(w) \/ SendToSubs(w) \/ Prune(w)
        PROVE  Spaced'
    <2>1. work[w] \in Task /\ work[w].step # "flushAggregated"
      BY <1>4, WorkFields DEF PushSubsByAddress, SendToSubs, Prune, NoTask
    <2>2. \A x : [work[w] EXCEPT !.targets = x].step = work[w].step
      BY <2>1 DEF Task
    <2>3. /\ [work[w] EXCEPT !.step = "prune"].step = "prune"
          /\ \A x : [work[w] EXCEPT !.step = "push", !.targets = x].step = "push"
      BY <2>1 DEF Task
    <2>4. \E t : Do(w, t) /\ t.step # "flushAggregated"
      <3>1. CASE PushSubsByAddress(w)
        BY <2>3, <3>1 DEF PushSubsByAddress
      <3>2. CASE SendToSubs(w)
        <4>1. NoTask.step # "flushAggregated"
          BY DEF NoTask
        <4>2. CASE Do(w, NoTask)
          BY <4>1, <4>2
        <4>3. ASSUME NEW e \in work[w].targets,
                     Do(w, IF e \in gone THEN [work[w] EXCEPT !.step = "prune"]
                                         ELSE [work[w] EXCEPT !.targets = @ \ {e}])
              PROVE  \E t : Do(w, t) /\ t.step # "flushAggregated"
          <5>1. CASE e \in gone
            BY <2>3, <4>3, <5>1
          <5>2. CASE e \notin gone
            BY <2>1, <2>2, <4>3, <5>2
          <5>3. QED
            BY <5>1, <5>2
        <4>4. QED
          BY <3>2, <4>2, <4>3 DEF SendToSubs
      <3>3. CASE Prune(w)
        BY <2>3, <3>3 DEF Prune
      <3>4. QED
        BY <1>4, <3>1, <3>2, <3>3
    <2>5. QED
      BY <1>1, <1>4, <2>4 DEF PushSubsByAddress, SendToSubs, Prune
  <1>5. ASSUME NEW w \in Worker, AggregateOrPush(w)
        PROVE  Spaced'
    <2> DEFINE a == work[w].addr
    <2>1. a \in Address
      BY <1>5, WorkFields DEF AggregateOrPush, NoTask
    <2>2. \A b \in Address : \/ pending'[b] = pending[b]
                             \/ pending[b] = NoTimer /\ pending'[b] = AggWindow
      BY <1>5, <2>1 DEF AggregateOrPush, Typed
    <2>3. /\ work'[w] = NoTask /\ \A v \in Worker : v # w => work'[v] = work[v]
      BY <1>5, DoIs DEF AggregateOrPush
    <2>4. \A b \in Address : /\ quietFor'[b] = quietFor[b] /\ quietFor[b] \in Nat
                             /\ AggWindow <= AggWindow + quietFor[b]
      BY <1>5, Bounds DEF AggregateOrPush, Typed
    <2>5. \A b \in Address : /\ pending'[b] \in 0 .. AggWindow => AggWindow <= pending'[b] + quietFor'[b]
                             /\ pending'[b] = Fired => quietFor'[b] = AggWindow
      BY <2>2, <2>4, Apart DEF Spaced
    <2>6. ASSUME NEW v \in Worker, work'[v].step = "flushAggregated"
          PROVE  /\ pending'[work'[v].addr] = Fired
                 /\ \A u \in Worker : u # v /\ work'[u].step = "flushAggregated" =>
                       work'[u].addr # work'[v].addr
      <3>1. v # w /\ work'[v] = work[v]
        BY <2>3, <2>6 DEF NoTask
      <3>2. work[v].addr \in Address
        BY <2>6, <3>1, WorkFields DEF NoTask
      <3>3. QED
        BY <2>2, <2>3, <2>6, <3>1, <3>2, Apart DEF Spaced, NoTask
    <2>7. QED
      BY <2>5, <2>6 DEF Spaced
  <1>6. ASSUME NEW w \in Worker, EnqueueDigest(w)
        PROVE  Spaced'
    BY <1>1, <1>6 DEF EnqueueDigest, NoTask
  <1>7. ASSUME NEW a \in Address, FireAggregated(a)
        PROVE  Spaced'
    <2>1. PICK w \in Worker : work[w] = NoTask /\ Do(w, TaskOf("flushAggregated", a))
      BY <1>7, SpawnIs DEF FireAggregated
    <2>2. \A b \in Address : pending'[b] = IF b = a THEN Fired ELSE pending[b]
      BY <1>7 DEF FireAggregated, Typed
    <2>3. /\ work'[w] = TaskOf("flushAggregated", a)
          /\ \A v \in Worker : v # w => work'[v] = work[v]
      BY <2>1, DoIs
    <2>4. quietFor'[a] = AggWindow
      <3>1. quietFor[a] \in 0 .. AggWindow /\ AggWindow <= 0 + quietFor[a]
        BY <1>7, Bounds DEF FireAggregated, Spaced, Typed
      <3>2. QED
        BY <1>7, <3>1, Bounds DEF FireAggregated
    <2>5. \A b \in Address : /\ pending'[b] \in 0 .. AggWindow => AggWindow <= pending'[b] + quietFor'[b]
                             /\ pending'[b] = Fired => quietFor'[b] = AggWindow
      BY <1>7, <2>2, <2>4, Apart DEF FireAggregated, Spaced
    <2>6. \A v \in Worker : work[v].step = "flushAggregated" => work[v].addr # a /\ work[v].addr \in Address
      <3>1. pending[a] # Fired
        BY <1>7, Apart DEF FireAggregated
      <3>2. ASSUME NEW v \in Worker, work[v].step = "flushAggregated"
            PROVE  work[v].addr # a /\ work[v].addr \in Address
        <4>1. pending[work[v].addr] = Fired
          BY <3>2 DEF Spaced
        <4>2. work[v].addr \in Address
          BY <3>2, WorkFields DEF NoTask
        <4>3. QED
          BY <3>1, <4>1, <4>2
      <3>3. QED
        BY <3>2
    <2>7. ASSUME NEW v \in Worker, work'[v].step = "flushAggregated"
          PROVE  /\ pending'[work'[v].addr] = Fired
                 /\ \A u \in Worker : u # v /\ work'[u].step = "flushAggregated" =>
                       work'[u].addr # work'[v].addr
      <3>1. work'[w].addr = a
        BY <2>3, TaskOfIs
      <3>2. QED
        BY <2>2, <2>3, <2>6, <2>7, <3>1 DEF Spaced
    <2>8. QED
      BY <2>5, <2>7 DEF Spaced
  <1>8. ASSUME NEW a \in Address, FireDigest(a)
        PROVE  Spaced'
    <2>1. PICK w \in Worker : Do(w, TaskOf("flushDigest", a))
      BY <1>8, SpawnIs DEF FireDigest
    <2>2. QED
      BY <1>1, <1>8, <2>1, TaskOfIs DEF FireDigest
  <1>9. ASSUME NEW w \in Worker, FlushAggregated(w)
        PROVE  Spaced'
    <2> DEFINE a == work[w].addr
    <2>1. a \in Address
      BY <1>9, WorkFields DEF FlushAggregated, NoTask
    <2>2. \A b \in Address : /\ pending'[b] = IF b = a THEN NoTimer ELSE pending[b]
                             /\ b # a => quietFor'[b] = quietFor[b]
      BY <1>9 DEF FlushAggregated, Typed
    <2>3. /\ work'[w] = TaskOf("list", a) /\ \A v \in Worker : v # w => work'[v] = work[v]
      BY <1>9, DoIs DEF FlushAggregated
    <2>4. \A b \in Address : /\ pending'[b] \in 0 .. AggWindow => AggWindow <= pending'[b] + quietFor'[b]
                             /\ pending'[b] = Fired => quietFor'[b] = AggWindow
      BY <2>2, Apart DEF Spaced
    <2>5. ASSUME NEW v \in Worker, work'[v].step = "flushAggregated"
          PROVE  /\ pending'[work'[v].addr] = Fired
                 /\ \A u \in Worker : u # v /\ work'[u].step = "flushAggregated" =>
                       work'[u].addr # work'[v].addr
      <3>1. \A u \in Worker : work'[u].step = "flushAggregated" => u # w /\ work'[u] = work[u]
        BY <2>1, <2>3, TaskOfIs
      <3>2. work[v].addr # a /\ work[v].addr \in Address
        BY <1>9, <2>5, <3>1, WorkFields DEF FlushAggregated, Spaced, NoTask
      <3>3. QED
        BY <2>2, <2>5, <3>1, <3>2 DEF Spaced
    <2>6. QED
      BY <2>4, <2>5 DEF Spaced
  <1>10. ASSUME NEW w \in Worker, FlushDigest(w)
         PROVE  Spaced'
    <2>1. work[w].addr \in Address
      BY <1>10, WorkFields DEF FlushDigest, NoTask
    <2>2. \E t : Do(w, t) /\ t.step # "flushAggregated"
      BY <1>10, <2>1, TaskOfIs DEF FlushDigest, NoTask
    <2>3. QED
      BY <1>1, <1>10, <2>2 DEF FlushDigest
  <1>11. CASE Devices
    BY <1>11 DEF Devices, UpsertPushSub, RemovePushSub, SetPushDND, Spaced
  <1>12. ASSUME NEW e \in Endpoint, Expire(e)
         PROVE  Spaced'
    BY <1>12 DEF Expire, Spaced
  <1>13. CASE Tick
    <2>1. \A a \in Address : /\ pending[a] # 0 /\ pending'[a] = Less(pending[a])
                             /\ quietFor'[a] = IF quietFor[a] < AggWindow THEN quietFor[a] + 1
                                               ELSE AggWindow
      BY <1>13 DEF Tick, Prompt
    <2>2. ASSUME NEW a \in Address
          PROVE  /\ pending'[a] \in 0 .. AggWindow => AggWindow <= pending'[a] + quietFor'[a]
                 /\ pending'[a] = Fired => quietFor'[a] = AggWindow
      <3>1. quietFor[a] \in 0 .. AggWindow
        BY DEF Typed
      <3>2. pending[a] \in (0 .. AggWindow) \cup {NoTimer, Fired}
        BY DEF Typed
      <3>3. CASE pending[a] = NoTimer
        BY <2>1, <3>3, Apart
      <3>4. CASE pending[a] = Fired
        BY <2>1, <3>4, Apart, Bounds DEF Spaced
      <3>5. CASE pending[a] \in 0 .. AggWindow
        <4>1. pending'[a] = pending[a] - 1
          BY <2>1, <3>5, Apart DEF Less
        <4>2. AggWindow <= pending[a] + quietFor[a]
          BY <3>5 DEF Spaced
        <4>3. pending'[a] \in Nat
          BY <2>1, <3>5, <4>1
        <4>4. AggWindow <= pending'[a] + quietFor'[a]
          BY <2>1, <3>1, <3>5, <4>1, <4>2, Bounds
        <4>5. QED
          BY <4>3, <4>4, Apart
      <3>6. QED
        BY <3>2, <3>3, <3>4, <3>5
    <2>3. \A w \in Worker : work[w].step # "flushAggregated" /\ work'[w] = work[w]
      BY <1>13 DEF Tick, Prompt
    <2>4. QED
      BY <2>2, <2>3 DEF Spaced
  <1>14. CASE Crash
    <2>1. \A a \in Address : pending'[a] = NoTimer
      BY <1>14 DEF Crash
    <2>2. \A w \in Worker : work'[w].step # "flushAggregated"
      BY <1>14 DEF Crash, NoTask
    <2>3. QED
      BY <2>1, <2>2, Apart DEF Spaced
  <1>15. CASE UNCHANGED vars
    BY <1>15 DEF vars, Spaced
  <1>16. QED
    BY <1>2, <1>3, <1>4, <1>5, <1>6, <1>7, <1>8, <1>9, <1>10, <1>11, <1>12, <1>13, <1>14, <1>15
       DEF Next, Fire, Work

-----------------------------------------------------------------------------
(* What pushes promise.                                                    *)

LEMMA PushInvariant == Spec => []PushInv
  <1>1. Init => PushInv
    BY TypedInit, CoveredInit, SpacedInit DEF PushInv
  <1>2. PushInv /\ [Next]_vars => PushInv'
    BY TypedNext, CoveredNext, SpacedNext DEF PushInv
  <1>3. QED
    BY <1>1, <1>2, PTL DEF Spec

\* A timer that left the map while it was armed runs out like any other.
LEMMA StaleNext ==
    ASSUME Typed, stale \in SUBSET (Address \X (0 .. (2 * Day))), [Next]_vars
    PROVE  stale' \in SUBSET (Address \X (0 .. (2 * Day)))
  <1>1. CASE UNCHANGED stale
    BY <1>1
  <1>2. ASSUME NEW a \in Address, FireDigest(a)
        PROVE  stale' \in SUBSET (Address \X (0 .. (2 * Day)))
    BY <1>2 DEF FireDigest
  <1>3. ASSUME NEW w \in Worker, FlushDigest(w)
        PROVE  stale' \in SUBSET (Address \X (0 .. (2 * Day)))
    <2> DEFINE a == work[w].addr
               t == digestTimers[a]
    <2>1. a \in Address /\ t \in Timer
      <3>1. work[w] # NoTask
        BY <1>3 DEF FlushDigest, NoTask
      <3>2. QED
        BY <3>1, WorkFields DEF Typed
    <2>2. stale' = stale \cup ({<<a, t>>} \ {<<a, NoTimer>>, <<a, Fired>>})
      BY <1>3 DEF FlushDigest
    <2> HIDE DEF a, t
    <2>3. t \notin {NoTimer, Fired} => <<a, t>> \in Address \X (0 .. (2 * Day))
      BY <2>1 DEF Timer
    <2>4. QED
      BY <2>2, <2>3
  <1>4. CASE Tick
    <2>1. ASSUME NEW s \in stale
          PROVE  <<s[1], s[2] - 1>> \in Address \X (0 .. (2 * Day))
      <3>1. PICK a \in Address, n \in 0 .. 2 * Day : s = <<a, n>>
        OBVIOUS
      <3>2. n # 0
        BY <1>4, <3>1 DEF Tick, Prompt
      <3>3. n - 1 \in 0 .. 2 * Day /\ 2 * Day \in Nat
        BY <3>2, Bounds
      <3>4. QED
        BY <3>1, <3>3
    <2>2. QED
      BY <1>4, <2>1 DEF Tick
  <1>5. CASE Crash
    BY <1>5 DEF Crash
  <1>6. QED
    <2>1. ASSUME NEW a \in Address, Deliver(a) \/ FireAggregated(a)
          PROVE  UNCHANGED stale
      BY <2>1 DEF Deliver, FireAggregated, digest
    <2>2. ASSUME NEW w \in Worker, Work(w), ~FlushDigest(w)
          PROVE  UNCHANGED stale
      BY <2>2 DEF Work, NotifyRecipient, AggregateOrPush, EnqueueDigest, FlushAggregated,
                  PushSubsByAddress, SendToSubs, Prune, digest
    <2>3. CASE Devices \/ \E e \in Endpoint : Expire(e)
      BY <2>3 DEF Devices, UpsertPushSub, RemovePushSub, SetPushDND, Expire, digest
    <2>4. CASE UNCHANGED vars
      BY <2>4 DEF vars, digest
    <2>5. QED
      BY <1>1, <1>2, <1>3, <1>4, <1>5, <2>1, <2>2, <2>3, <2>4 DEF Next, Fire

\* Windows, digests and timers keep their types; a digest, once counted, never
\* waits beyond the end of the next day, and a timer that was overwritten runs
\* out rather than below zero (enqueueDigest, flushDigest).
THEOREM PushTypeCorrect == Spec => []TypeOK
  <1> DEFINE StaleTyped == stale \in SUBSET (Address \X (0 .. (2 * Day)))
  <1>1. Init => StaleTyped
    BY DEF Init
  <1>2. PushInv /\ StaleTyped /\ [Next]_vars => StaleTyped'
    BY StaleNext DEF PushInv
  <1>3. PushInv /\ StaleTyped => TypeOK
    <2> SUFFICES ASSUME PushInv, StaleTyped PROVE TypeOK
      OBVIOUS
    <2>1. QED
      BY DEF PushInv, Typed, TypeOK
  <1>4. QED
    BY <1>1, <1>2, <1>3, PushInvariant, PTL DEF Spec

\* No arrival is forgotten while the server lives: one that waits for the end
\* of its window (pd.latestFrom) or of the quiet hours (pd.digestCount) has a
\* timer that is armed or a flush under way, for any number of goroutines,
\* addresses and minutes (aggregateOrPush, enqueueDigest, the two flushes).
THEOREM ArrivalsStayCovered == Spec => []ArrivalsCovered
  <1>1. PushInv => ArrivalsCovered
    <2> SUFFICES ASSUME PushInv PROVE ArrivalsCovered
      OBVIOUS
    <2>1. \A a \in Address :
             /\ pending[a] # NoTimer => Armed(pending[a]) \/ Flushing(a, "flushAggregated")
             /\ digestTimers[a] # NoTimer => Armed(digestTimers[a]) \/ Flushing(a, "flushDigest")
      BY DEF PushInv, Covered, Armed
    <2>2. QED
      BY <2>1 DEF PushInv, Covered, ArrivalsCovered
  <1>2. QED
    BY <1>1, PushInvariant, PTL

\* An address leaves pd.latestFrom only by flushAggregated, a whole
\* pushAggWindow after the flush before, unless the process dies.
THEOREM FlushesAreSpaced == Spec => AggregationSpacing
  <1> DEFINE Step == \A a \in Address : a \in latestFrom /\ a \notin latestFrom' =>
                        quietFor[a] = AggWindow \/ \A w \in Worker : work'[w] = NoTask
  <1>1. PushInv /\ [Next]_vars => [Step]_vars
    <2> SUFFICES ASSUME PushInv, [Next]_vars, NEW a \in Address, a \in latestFrom, a \notin latestFrom'
                 PROVE  quietFor[a] = AggWindow \/ \A w \in Worker : work'[w] = NoTask
      OBVIOUS
    <2>1. ASSUME NEW w \in Worker, FlushAggregated(w)
          PROVE  quietFor[a] = AggWindow
      <3>1. work[w].addr = a
        BY <2>1 DEF FlushAggregated
      <3>2. pending[a] = Fired
        BY <2>1, <3>1 DEF FlushAggregated, PushInv, Spaced
      <3>3. QED
        BY <3>2 DEF PushInv, Spaced
    <2>2. CASE Crash
      BY <2>2 DEF Crash
    <2>3. CASE Tick \/ Devices \/ UNCHANGED vars
      BY <2>3 DEF Tick, Devices, UpsertPushSub, RemovePushSub, SetPushDND, vars, window
    <2>4. ASSUME NEW b \in Address, Deliver(b) \/ Fire(b)
          PROVE  FALSE
      BY <2>4 DEF Deliver, Fire, FireAggregated, FireDigest, window
    <2>5. ASSUME NEW w \in Worker, Work(w), ~FlushAggregated(w)
          PROVE  FALSE
      BY <2>5 DEF Work, NotifyRecipient, AggregateOrPush, EnqueueDigest, FlushDigest,
                  PushSubsByAddress, SendToSubs, Prune, window
    <2>6. ASSUME NEW e \in Endpoint, Expire(e)
          PROVE  FALSE
      BY <2>6 DEF Expire, window
    <2>7. QED
      BY <2>1, <2>2, <2>3, <2>4, <2>5, <2>6 DEF Next
  <1>2. QED
    BY <1>1, PushInvariant, PTL DEF Spec, AggregationSpacing

\* A subscription changes hands only by being removed first (UpsertPushSub
\* refuses an endpoint of another), and a push prunes only a dropped endpoint
\* that is still of the account it is for (RemovePushSub compares the owner).
THEOREM OwnersKeepEndpoints == Spec => EndpointsKeepOwner
  <1> DEFINE Step == \A e \in Endpoint : (subs[e] # NoOne /\ subs'[e] # subs[e]) =>
                /\ subs'[e] = NoOne
                /\ \A w \in Worker : work'[w] # work[w] => e \in gone /\ subs[e] = work[w].addr
  <1>1. PushInv /\ [Next]_vars => [Step]_vars
    <2> SUFFICES ASSUME PushInv, [Next]_vars, NEW e \in Endpoint, subs[e] # NoOne, subs'[e] # subs[e]
                 PROVE  /\ subs'[e] = NoOne
                        /\ \A w \in Worker : work'[w] # work[w] => e \in gone /\ subs[e] = work[w].addr
      OBVIOUS
    <2>1. ASSUME NEW w \in Worker, Prune(w)
          PROVE  /\ subs'[e] = NoOne
                 /\ \A v \in Worker : work'[v] # work[v] => e \in gone /\ subs[e] = work[v].addr
      <3>1. PICK d \in work[w].targets \cap gone :
               /\ subs' = [subs EXCEPT ![d] = IF @ = work[w].addr THEN NoOne ELSE @]
               /\ Do(w, [work[w] EXCEPT !.step = "push", !.targets = @ \ {d}])
        BY <2>1 DEF Prune
      <3>2. e = d /\ subs[e] = work[w].addr /\ subs'[e] = NoOne
        BY <3>1 DEF PushInv, Typed
      <3>3. \A v \in Worker : v # w => work'[v] = work[v]
        BY <3>1, DoIs DEF PushInv
      <3>4. QED
        BY <3>1, <3>2, <3>3
    <2>2. CASE Devices
      BY <2>2 DEF Devices, UpsertPushSub, RemovePushSub, SetPushDND, PushInv, Typed
    <2>3. CASE Tick \/ Crash \/ UNCHANGED vars
      BY <2>3 DEF Tick, Crash, vars, settings
    <2>4. ASSUME NEW b \in Address, Deliver(b) \/ Fire(b)
          PROVE  FALSE
      BY <2>4 DEF Deliver, Fire, FireAggregated, FireDigest, settings
    <2>5. ASSUME NEW w \in Worker, Work(w), ~Prune(w)
          PROVE  FALSE
      BY <2>5 DEF Work, NotifyRecipient, AggregateOrPush, EnqueueDigest, FlushAggregated,
                  FlushDigest, PushSubsByAddress, SendToSubs, settings
    <2>6. ASSUME NEW d \in Endpoint, Expire(d)
          PROVE  FALSE
      BY <2>6 DEF Expire, settings
    <2>7. QED
      BY <2>1, <2>2, <2>3, <2>4, <2>5, <2>6 DEF Next
  <1>2. QED
    BY <1>1, PushInvariant, PTL DEF Spec, EndpointsKeepOwner

=============================================================================
