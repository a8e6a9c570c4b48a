--------------------------- MODULE StoreProofs ---------------------------
(***************************************************************************)
(* TLAPS proofs about the mail store (MailStore) and what is composed with *)
(* it: attachments (Files), and superiors, their lists and their overviews *)
(* (Subordinates and Overview), for any set of addresses, ids, clients and *)
(* envelopes.                                                              *)
(***************************************************************************)
EXTENDS Files, Overview, NumberSets

USE DEF Key, Idle, Goto, Start, Hold, Running, Answered

-----------------------------------------------------------------------------
(* Lemmas about the operators of the model.                                *)

\* Lowercasing yields an account key.
LEMMA LowerKey == \A a \in Address : Lower[a] \in Key
  BY LowerAssumption

\* The number of ids in an index fits a Nat: ids are finitely many.
LEMMA IdsCountable == \A S \in SUBSET MsgId : IsFiniteSet(S) /\ Cardinality(S) \in Nat
  BY IdAssumption, FS_Subset, FS_CardinalityType

\* A subset of an index is no larger than the index.
LEMMA IdsMonotone ==
    ASSUME NEW S \in SUBSET MsgId, NEW T \in SUBSET S
    PROVE  Cardinality(T) <= Cardinality(S)
  BY IdsCountable, FS_Subset

\* Everything a new request holds is well typed.
LEMMA NewRequestType ==
    ASSUME NEW who \in Address, NEW id \in MsgId \cup {NoMsg},
           NEW msg \in Message, NEW offset \in Nat
    PROVE  NewRequest(who, id, msg, offset) \in Request
  BY DEF NewRequest, Request

LEMMA NoMessageYetType == \A who \in Address : NoMessageYet(who) \in Message
  BY DEF NoMessageYet, Message

LEMMA NoRequestType == NoRequest \in Request
  <1>1. (CHOOSE x \in Address : TRUE) \in Address
    BY LowerAssumption
  <1>2. QED
    BY <1>1, NewRequestType, NoMessageYetType DEF NoRequest

-----------------------------------------------------------------------------
(* Type correctness.                                                       *)

LEMMA DeliverType ==
    ASSUME TypeOK, NEW id \in MsgId, NEW msg \in Message, Deliver(id, msg)
    PROVE  /\ accounts' \in SUBSET Key
           /\ messages' \in [MsgId -> Message \cup {NoMsg}]
           /\ inbox' \in [Key -> SUBSET MsgId]
           /\ sent' \in [Key -> SUBSET MsgId]
           /\ unread' \in [Key -> SUBSET MsgId]
           /\ lastRead' \in [Key -> Nat]
  BY DEF TypeOK, Deliver

\* A request that goes on to a transaction other than a send's.
LEMMA HoldType ==
    ASSUME TypeOK, NEW c \in Client, NEW r \in Request,
           NEW next \in (Running \cup Answered \cup {"idle"}) \ {"send", "sent", "sendFailed"},
           Goto(c, next), Hold(c, r)
    PROVE  /\ pc' \in [Client -> Running \cup Answered \cup {"idle"}]
           /\ req' \in [Client -> Request]
           /\ \A d \in Sending' : req'[d].id \in MsgId
  BY DEF TypeOK, Sending

LEMMA TypeInit == Init => TypeOK
  BY NoRequestType DEF Init, TypeOK, Sending

\* Each transaction keeps every variable within its type.
LEMMA TypeStep == TypeOK /\ [Next]_vars => TypeOK'
  <1> SUFFICES ASSUME TypeOK, [Next]_vars
               PROVE  TypeOK'
    OBVIOUS
  <1> USE LowerKey, IdsCountable DEF TypeOK, Sending
  <1>1. ASSUME NEW name \in Address, CreateAccount(name)
        PROVE  TypeOK'
    BY <1>1 DEF CreateAccount
  <1>2. ASSUME NEW c \in Client, NEW next \in Running, NEW r \in Request,
               next = "send" => r.id \in MsgId, Start(c, next, r)
        PROVE  TypeOK'
    BY <1>2 DEF storeVars
  <1>3. ASSUME NEW c \in Client, Arrive(c)
        PROVE  TypeOK'
    <2> PICK who \in Caller :
          \/ \E env \in Envelope, parent \in MsgId \cup {NoMsg}, id \in FreshId :
                StartSend(c, who, env, parent, id)
          \/ \E id \in MsgId : StartGet(c, who, id)
          \/ StartMarkAll(c, who)
          \/ \E offset \in Offsets : StartInbox(c, who, offset)
      BY <1>3 DEF Arrive
    <2> who \in Address
      BY DEF Caller
    <2>1. ASSUME NEW env \in Envelope, NEW parent \in MsgId \cup {NoMsg},
                 NEW id \in FreshId, StartSend(c, who, env, parent, id)
          PROVE  TypeOK'
      <3>1. [from |-> who, to |-> env.to, cc |-> env.cc, inReplyTo |-> parent] \in Message
        BY InputAssumption DEF Message
      <3>2. id \in MsgId
        BY DEF FreshId
      <3>3. NewRequest(who, id, [from |-> who, to |-> env.to, cc |-> env.cc,
                                 inReplyTo |-> parent], 0) \in Request
        BY <3>1, <3>2, NewRequestType
      <3>4. QED
        BY <1>2, <2>1, <3>2, <3>3 DEF StartSend, NewRequest
    <2>2. ASSUME NEW id \in MsgId, StartGet(c, who, id)
          PROVE  TypeOK'
      BY <1>2, <2>2, NewRequestType, NoMessageYetType DEF StartGet
    <2>3. CASE StartMarkAll(c, who)
      BY <1>2, <2>3, NewRequestType, NoMessageYetType DEF StartMarkAll
    <2>4. ASSUME NEW offset \in Offsets, StartInbox(c, who, offset)
          PROVE  TypeOK'
      BY <1>2, <2>4, NewRequestType, NoMessageYetType, InputAssumption DEF StartInbox
    <2>5. QED
      BY <2>1, <2>2, <2>3, <2>4
  <1>4. ASSUME NEW c \in Client, Step(c)
        PROVE  TypeOK'
    <2> USE DEF Request, storeVars
    <2>1. CASE SendNoParent(c)
      BY <2>1 DEF SendNoParent
    <2>2. CASE SendCommit(c)
      <3>1. req[c].msg \in Message
        OBVIOUS
      <3>2. req[c].id \in MsgId
        BY <2>2 DEF SendCommit
      <3>3. Deliver(req[c].id, req[c].msg)
        BY <2>2 DEF SendCommit
      <3>4. QED
        BY <2>2, <3>1, <3>2, <3>3, DeliverType DEF SendCommit
    <2>3. CASE GetVisible(c)
      BY <2>3 DEF GetVisible
    <2>4. CASE GetBody(c)
      <3>1. CASE req[c].id \in Stored
        <4> DEFINE r == [req[c] EXCEPT !.msg = messages[req[c].id]]
        <4>1. r \in Request
          BY <3>1 DEF Stored
        <4> HIDE DEF r
        <4>2. Goto(c, "markView") /\ Hold(c, r)
          BY <2>4, <3>1 DEF GetBody, r
        <4>3. QED
          BY <2>4, <4>1, <4>2, HoldType DEF GetBody
      <3>2. CASE req[c].id \notin Stored
        BY <2>4, <3>2 DEF GetBody
      <3>3. QED
        BY <3>1, <3>2
    <2>5. CASE MarkReadView(c)
      BY <2>5 DEF MarkReadView
    <2>6. CASE MarkReadUpdate(c)
      BY <2>6 DEF MarkReadUpdate
    <2>7. CASE MarkAllCollect(c)
      <3> DEFINE r == [req[c] EXCEPT !.ids = unread[Lower[req[c].who]],
                            !.count = Cardinality(unread[Lower[req[c].who]])]
      <3>1. r \in Request
        OBVIOUS
      <3> HIDE DEF r
      <3>2. /\ Hold(c, r)
            /\ \E next \in (Running \cup Answered \cup {"idle"}) \ {"send", "sent", "sendFailed"} :
                 Goto(c, next)
        BY <2>7 DEF MarkAllCollect, r
      <3>3. QED
        BY <2>7, <3>1, <3>2, HoldType DEF MarkAllCollect
    <2>8. CASE MarkAllClear(c)
      <3> DEFINE r == [req[c] EXCEPT !.cleared = unread[Lower[req[c].who]] \cap req[c].ids]
      <3>1. r \in Request
        OBVIOUS
      <3> HIDE DEF r
      <3>2. /\ Hold(c, r)
            /\ \E next \in (Running \cup Answered \cup {"idle"}) \ {"send", "sent", "sendFailed"} :
                 Goto(c, next)
        BY <2>8 DEF MarkAllClear, r
      <3>3. QED
        BY <2>8, <3>1, <3>2, HoldType DEF MarkAllClear
    <2>9. CASE ReadIndexIds(c)
      <3> DEFINE r == [req[c] EXCEPT !.ids = Page(inbox[Lower[req[c].who]], req[c].offset)]
      <3>1. r \in Request
        BY DEF Page
      <3> HIDE DEF r
      <3>2. /\ Hold(c, r)
            /\ \E next \in (Running \cup Answered \cup {"idle"}) \ {"send", "sent", "sendFailed"} :
                 Goto(c, next)
        BY <2>9 DEF ReadIndexIds, r
      <3>3. QED
        BY <2>9, <3>1, <3>2, HoldType DEF ReadIndexIds
    <2>10. CASE ReadIndexBodies(c)
      <3> DEFINE r == [req[c] EXCEPT !.ids = req[c].ids \cap Stored]
      <3>1. r \in Request
        OBVIOUS
      <3> HIDE DEF r
      <3>2. /\ Hold(c, r)
            /\ \E next \in (Running \cup Answered \cup {"idle"}) \ {"send", "sent", "sendFailed"} :
                 Goto(c, next)
        BY <2>10 DEF ReadIndexBodies, r
      <3>3. QED
        BY <2>10, <3>1, <3>2, HoldType DEF ReadIndexBodies
    <2>11. CASE CountUnread(c)
      <3> DEFINE r == [req[c] EXCEPT !.unreadCount = Cardinality(unread[Lower[req[c].who]])]
      <3>1. r \in Request
        OBVIOUS
      <3> HIDE DEF r
      <3>2. /\ Hold(c, r)
            /\ \E next \in (Running \cup Answered \cup {"idle"}) \ {"send", "sent", "sendFailed"} :
                 Goto(c, next)
        BY <2>11 DEF CountUnread, r
      <3>3. QED
        BY <2>11, <3>1, <3>2, HoldType DEF CountUnread
    <2>12. CASE CountInbox(c)
      <3> DEFINE r == [req[c] EXCEPT !.count = Cardinality(inbox[Lower[req[c].who]])]
      <3>1. r \in Request
        OBVIOUS
      <3> HIDE DEF r
      <3>2. /\ Hold(c, r)
            /\ \E next \in (Running \cup Answered \cup {"idle"}) \ {"send", "sent", "sendFailed"} :
                 Goto(c, next)
        BY <2>12 DEF CountInbox, r
      <3>3. QED
        BY <2>12, <3>1, <3>2, HoldType DEF CountInbox
    <2>13. CASE TouchLastReadPull(c)
      BY <2>13 DEF TouchLastReadPull
    <2>14. CASE Respond(c)
      BY <2>14, NoRequestType DEF Respond
    <2>15. QED
      BY <1>4, <2>1, <2>2, <2>3, <2>4, <2>5, <2>6, <2>7, <2>8, <2>9, <2>10,
         <2>11, <2>12, <2>13, <2>14 DEF Step
  <1>5. CASE Tick \/ Crash
    BY <1>5, NoRequestType DEF Tick, Crash, storeVars
  <1>6. CASE UNCHANGED vars
    BY <1>6 DEF vars
  <1>7. QED
    BY <1>1, <1>3, <1>4, <1>5, <1>6 DEF Next

\* Type correctness of the mail store.
THEOREM TypeCorrect == Spec => []TypeOK
  BY TypeInit, TypeStep, PTL DEF Spec

-----------------------------------------------------------------------------
(* The store.  Only SendCommit touches bodies and references, and it does  *)
(* so behind the check that its id is free.                                *)

\* A step that leaves bodies and references alone and adds no marker.
NoDelivery ==
    /\ UNCHANGED <<messages, inbox, sent>>
    /\ \A a \in Key : unread'[a] \subseteq unread[a]
    /\ accounts \subseteq accounts'

LEMMA StepShape ==
    ASSUME TypeOK, [Next]_vars
    PROVE  NoDelivery \/ \E c \in Client : SendCommit(c)
  <1> USE LowerKey DEF NoDelivery, TypeOK
  <1>1. ASSUME NEW name \in Address, CreateAccount(name)
        PROVE  NoDelivery
    BY <1>1 DEF CreateAccount
  <1>2. ASSUME NEW c \in Client, Arrive(c)
        PROVE  NoDelivery
    BY <1>2 DEF Arrive, StartSend, StartGet, StartMarkAll, StartInbox, storeVars
  <1>3. ASSUME NEW c \in Client, Step(c), ~SendCommit(c)
        PROVE  NoDelivery
    <2>1. CASE MarkReadUpdate(c)
      BY <2>1 DEF MarkReadUpdate, Request
    <2>2. CASE MarkAllClear(c)
      BY <2>2 DEF MarkAllClear, Request
    <2>3. CASE ~MarkReadUpdate(c) /\ ~MarkAllClear(c)
      <3>1. UNCHANGED <<messages, inbox, sent, unread, accounts>>
        BY <1>3, <2>3 DEF Step, SendNoParent, GetVisible, GetBody, MarkReadView,
           MarkAllCollect, ReadIndexIds, ReadIndexBodies, CountUnread, CountInbox,
           TouchLastReadPull, Respond, storeVars
      <3>2. QED
        BY <3>1
    <2>4. QED
      BY <2>1, <2>2, <2>3
  <1>4. CASE Tick \/ Crash \/ UNCHANGED vars
    BY <1>4 DEF Tick, Crash, storeVars, vars
  <1>5. QED
    BY <1>1, <1>2, <1>3, <1>4 DEF Next

StoreInv == RefsResolve /\ UnreadWithinInbox /\ ReplyForest

\* What a commit works on.
LEMMA CommitFacts ==
    ASSUME TypeOK, NEW c \in Client, SendCommit(c)
    PROVE  /\ req[c].id \in MsgId \ Stored
           /\ req[c].msg \in Message
           /\ req[c].msg.inReplyTo \in Stored \cup {NoMsg}
           /\ Deliver(req[c].id, req[c].msg)
  BY DEF TypeOK, SendCommit, Sending, Stored, Request

LEMMA StoredAfter ==
    ASSUME TypeOK, NEW id \in MsgId \ Stored, NEW msg \in Message, Deliver(id, msg)
    PROVE  /\ Stored' = Stored \cup {id}
           /\ messages'[id] = msg
           /\ \A m \in Stored : messages'[m] = messages[m]
  BY IdAssumption DEF TypeOK, Deliver, Stored

LEMMA DeliverRefs ==
    ASSUME TypeOK, RefsResolve, UnreadWithinInbox,
           NEW id \in MsgId \ Stored, NEW msg \in Message, Deliver(id, msg)
    PROVE  RefsResolve' /\ UnreadWithinInbox'
  <1>1. RefsResolve'
    <2> SUFFICES ASSUME NEW a \in Key
                 PROVE  /\ \A m \in inbox'[a] : m \in Stored' /\ a \in Recipients(messages'[m])
                        /\ \A m \in sent'[a] : m \in Stored' /\ a = Lower[messages'[m].from]
      BY DEF RefsResolve, Recipients
    <2>1. inbox'[a] = IF a \in Recipients(msg) \cap accounts
                      THEN inbox[a] \cup {id} ELSE inbox[a]
      BY DEF Deliver
    <2>2. sent'[a] = IF a = Lower[msg.from] /\ a \in accounts
                     THEN sent[a] \cup {id} ELSE sent[a]
      BY DEF Deliver
    <2>3. QED
      BY <2>1, <2>2, StoredAfter DEF RefsResolve
  <1>2. UnreadWithinInbox'
    BY DEF UnreadWithinInbox, Deliver, TypeOK
  <1>3. QED
    BY <1>1, <1>2

\* A new message answers an older one and is answered by none, so the reply
\* graph stays a forest.
LEMMA DeliverForest ==
    ASSUME TypeOK, ReplyForest,
           NEW id \in MsgId \ Stored, NEW msg \in Message,
           msg.inReplyTo \in Stored \cup {NoMsg}, Deliver(id, msg)
    PROVE  ReplyForest'
  <1>1. /\ Stored' = Stored \cup {id}
        /\ Parent'[id] = msg.inReplyTo
        /\ \A m \in Stored : Parent'[m] = Parent[m]
    BY StoredAfter DEF Parent
  <1>2. \A m \in Stored' : Parent'[m] \in Stored' \cup {NoMsg}
    BY <1>1 DEF ReplyForest
  <1>3. ASSUME NEW S \in SUBSET Stored', S # {}
        PROVE  \E m \in S : Parent'[m] \notin S
    <2>1. CASE S \ {id} = {}
      BY <1>1, <1>3, <2>1, IdAssumption DEF Stored
    <2>2. CASE S \ {id} # {}
      <3>1. PICK m \in S \ {id} : Parent[m] \notin S \ {id}
        BY <1>1, <2>2 DEF ReplyForest
      <3>2. Parent[m] # id
        BY <1>1, <3>1, IdAssumption DEF ReplyForest
      <3>3. QED
        BY <1>1, <3>1, <3>2
    <2>3. QED
      BY <2>1, <2>2
  <1>4. QED
    BY <1>2, <1>3 DEF ReplyForest

LEMMA StoreInvInit == Init => StoreInv
  BY DEF Init, StoreInv, RefsResolve, UnreadWithinInbox, ReplyForest, Stored

LEMMA StoreInvStep == TypeOK /\ StoreInv /\ [Next]_vars => StoreInv'
  <1> SUFFICES ASSUME TypeOK, StoreInv, [Next]_vars
               PROVE  StoreInv'
    OBVIOUS
  <1>1. CASE NoDelivery
    BY <1>1 DEF NoDelivery, StoreInv, RefsResolve, UnreadWithinInbox, ReplyForest,
                Parent, Stored, Recipients
  <1>2. ASSUME NEW c \in Client, SendCommit(c)
        PROVE  StoreInv'
    BY <1>2, CommitFacts, DeliverRefs, DeliverForest DEF StoreInv
  <1>3. QED
    BY <1>1, <1>2, StepShape

\* References resolve to stored messages of which the holder is a
\* participant, every unread marker has its inbox reference, and replies
\* form a forest, for any number of interleaved requests.
THEOREM StoreConsistent == Spec => [](IndexesConsistent /\ ReplyForest)
  BY TypeInit, TypeStep, StoreInvInit, StoreInvStep, PTL DEF Spec, StoreInv, IndexesConsistent

-----------------------------------------------------------------------------
(* Requests.  What one transaction of a request saw still holds when the   *)
(* next one runs, because references and bodies only accumulate.           *)

\* Indexes only grow and bodies never change.
Grows ==
    /\ \A m \in Stored : m \in Stored' /\ messages'[m] = messages[m]
    /\ \A a \in Key : inbox[a] \subseteq inbox'[a] /\ sent[a] \subseteq sent'[a]

LEMMA StoreGrows ==
    ASSUME TypeOK, [Next]_vars
    PROVE  Grows
  <1>1. CASE NoDelivery
    BY <1>1 DEF NoDelivery, Grows, Stored
  <1>2. ASSUME NEW c \in Client, SendCommit(c)
        PROVE  Grows
    <2>1. Deliver(req[c].id, req[c].msg)
      BY <1>2, CommitFacts
    <2>2. \A a \in Key : inbox[a] \subseteq inbox'[a] /\ sent[a] \subseteq sent'[a]
      BY <2>1 DEF Deliver
    <2>3. QED
      BY <1>2, <2>2, CommitFacts, StoredAfter DEF Grows
  <1>3. QED
    BY <1>1, <1>2, StepShape

\* A client whose request does not move keeps what it holds, provided nobody
\* commits the id it took for a send.
LEMMA OthersCurrent ==
    ASSUME TypeOK, TypeOK', RefsResolve, Grows, NEW c \in Client, Current(c),
           pc'[c] = pc[c], req'[c] = req[c],
           pc[c] = "send" => req[c].id \notin Stored'
    PROVE  Current(c)'
  <1> DEFINE r == req[c]
             k == Lower[r.who]
  <1>1. r.who \in Address /\ k \in Key
    BY LowerKey DEF TypeOK, Request
  <1>2. Cardinality(inbox[k]) <= Cardinality(inbox'[k])
    BY <1>1, IdsMonotone DEF TypeOK, Grows
  <1>3. /\ Cardinality(inbox[k]) \in Nat
        /\ Cardinality(inbox'[k]) \in Nat
        /\ r.unreadCount \in Nat
    BY <1>1, IdsCountable DEF TypeOK, Request
  <1>4. r.id \in inbox[k] \cup sent[k] => r.id \in Stored /\ messages'[r.id] = messages[r.id]
    BY <1>1 DEF RefsResolve, Grows
  <1>5. QED
    BY <1>1, <1>2, <1>3, <1>4 DEF Current, Grows

\* The other clients, when c moves and commits at most its own send.
LEMMA MoveCurrent ==
    ASSUME TypeOK, TypeOK', RefsResolve, RequestsCurrent, Grows,
           NEW c \in Client, NEW next, NEW r, Goto(c, next), Hold(c, r) \/ UNCHANGED req,
           Stored' = Stored \/ (pc[c] = "send" /\ Stored' = Stored \cup {req[c].id}),
           Current(c)',
           c \in Sending' => c \in Sending /\ req'[c].id = req[c].id
    PROVE  RequestsCurrent'
  <1>1. \A d \in Client \ {c} : pc'[d] = pc[d] /\ req'[d] = req[d]
    BY DEF TypeOK
  <1>2. ASSUME NEW d \in Client \ {c}
        PROVE  Current(d)'
    <2>1. pc[d] = "send" => req[d].id \notin Stored'
      BY DEF RequestsCurrent, Current, Sending
    <2>2. QED
      BY <1>1, <2>1, OthersCurrent DEF RequestsCurrent
  <1>3. \A d \in Sending' : d \in Sending /\ req'[d].id = req[d].id
    BY <1>1 DEF Sending
  <1>4. QED
    BY <1>2, <1>3 DEF RequestsCurrent

LEMMA RequestsInit == Init => RequestsCurrent
  BY DEF Init, RequestsCurrent, Current, Sending

LEMMA ArriveCurrent ==
    ASSUME TypeOK, TypeOK', RefsResolve, RequestsCurrent, Grows,
           NEW c \in Client, Arrive(c)
    PROVE  RequestsCurrent'
  <1>1. /\ Stored' = Stored
        /\ pc[c] = "idle"
        /\ \A d \in Client \ {c} : pc'[d] = pc[d] /\ req'[d] = req[d]
    BY DEF Arrive, StartSend, StartGet, StartMarkAll, StartInbox, storeVars, Stored, TypeOK
  <1>2. \/ pc'[c] = "send" /\ req'[c].id \in FreshId
        \/ pc'[c] \in {"getVisible", "allCollect", "pageIds"}
    BY DEF Arrive, StartSend, StartGet, StartMarkAll, StartInbox, NewRequest, TypeOK
  <1>3. Current(c)'
    BY <1>1, <1>2 DEF Current, FreshId
  <1>4. \A d \in Client \ {c} : Current(d)'
    BY <1>1, OthersCurrent DEF RequestsCurrent, Current
  <1>5. \A d, e \in Sending' : d # e => req'[d].id # req'[e].id
    BY <1>1, <1>2 DEF RequestsCurrent, Sending, FreshId
  <1>6. QED
    BY <1>3, <1>4, <1>5 DEF RequestsCurrent

LEMMA StepCurrent ==
    ASSUME TypeOK, TypeOK', RefsResolve, UnreadWithinInbox, RequestsCurrent, Grows,
           NEW c \in Client, Step(c)
    PROVE  RequestsCurrent'
  <1> DEFINE r == req[c]
             k == Lower[r.who]
  <1>1. /\ r \in Request /\ r.who \in Address /\ k \in Key
        /\ Current(c)
    BY LowerKey DEF TypeOK, Request, RequestsCurrent
  <1>2. CASE SendCommit(c)
    <2>1. Stored' = Stored \cup {r.id}
      BY <1>2, CommitFacts, StoredAfter
    <2>2. pc'[c] \in {"sent", "sendFailed"}
      BY <1>2 DEF SendCommit, TypeOK
    <2>3. Current(c)'
      BY <2>2 DEF Current
    <2>4. QED
      BY <1>2, <2>1, <2>3, MoveCurrent DEF SendCommit, Sending
  <1>3. CASE SendNoParent(c)
    <2>1. Current(c)'
      BY <1>1, <1>3 DEF Current, TypeOK, storeVars, SendNoParent
    <2>2. QED
      BY <1>3, <2>1, MoveCurrent DEF SendNoParent, Sending, Stored, storeVars, TypeOK
  <1>4. CASE GetVisible(c)
    <2>1. Current(c)'
      BY <1>1, <1>4 DEF Current, TypeOK, storeVars, GetVisible
    <2>2. QED
      BY <1>4, <2>1, MoveCurrent DEF GetVisible, Sending, Stored, storeVars, TypeOK
  <1>5. CASE GetBody(c)
    <2>1. Current(c)'
      BY <1>1, <1>5 DEF Current, TypeOK, Request, RefsResolve, Stored, storeVars, GetBody
    <2>2. QED
      BY <1>5, <2>1, MoveCurrent DEF GetBody, Sending, Stored, storeVars, TypeOK
  <1>6. CASE MarkReadView(c)
    <2>1. Current(c)'
      BY <1>1, <1>6 DEF Current, TypeOK, storeVars, MarkReadView
    <2>2. QED
      BY <1>6, <2>1, MoveCurrent DEF MarkReadView, Sending, Stored, storeVars, TypeOK
  <1>7. CASE MarkReadUpdate(c)
    <2>1. Current(c)'
      BY <1>1, <1>7 DEF Current, TypeOK, storeVars, MarkReadUpdate
    <2>2. QED
      BY <1>7, <2>1, MoveCurrent DEF MarkReadUpdate, Sending, Stored, storeVars, TypeOK
  <1>8. CASE MarkAllCollect(c)
    <2>1. Current(c)'
      BY <1>1, <1>8 DEF Current, TypeOK, Request, storeVars, MarkAllCollect
    <2>2. QED
      BY <1>8, <2>1, MoveCurrent DEF MarkAllCollect, Sending, Stored, storeVars, TypeOK
  <1>9. CASE MarkAllClear(c)
    <2>1. Current(c)'
      BY <1>1, <1>9 DEF Current, TypeOK, Request, storeVars, MarkAllClear
    <2>2. PICK held : Hold(c, held)
      BY <1>9 DEF MarkAllClear
    <2>3. PICK next \in {"allDone"} : Goto(c, next)
      BY <1>9 DEF MarkAllClear
    <2>4. Stored' = Stored /\ c \notin Sending'
      BY <1>9, <2>3 DEF MarkAllClear, Stored, Sending, storeVars, TypeOK
    <2>5. QED
      BY <2>1, <2>2, <2>3, <2>4, MoveCurrent
  <1>10. CASE ReadIndexIds(c)
    <2>1. Current(c)'
      BY <1>1, <1>10 DEF Current, TypeOK, Request, Page, storeVars, ReadIndexIds
    <2>2. PICK held : Hold(c, held)
      BY <1>10 DEF ReadIndexIds
    <2>3. PICK next \in {"countUnread", "pageBodies"} : Goto(c, next)
      BY <1>10 DEF ReadIndexIds
    <2>4. Stored' = Stored /\ c \notin Sending'
      BY <1>10, <2>3 DEF ReadIndexIds, Stored, Sending, storeVars, TypeOK
    <2>5. QED
      BY <2>1, <2>2, <2>3, <2>4, MoveCurrent
  <1>11. CASE ReadIndexBodies(c)
    <2>1. Current(c)'
      BY <1>1, <1>11 DEF Current, TypeOK, Request, RefsResolve, Stored, storeVars, ReadIndexBodies
    <2>2. QED
      BY <1>11, <2>1, MoveCurrent DEF ReadIndexBodies, Sending, Stored, storeVars, TypeOK
  <1>12. CASE CountUnread(c)
    <2>1. Cardinality(unread[k]) <= Cardinality(inbox[k])
      BY <1>1, IdsMonotone DEF TypeOK, UnreadWithinInbox
    <2>2. Current(c)'
      BY <1>1, <1>12, <2>1 DEF Current, TypeOK, Request, storeVars, CountUnread
    <2>3. QED
      BY <1>12, <2>2, MoveCurrent DEF CountUnread, Sending, Stored, storeVars, TypeOK
  <1>13. CASE CountInbox(c)
    <2>1. Current(c)'
      BY <1>1, <1>13 DEF Current, TypeOK, Request, storeVars, CountInbox
    <2>2. QED
      BY <1>13, <2>1, MoveCurrent DEF CountInbox, Sending, Stored, storeVars, TypeOK
  <1>14. CASE TouchLastReadPull(c)
    <2>1. Current(c)'
      BY <1>1, <1>14 DEF Current, TypeOK, storeVars, TouchLastReadPull
    <2>2. QED
      BY <1>14, <2>1, MoveCurrent DEF TouchLastReadPull, Sending, Stored, storeVars, TypeOK
  <1>15. CASE Respond(c)
    <2>1. Current(c)'
      BY <1>1, <1>15 DEF Current, TypeOK, storeVars, Respond
    <2>2. QED
      BY <1>15, <2>1, MoveCurrent DEF Respond, Sending, Stored, storeVars, TypeOK
  <1>16. QED
    BY <1>2, <1>3, <1>4, <1>5, <1>6, <1>7, <1>8, <1>9, <1>10, <1>11, <1>12, <1>13, <1>14, <1>15 DEF Step

Inv == TypeOK /\ StoreInv /\ RequestsCurrent

LEMMA RequestsStep == Inv /\ TypeOK' /\ [Next]_vars => RequestsCurrent'
  <1> SUFFICES ASSUME Inv, TypeOK', [Next]_vars
               PROVE  RequestsCurrent'
    OBVIOUS
  <1>1. /\ TypeOK /\ RefsResolve /\ UnreadWithinInbox /\ RequestsCurrent
        /\ Grows
    BY StoreGrows DEF Inv, StoreInv
  <1>2. ASSUME UNCHANGED <<messages, inbox, sent, pc, req>>
        PROVE  RequestsCurrent'
    BY <1>1, <1>2 DEF RequestsCurrent, Current, Sending, Stored
  <1>3. CASE Tick \/ UNCHANGED vars \/ \E name \in Address : CreateAccount(name)
    BY <1>2, <1>3 DEF Tick, CreateAccount, vars, storeVars
  <1>7. CASE Crash
    BY <1>7 DEF Crash, RequestsCurrent, Current, Sending, storeVars
  <1>4. ASSUME NEW c \in Client, Arrive(c)
        PROVE  RequestsCurrent'
    BY <1>1, <1>4, ArriveCurrent
  <1>5. ASSUME NEW c \in Client, Step(c)
        PROVE  RequestsCurrent'
    BY <1>1, <1>5, StepCurrent
  <1>6. QED
    BY <1>3, <1>4, <1>5, <1>7 DEF Next

\* The inductive invariant behind the theorems below.
LEMMA InvHolds == Spec => []Inv
  <1>1. Init => Inv
    BY TypeInit, StoreInvInit, RequestsInit DEF Inv
  <1>2. Inv /\ [Next]_vars => Inv'
    BY TypeStep, StoreInvStep, RequestsStep DEF Inv
  <1>3. QED
    BY <1>1, <1>2, PTL DEF Spec

\* What a request saw in one transaction still holds in the next.
THEOREM RequestsStayCurrent == Spec => []RequestsCurrent
  BY InvHolds, PTL DEF Inv

\* GetMessage shows a body only to a participant of the message.
THEOREM ReadersAreParticipants == Spec => []GotOnlyVisible
  <1>1. Inv => GotOnlyVisible
    <2> SUFFICES ASSUME Inv, NEW c \in Client, pc[c] \in {"markView", "markUpdate", "got"}
                 PROVE  /\ req[c].msg = messages[req[c].id]
                        /\ Lower[req[c].who] \in Participants(req[c].msg)
      BY DEF GotOnlyVisible
    <2>1. /\ Lower[req[c].who] \in Key
          /\ req[c].id \in inbox[Lower[req[c].who]] \cup sent[Lower[req[c].who]]
          /\ req[c].msg = messages[req[c].id]
      BY LowerKey DEF Inv, TypeOK, Request, RequestsCurrent, Current
    <2>2. QED
      BY <2>1 DEF Inv, StoreInv, RefsResolve, Participants
  <1>2. QED
    BY <1>1, InvHolds, PTL

-----------------------------------------------------------------------------
(* Answers.                                                                *)

\* How a request gets to each kind of answer.
LEMMA AnswerOrigin ==
    ASSUME TypeOK, [Next]_vars, NEW c \in Client
    PROVE  /\ pc'[c] \in {"touch", "listed"} =>
                \/ pc[c] \in {"touch", "listed"} /\ req'[c] = req[c]
                \/ CountInbox(c)
           /\ pc'[c] \in {"sent", "sendFailed"} =>
                \/ pc[c] = pc'[c] /\ req'[c] = req[c]
                \/ SendCommit(c)
                \/ SendNoParent(c)
  <1> USE DEF TypeOK
  <1>1. ASSUME NEW d \in Client, Arrive(d)
        PROVE  \/ pc'[c] = pc[c] /\ req'[c] = req[c]
               \/ pc'[c] \in {"send", "getVisible", "allCollect", "pageIds"}
    BY <1>1 DEF Arrive, StartSend, StartGet, StartMarkAll, StartInbox
  <1>2. ASSUME NEW d \in Client \ {c}, Step(d)
        PROVE  pc'[c] = pc[c] /\ req'[c] = req[c]
    BY <1>2 DEF Step, SendNoParent, SendCommit, GetVisible, GetBody, MarkReadView,
       MarkReadUpdate, MarkAllCollect, MarkAllClear, ReadIndexIds, ReadIndexBodies,
       CountUnread, CountInbox, TouchLastReadPull, Respond
  <1>3. ASSUME Step(c)
        PROVE  \/ SendCommit(c) \/ SendNoParent(c) \/ CountInbox(c)
               \/ pc[c] = "touch" /\ pc'[c] = "listed" /\ req'[c] = req[c]
               \/ pc'[c] \notin {"touch", "listed", "sent", "sendFailed"}
    BY <1>3 DEF Step, GetVisible, GetBody, MarkReadView,
       MarkReadUpdate, MarkAllCollect, MarkAllClear, ReadIndexIds, ReadIndexBodies,
       CountUnread, TouchLastReadPull, Respond
  <1>4. CASE Tick \/ UNCHANGED vars \/ \E name \in Address : CreateAccount(name)
    BY <1>4 DEF Tick, CreateAccount, vars
  <1>8. CASE Crash
    BY <1>8 DEF Crash
  <1>5. SendCommit(c) \/ SendNoParent(c) => pc'[c] \in {"sent", "sendFailed"}
    BY DEF SendCommit, SendNoParent
  <1>6. CountInbox(c) => pc'[c] = "touch"
    BY DEF CountInbox
  <1>7. QED
    BY <1>1, <1>2, <1>3, <1>4, <1>5, <1>6, <1>8 DEF Next

\* The page, unread_count and total_count of one inbox answer agree.
THEOREM InboxAnswersAgree == Spec => []InboxCountsAgree
  <1>1. Init => InboxCountsAgree
    BY DEF Init, InboxCountsAgree
  <1>2. Inv /\ InboxCountsAgree /\ [Next]_vars => InboxCountsAgree'
    <2> SUFFICES ASSUME Inv, InboxCountsAgree, [Next]_vars,
                        NEW c \in Client, pc'[c] \in {"touch", "listed"}
                 PROVE  /\ req'[c].unreadCount <= req'[c].count
                        /\ Cardinality(req'[c].ids) <= req'[c].count
      BY DEF InboxCountsAgree
    <2>1. CASE pc[c] \in {"touch", "listed"} /\ req'[c] = req[c]
      BY <2>1 DEF InboxCountsAgree
    <2>2. CASE CountInbox(c)
      <3> DEFINE k == Lower[req[c].who]
      <3>1. /\ k \in Key /\ req[c] \in Request
            /\ req[c].ids \subseteq inbox[k] /\ req[c].unreadCount <= Cardinality(inbox[k])
        BY <2>2, LowerKey DEF CountInbox, Inv, TypeOK, Request, RequestsCurrent, Current
      <3>2. Cardinality(req[c].ids) <= Cardinality(inbox[k])
        BY <3>1, IdsMonotone DEF Inv, TypeOK
      <3>3. /\ req'[c].ids = req[c].ids
            /\ req'[c].unreadCount = req[c].unreadCount
            /\ req'[c].count = Cardinality(inbox[k])
        BY <2>2, <3>1 DEF CountInbox, Inv, TypeOK, Request
      <3>4. QED
        BY <3>1, <3>2, <3>3
    <2>3. QED
      BY <2>1, <2>2, AnswerOrigin DEF Inv
  <1>3. QED
    BY <1>1, <1>2, InvHolds, PTL DEF Spec

\* Send succeeds exactly when somebody has the message.
THEOREM SendAnswersHonest == Spec => []SendOutcome
  <1>1. Init => SendOutcome
    BY DEF Init, SendOutcome
  <1>2. Inv /\ Inv' /\ SendOutcome /\ [Next]_vars => SendOutcome'
    <2> SUFFICES ASSUME Inv, Inv', SendOutcome, [Next]_vars, NEW c \in Client
                 PROVE  /\ pc'[c] = "sent" => \E a \in accounts' : req'[c].id \in inbox'[a]
                        /\ pc'[c] = "sendFailed" => \A a \in Key : req'[c].id \notin inbox'[a]
      BY DEF SendOutcome
    <2>0. /\ TypeOK /\ RefsResolve /\ RequestsCurrent /\ Grows
          /\ accounts \subseteq Key
      BY StoreGrows DEF Inv, StoreInv, TypeOK
    <2>1. CASE pc[c] \in {"sent", "sendFailed"} /\ pc[c] = pc'[c] /\ req'[c] = req[c]
      <3>1. CASE NoDelivery
        BY <2>1, <3>1 DEF NoDelivery, SendOutcome
      <3>2. ASSUME NEW d \in Client, SendCommit(d)
            PROVE  /\ pc'[c] = "sent" => \E a \in accounts' : req'[c].id \in inbox'[a]
                   /\ pc'[c] = "sendFailed" => \A a \in Key : req'[c].id \notin inbox'[a]
        <4>1. Deliver(req[d].id, req[d].msg) /\ pc[d] = "send"
          BY <2>0, <3>2, CommitFacts DEF SendCommit
        <4>2. req[c].id # req[d].id
          BY <2>0, <2>1, <4>1 DEF RequestsCurrent, Sending
        <4>3. \A a \in Key : req[c].id \in inbox'[a] <=> req[c].id \in inbox[a]
          BY <4>1, <4>2 DEF Deliver
        <4>4. accounts' = accounts
          BY <4>1 DEF Deliver
        <4>5. QED
          BY <2>0, <2>1, <4>3, <4>4 DEF SendOutcome
      <3>3. QED
        BY <2>0, <3>1, <3>2, StepShape
    <2>2. CASE SendCommit(c)
      <3>1. /\ Deliver(req[c].id, req[c].msg) /\ req' = req
            /\ req[c].id \notin Stored
            /\ pc'[c] = IF Recipients(req[c].msg) \cap accounts = {}
                        THEN "sendFailed" ELSE "sent"
        BY <2>0, <2>2, CommitFacts DEF SendCommit, TypeOK
      <3>2. \A a \in Key : req[c].id \notin inbox[a]
        BY <2>0, <3>1 DEF RefsResolve
      <3>3. QED
        BY <2>0, <3>1, <3>2 DEF Deliver
    <2>3. CASE SendNoParent(c)
      <3>1. /\ pc'[c] = "sendFailed" /\ req' = req /\ inbox' = inbox
            /\ req[c].id \notin Stored
        BY <2>0, <2>3 DEF SendNoParent, storeVars, TypeOK, RequestsCurrent, Current
      <3>2. QED
        BY <2>0, <3>1 DEF RefsResolve
    <2>4. QED
      BY <2>0, <2>1, <2>2, <2>3, AnswerOrigin
  <1>3. QED
    BY <1>1, <1>2, InvHolds, PTL DEF Spec

-----------------------------------------------------------------------------
(* What a step may never do.                                               *)

\* What DeliveryAtomic says of a step.
StepAtomic ==
    /\ \A m \in Stored : messages'[m] = messages[m]
    /\ \A a \in Key :
         /\ inbox[a] \subseteq inbox'[a] /\ sent[a] \subseteq sent'[a]
         /\ \A m \in (inbox'[a] \cup sent'[a]) \ (inbox[a] \cup sent[a]) : m \notin Stored
    /\ \A m \in MsgId : messages[m] = NoMsg /\ messages'[m] # NoMsg =>
         \A a \in accounts :
            m \in inbox'[a] \cap unread'[a] <=> a \in Recipients(messages'[m])

\* The references that a delivery writes are those of a message that nobody
\* had a reference to.
LEMMA DeliverAtomic ==
    ASSUME TypeOK, RefsResolve, UnreadWithinInbox,
           NEW id \in MsgId \ Stored, NEW msg \in Message, Deliver(id, msg)
    PROVE  StepAtomic
  <1>1. messages'[id] = msg /\ \A m \in Stored : messages'[m] = messages[m]
    BY StoredAfter
  <1>2. \A a \in Key : id \notin inbox[a] /\ id \notin unread[a]
    BY DEF RefsResolve, UnreadWithinInbox
  <1>3. \A m \in MsgId : messages[m] = NoMsg /\ messages'[m] # NoMsg => m = id
    BY DEF Deliver, TypeOK
  <1>4. \A a \in Key : /\ inbox[a] \subseteq inbox'[a] /\ sent[a] \subseteq sent'[a]
                       /\ \A m \in (inbox'[a] \cup sent'[a]) \ (inbox[a] \cup sent[a]) : m = id
    BY DEF Deliver
  <1>5. \A a \in accounts : id \in inbox'[a] \cap unread'[a] <=> a \in Recipients(msg)
    BY <1>2 DEF Deliver, TypeOK
  <1>6. QED
    BY <1>1, <1>3, <1>4, <1>5 DEF StepAtomic

LEMMA StoreAtomic ==
    ASSUME TypeOK, RefsResolve, UnreadWithinInbox, [Next]_vars
    PROVE  StepAtomic
  <1>1. CASE NoDelivery
    BY <1>1 DEF NoDelivery, StepAtomic
  <1>2. ASSUME NEW c \in Client, SendCommit(c)
        PROVE  StepAtomic
    BY <1>2, CommitFacts, DeliverAtomic
  <1>3. QED
    BY <1>1, <1>2, StepShape

\* A delivery by another part of the system, beside the requests.
LEMMA ForeignDelivery ==
    ASSUME TypeOK, StoreInv, NEW id \in MsgId \ Stored, NEW msg \in Message,
           msg.inReplyTo \in Stored \cup {NoMsg}, Deliver(id, msg), UNCHANGED <<now, pc, req>>
    PROVE  TypeOK' /\ StoreInv' /\ StepAtomic
  <1>1. TypeOK'
    BY DeliverType DEF TypeOK, Sending
  <1>2. StoreInv'
    BY DeliverRefs, DeliverForest DEF StoreInv
  <1>3. QED
    BY <1>1, <1>2, DeliverAtomic DEF StoreInv

\* Mail is append-only and each delivery is atomic.
THEOREM DeliveryIsAtomic == Spec => DeliveryAtomic
  <1>1. Inv /\ [Next]_vars => [StepAtomic]_vars
    BY StoreAtomic DEF Inv, StoreInv
  <1>2. QED
    BY <1>1, InvHolds, PTL DEF Spec, DeliveryAtomic, StepAtomic

\* Only its owner clears an unread marker, and the clearing is stamped.
THEOREM ReadsAreOwnersReads == Spec => ReadsAreOwned
  <1>1. TypeOK /\ [Next]_vars =>
          [\A a \in Key : \A m \in unread[a] \ unread'[a] :
              /\ lastRead'[a] = now
              /\ \E c \in Client :
                    /\ Lower[req[c].who] = a
                    /\ \/ pc[c] = "markUpdate" /\ req[c].id = m
                       \/ pc[c] = "allClear" /\ m \in req[c].ids]_vars
    <2> SUFFICES ASSUME TypeOK, [Next]_vars, NEW a \in Key, NEW m \in unread[a] \ unread'[a]
                 PROVE  /\ lastRead'[a] = now
                        /\ \E c \in Client :
                              /\ Lower[req[c].who] = a
                              /\ \/ pc[c] = "markUpdate" /\ req[c].id = m
                                 \/ pc[c] = "allClear" /\ m \in req[c].ids
      OBVIOUS
    <2> USE LowerKey
    <2>1. ASSUME NEW c \in Client, MarkReadUpdate(c)
          PROVE  /\ lastRead'[a] = now /\ Lower[req[c].who] = a
                 /\ pc[c] = "markUpdate" /\ req[c].id = m
      BY <2>1 DEF MarkReadUpdate, TypeOK, Request
    <2>2. ASSUME NEW c \in Client, MarkAllClear(c)
          PROVE  /\ lastRead'[a] = now /\ Lower[req[c].who] = a
                 /\ pc[c] = "allClear" /\ m \in req[c].ids
      BY <2>2 DEF MarkAllClear, TypeOK, Request
    <2>3. ASSUME NEW c \in Client, SendCommit(c)
          PROVE  FALSE
      BY <2>3 DEF SendCommit, Deliver
    <2>4. ASSUME unread' = unread
          PROVE  FALSE
      BY <2>4
    <2>5. ASSUME NEW c \in Client, Arrive(c)
          PROVE  FALSE
      BY <2>4, <2>5 DEF Arrive, StartSend, StartGet, StartMarkAll, StartInbox, storeVars
    <2>6. ASSUME NEW c \in Client, Step(c), ~MarkReadUpdate(c), ~MarkAllClear(c), ~SendCommit(c)
          PROVE  FALSE
      BY <2>4, <2>6 DEF Step, SendNoParent, GetVisible, GetBody, MarkReadView,
           MarkAllCollect, ReadIndexIds, ReadIndexBodies, CountUnread, CountInbox,
           TouchLastReadPull, Respond, storeVars
    <2>7. CASE Tick \/ Crash \/ UNCHANGED vars \/ \E name \in Address : CreateAccount(name)
      BY <2>4, <2>7 DEF Tick, Crash, CreateAccount, vars, storeVars
    <2>8. QED
      BY <2>1, <2>2, <2>3, <2>5, <2>6, <2>7 DEF Next
  <1>2. QED
    BY <1>1, TypeCorrect, PTL DEF Spec, ReadsAreOwned

-----------------------------------------------------------------------------
(* Refinement.                                                             *)

\* The mailboxes seen through the unread and inbox indexes.
AbstractBox == [a \in Key |-> [m \in MsgId |-> CopyState(a, m)]]

LEMMA MailboxInit == Init => Abstract!Init
  BY DEF Init, Abstract!Init, CopyState

\* What a delivery does to the copies: those of the new message change, and
\* they become unread at addressees.
LEMMA DeliverPosts ==
    ASSUME TypeOK, RefsResolve, UnreadWithinInbox,
           NEW id \in MsgId \ Stored, NEW msg \in Message, Deliver(id, msg)
    PROVE  Abstract!Post(id)
  <1>1. /\ messages[id] = NoMsg /\ messages'[id] = msg
        /\ \A n \in MsgId \ {id} : messages'[n] = messages[n]
    BY DEF Deliver, Stored, TypeOK
  <1>2. ASSUME NEW a \in Key, NEW n \in MsgId \ {id}
        PROVE  CopyState(a, n)' = CopyState(a, n)
    BY DEF Deliver, CopyState
  <1>3. ASSUME NEW a \in Key
        PROVE  CopyState(a, id)' = CopyState(a, id) \/ (CopyState(a, id)' = "unread" /\ a \in Recipients(msg))
    BY DEF Deliver, CopyState
  <1>4. QED
    BY <1>1, <1>2, <1>3 DEF Abstract!Post

\* Marking mail read moves copies of one account from unread to read.
LEMMA MarkingReads ==
    ASSUME TypeOK, UnreadWithinInbox, NEW k \in Key, NEW S,
           unread' = [unread EXCEPT ![k] = @ \ S], UNCHANGED <<messages, inbox>>
    PROVE  Abstract!Read(k) \/ UNCHANGED <<messages, AbstractBox>>
  <1>1. ASSUME NEW m \in MsgId
        PROVE  CopyState(k, m)' = CopyState(k, m) \/ (CopyState(k, m) = "unread" /\ CopyState(k, m)' = "read")
    BY DEF TypeOK, CopyState, UnreadWithinInbox
  <1>2. ASSUME NEW p \in Key \ {k}, NEW m \in MsgId
        PROVE  CopyState(p, m)' = CopyState(p, m)
    BY DEF TypeOK, CopyState
  <1>3. QED
    BY <1>1, <1>2 DEF Abstract!Read, AbstractBox

\* Every step of the store posts one message, reads copies of one account, or
\* leaves the mailboxes as they are.
LEMMA StepRefines ==
    ASSUME Inv, TypeOK', [Next]_vars
    PROVE  [Abstract!Next]_<<messages, AbstractBox>>
  <1> DEFINE Same == UNCHANGED <<messages, AbstractBox>>
  <1>1. TypeOK /\ RefsResolve /\ UnreadWithinInbox
    BY DEF Inv, StoreInv
  <1>2. Abstract!TypeOK'
    BY DEF TypeOK, Abstract!TypeOK, Abstract!Copy, CopyState
  <1>3. ASSUME UNCHANGED <<messages, inbox, unread>>
        PROVE  Same
    BY <1>3 DEF AbstractBox, CopyState
  <1>4. ASSUME NEW name \in Address, CreateAccount(name)
        PROVE  Same
    BY <1>3, <1>4 DEF CreateAccount
  <1>5. ASSUME NEW c \in Client, Arrive(c)
        PROVE  Same
    BY <1>3, <1>5 DEF Arrive, StartSend, StartGet, StartMarkAll, StartInbox, storeVars
  <1>6. ASSUME NEW c \in Client, SendCommit(c)
        PROVE  Abstract!Next
    BY <1>1, <1>6, <1>2, CommitFacts, DeliverPosts DEF Abstract!Next
  <1>7. ASSUME NEW c \in Client, MarkReadUpdate(c) \/ MarkAllClear(c)
        PROVE  Abstract!Next \/ Same
    <2>1. Lower[req[c].who] \in Key
      BY <1>1, LowerKey DEF TypeOK, Request
    <2>2. PICK S : /\ unread' = [unread EXCEPT ![Lower[req[c].who]] = @ \ S]
                   /\ UNCHANGED <<messages, inbox>>
      BY <1>7 DEF MarkReadUpdate, MarkAllClear
    <2>3. QED
      BY <1>1, <1>2, <2>1, <2>2, MarkingReads DEF Abstract!Next
  <1>8. ASSUME NEW c \in Client, Step(c),
               ~SendCommit(c), ~MarkReadUpdate(c), ~MarkAllClear(c)
        PROVE  Same
    BY <1>3, <1>8 DEF Step, SendNoParent, GetVisible, GetBody, MarkReadView,
       MarkAllCollect, ReadIndexIds, ReadIndexBodies, CountUnread, CountInbox,
       TouchLastReadPull, Respond, storeVars
  <1>9. CASE Tick \/ Crash \/ UNCHANGED vars
    BY <1>3, <1>9 DEF Tick, Crash, storeVars, vars
  <1>10. QED
    BY <1>4, <1>5, <1>6, <1>7, <1>8, <1>9 DEF Next

\* The interleaved requests implement mailboxes in which mail is posted to all
\* its addressees at once and each copy is read at most once.
THEOREM Refinement == Spec => ImplementsMailbox
  <1>1. Init => Abstract!Init
    BY MailboxInit
  <1>2. Inv /\ TypeOK' /\ [Next]_vars => [Abstract!Next]_<<messages, AbstractBox>>
    BY StepRefines
  <1>3. QED
    BY <1>1, <1>2, InvHolds, TypeCorrect, PTL DEF Spec, ImplementsMailbox, Abstract!Spec, AbstractBox

-----------------------------------------------------------------------------
(* Times and replies.                                                      *)

\* A stamp is never later than the clock, which never goes back.
StampsPast == \A a \in Key : lastRead[a] <= now

LEMMA StampStep ==
    ASSUME TypeOK, StampsPast, [Next]_vars
    PROVE  StampsPast' /\ \A a \in Key : lastRead'[a] >= lastRead[a]
  <1> USE LowerKey DEF TypeOK, StampsPast
  <1>1. ASSUME UNCHANGED lastRead, now' = now \/ now' = now + 1
        PROVE  StampsPast' /\ \A a \in Key : lastRead'[a] >= lastRead[a]
    BY <1>1
  <1>2. ASSUME NEW a \in Key, lastRead' = [lastRead EXCEPT ![a] = now], now' = now
        PROVE  StampsPast' /\ \A b \in Key : lastRead'[b] >= lastRead[b]
    BY <1>2
  <1>3. ASSUME NEW c \in Client, MarkReadUpdate(c) \/ MarkAllClear(c) \/ TouchLastReadPull(c)
        PROVE  StampsPast' /\ \A a \in Key : lastRead'[a] >= lastRead[a]
    <2>1. Lower[req[c].who] \in Key
      BY DEF Request
    <2>2. QED
      BY <1>2, <1>3, <2>1 DEF MarkReadUpdate, MarkAllClear, TouchLastReadPull
  <1>4. ASSUME NEW c \in Client,
               Arrive(c) \/ (Step(c) /\ ~MarkReadUpdate(c) /\ ~MarkAllClear(c) /\ ~TouchLastReadPull(c))
        PROVE  UNCHANGED <<lastRead, now>>
    BY <1>4 DEF Arrive, StartSend, StartGet, StartMarkAll, StartInbox, Step, SendNoParent,
       SendCommit, Deliver, GetVisible, GetBody, MarkReadView, MarkAllCollect, ReadIndexIds,
       ReadIndexBodies, CountUnread, CountInbox, Respond, storeVars
  <1>5. CASE Tick \/ Crash \/ UNCHANGED vars \/ \E name \in Address : CreateAccount(name)
    BY <1>1, <1>5 DEF Tick, Crash, CreateAccount, storeVars, vars
  <1>6. QED
    BY <1>1, <1>3, <1>4, <1>5 DEF Next

\* The liveness stamp of an account never goes back.
THEOREM StampsAdvance == Spec => LastReadMonotone
  <1>1. Init => StampsPast
    BY DEF Init, StampsPast
  <1>2. TypeOK /\ StampsPast /\ [Next]_vars => StampsPast'
    BY StampStep
  <1>3. TypeOK /\ StampsPast /\ [Next]_vars => [\A a \in Key : lastRead'[a] >= lastRead[a]]_vars
    BY StampStep
  <1>4. QED
    BY <1>1, <1>2, <1>3, TypeCorrect, PTL DEF Spec, LastReadMonotone

\* Every reply names a stored message, and replies never form a cycle.
THEOREM RepliesFormForest == Spec => []ReplyForest
  BY StoreConsistent, PTL

-----------------------------------------------------------------------------
(* Files: attachments.                                                     *)

\* All files that live have been given an id.
LiveMinted == Live \subseteq minted

FilesInv ==
    /\ TypeOK /\ StoreInv /\ FilesTypeOK
    /\ HalvesTogether /\ LiveMinted
    /\ SnapshotsHonest /\ RecipientsMayDownload

-----------------------------------------------------------------------------
(* The records of files.                                                   *)

\* A record is told apart from no record.
LEMMA RecordLives == \A r \in FileRecord : r # NoFile
  BY FilesAssumption DEF FileRecord

LEMMA KeysAreAddresses == \A a \in Key : a \in Address /\ Lower[a] = a
  BY LowerAssumption DEF Key

DownloadRecord == [file : FileId, who : Address, served : BOOLEAN]

\* The step keeps who may download what lives, and its owner; it may be newer.
Kept ==
    \A f \in FileId : files'[f] # NoFile =>
        /\ files[f] # NoFile
        /\ files'[f] \in FileRecord
        /\ files'[f].owner = files[f].owner
        /\ files[f].allowed \subseteq files'[f].allowed
        /\ files[f].createdAt <= files'[f].createdAt /\ files'[f].createdAt <= now'

\* What is kept stays downloadable, and snapshots of it stay honest.
LEMMA KeptGrants ==
    ASSUME FilesInv, Kept, Stored' = Stored, UNCHANGED <<messages, inbox, attached, minted>>
    PROVE  SnapshotsHonest' /\ RecipientsMayDownload' /\ LiveMinted'
  <1>1. ASSUME NEW m \in Stored, NEW s \in attached[m], s.file \in Live'
        PROVE  /\ s.file \in Live
               /\ Lower[files'[s.file].owner] = Lower[messages[m].from]
               /\ s.createdAt <= files'[s.file].createdAt
               /\ \A a \in Key : m \in inbox[a] => Authorized(a, s.file)'
    <2>1. s \in [file : FileId, createdAt : Nat] /\ s.file \in FileId
      BY <1>1 DEF FilesInv, FilesTypeOK, Stored
    <2>2. files'[s.file] # NoFile /\ s.file \in Live
      BY <1>1, <2>1 DEF Live, Kept
    <2>3. files[s.file] \in FileRecord /\ files'[s.file] \in FileRecord
      BY <2>1, <2>2 DEF Kept, FilesInv, FilesTypeOK, Live
    <2>4. s.createdAt <= files[s.file].createdAt
          /\ Lower[files[s.file].owner] = Lower[messages[m].from]
      BY <1>1, <2>2 DEF FilesInv, SnapshotsHonest
    <2>5. s.createdAt <= files'[s.file].createdAt
      BY <2>1, <2>2, <2>3, <2>4 DEF Kept, FileRecord
    <2>6. \A a \in Key : m \in inbox[a] => Authorized(a, s.file)'
      BY <1>1, <2>1, <2>2 DEF FilesInv, RecipientsMayDownload, Authorized, Kept
    <2>7. QED
      BY <2>1, <2>2, <2>4, <2>5, <2>6 DEF Kept
  <1>2. SnapshotsHonest'
    BY <1>1 DEF SnapshotsHonest, FilesInv
  <1>3. RecipientsMayDownload'
    BY <1>1 DEF RecipientsMayDownload
  <1>4. LiveMinted'
    BY DEF LiveMinted, Live, Kept, FilesInv
  <1>5. QED
    BY <1>2, <1>3, <1>4

\* What is kept is typed, and no younger than now.
LEMMA KeptTyped ==
    ASSUME FilesInv, Kept, files' \in [FileId -> FileRecord \cup {NoFile}],
           data' \in SUBSET FileId, UNCHANGED <<minted, attached>>, doomed' \in SUBSET FileId,
           download' \in [Download -> DownloadRecord \cup {NoFile}]
    PROVE  FilesTypeOK'
  BY DEF FilesInv, FilesTypeOK, Kept, Live, DownloadRecord

-----------------------------------------------------------------------------
(* The steps.                                                              *)

LEMMA FilesInvInit == FilesInit => FilesInv
  <1> SUFFICES ASSUME FilesInit
               PROVE  FilesInv
    OBVIOUS
  <1>1. TypeOK /\ StoreInv
    BY TypeInit, StoreInvInit DEF FilesInit
  <1>2. Live = {} /\ Stored = {}
    BY DEF FilesInit, Init, Live, Stored
  <1>3. QED
    BY <1>1, <1>2 DEF FilesInv, FilesInit, FilesTypeOK, HalvesTogether, LiveMinted, SnapshotsHonest,
                      RecipientsMayDownload

\* Registration and time.
LEMMA StorePreserves ==
    ASSUME FilesInv, Tick \/ \E name \in Address : CreateAccount(name), UNCHANGED fileVars
    PROVE  FilesInv'
  <1>1. TypeOK' /\ StoreInv'
    BY TypeStep, StoreInvStep DEF FilesInv, Next
  <1>2. UNCHANGED <<messages, inbox>> /\ Stored' = Stored /\ now <= now'
    BY DEF Tick, CreateAccount, Stored, FilesInv, TypeOK, storeVars
  <1>3. Kept
    BY <1>2 DEF FilesInv, FilesTypeOK, Live, Kept, FileRecord, fileVars, TypeOK, Tick, CreateAccount
  <1>4. FilesTypeOK'
    BY <1>3, KeptTyped DEF FilesInv, FilesTypeOK, fileVars, DownloadRecord
  <1>5. SnapshotsHonest' /\ RecipientsMayDownload' /\ LiveMinted'
    BY <1>2, <1>3, KeptGrants DEF fileVars
  <1>6. HalvesTogether'
    BY DEF FilesInv, HalvesTogether, Live, fileVars
  <1>7. QED
    BY <1>1, <1>4, <1>5, <1>6 DEF FilesInv

\* An upload gets an id that no snapshot names.
LEMMA SavePreserves ==
    ASSUME FilesInv, NEW who \in Caller, NEW f \in FileId \ minted, NEW size \in Size,
           NEW allowed \in Grants, SaveFile(who, f, size, allowed)
    PROVE  FilesInv'
  <1> DEFINE r == [owner |-> who, size |-> size, createdAt |-> now, allowed |-> allowed]
  <1>1. r \in FileRecord /\ r # NoFile /\ r.createdAt = now
    BY RecordLives, FilesAssumption DEF FileRecord, Caller, FilesInv, TypeOK
  <1>2. /\ files' = [files EXCEPT ![f] = r]
        /\ data' = data \cup {f} /\ minted' = minted \cup {f}
        /\ UNCHANGED <<vars, attached, doomed, download>>
    BY DEF SaveFile
  <1> HIDE DEF r
  <1>3. TypeOK' /\ StoreInv' /\ Stored' = Stored /\ UNCHANGED <<now, inbox, messages>>
    BY <1>2, TypeStep, StoreInvStep DEF FilesInv, vars, Stored
  <1>4. Live' = Live \cup {f}
    BY <1>1, <1>2 DEF Live, FilesInv, FilesTypeOK
  <1>5. FilesTypeOK'
    BY <1>1, <1>2, <1>3, <1>4 DEF FilesInv, FilesTypeOK, TypeOK, Live
  <1>6. HalvesTogether' /\ LiveMinted'
    BY <1>2, <1>4 DEF FilesInv, HalvesTogether, LiveMinted
  <1>7. ASSUME NEW m \in Stored, NEW s \in attached[m]
        PROVE  s.file \in minted /\ s.file # f /\ files'[s.file] = files[s.file]
    <2>1. s.file \in minted /\ s.file \in FileId
      BY DEF FilesInv, SnapshotsHonest, FilesTypeOK, Stored
    <2>2. QED
      BY <1>2, <2>1 DEF FilesInv, FilesTypeOK
  <1>8. SnapshotsHonest'
    BY <1>2, <1>3, <1>4, <1>7 DEF FilesInv, SnapshotsHonest
  <1>9. RecipientsMayDownload'
    BY <1>2, <1>3, <1>4, <1>7 DEF FilesInv, RecipientsMayDownload, Authorized
  <1>10. QED
    BY <1>3, <1>5, <1>6, <1>8, <1>9 DEF FilesInv

\* Deletion, renewal, the sweep and downloads take no grant from what lives.
LEMMA KeepingPreserves ==
    ASSUME FilesInv,
           \/ SweepCollect \/ SweepDelete \/ CrashFiles
           \/ \E who \in Caller, f \in FileId :
                 DeleteFile(who, f) \/ ExtendFile(who, f)
                 \/ \E d \in Download : AuthorizeFileDownload(d, who, f)
           \/ \E d \in Download : GetFileContent(d) \/ Served(d)
    PROVE  FilesInv'
  <1>1. UNCHANGED <<vars, minted, attached>>
    BY DEF SweepCollect, SweepDelete, CrashFiles, DeleteFile, ExtendFile, AuthorizeFileDownload,
           GetFileContent, Served
  <1>2. TypeOK' /\ StoreInv' /\ Stored' = Stored /\ UNCHANGED <<messages, inbox, now>>
    BY <1>1, TypeStep, StoreInvStep DEF FilesInv, vars, Stored
  <1> DEFINE Fine == /\ Kept /\ files' \in [FileId -> FileRecord \cup {NoFile}]
                     /\ data' = Live' /\ doomed' \in SUBSET FileId
                     /\ download' \in [Download -> DownloadRecord \cup {NoFile}]
  <1>3. ASSUME UNCHANGED files
        PROVE  Kept /\ files' \in [FileId -> FileRecord \cup {NoFile}] /\ Live' = Live
    BY <1>2, <1>3 DEF Kept, FilesInv, FilesTypeOK, Live, FileRecord, TypeOK
  <1>4. ASSUME NEW S \in SUBSET FileId,
               files' = [f \in FileId |-> IF f \in S THEN NoFile ELSE files[f]]
        PROVE  Kept /\ files' \in [FileId -> FileRecord \cup {NoFile}] /\ Live' = Live \ S
    BY <1>2, <1>4 DEF Kept, FilesInv, FilesTypeOK, Live, FileRecord, TypeOK
  <1> USE DEF FilesInv, FilesTypeOK, HalvesTogether, DownloadRecord
  <1>5. ASSUME SweepCollect
        PROVE  Fine
    BY <1>3, <1>5 DEF SweepCollect, Live
  <1>6. ASSUME CrashFiles
        PROVE  Fine
    BY <1>3, <1>6 DEF CrashFiles
  <1>7. ASSUME SweepDelete
        PROVE  Fine
    <2>1. data' = data \ {f \in doomed : files[f] # NoFile} /\ doomed' = {} /\ download' = download
      BY <1>7 DEF SweepDelete
    <2>2. Kept /\ files' \in [FileId -> FileRecord \cup {NoFile}] /\ Live' = Live \ doomed
      BY <1>4, <1>7 DEF SweepDelete
    <2>3. data' = Live'
      BY <2>1, <2>2 DEF Live
    <2>4. QED
      BY <2>1, <2>2, <2>3
  <1>8. ASSUME NEW who \in Caller, NEW f \in FileId, DeleteFile(who, f)
        PROVE  Fine
    <2>1. files' = [g \in FileId |-> IF g \in {f} THEN NoFile ELSE files[g]]
      BY <1>8 DEF DeleteFile
    <2>2. Kept /\ files' \in [FileId -> FileRecord \cup {NoFile}] /\ Live' = Live \ {f}
      BY <1>4, <2>1
    <2>3. QED
      BY <1>8, <2>2 DEF DeleteFile
  <1>9. ASSUME NEW who \in Caller, NEW f \in FileId, ExtendFile(who, f)
        PROVE  Fine
    <2> DEFINE r == [files[f] EXCEPT !.createdAt = now]
    <2>1. files[f] \in FileRecord /\ f \in Live /\ files[f].createdAt <= now /\ now \in Nat
      BY <1>9 DEF ExtendFile, Own, Live, TypeOK
    <2>2. /\ r \in FileRecord /\ r # NoFile
          /\ r.owner = files[f].owner /\ r.allowed = files[f].allowed /\ r.createdAt = now
      BY <2>1, RecordLives DEF FileRecord
    <2>3. files' = [files EXCEPT ![f] = r]
      BY <1>9 DEF ExtendFile
    <2> HIDE DEF r
    <2>4. files' \in [FileId -> FileRecord \cup {NoFile}] /\ Live' = Live
      BY <2>1, <2>2, <2>3 DEF Live
    <2>5. Kept
      BY <1>2, <2>1, <2>2, <2>3 DEF Kept, FileRecord, Live
    <2>6. QED
      BY <1>9, <2>4, <2>5 DEF ExtendFile
  <1>10. ASSUME NEW who \in Caller, NEW f \in FileId, NEW d \in Download,
                AuthorizeFileDownload(d, who, f)
         PROVE  Fine
    <2>1. [file |-> f, who |-> who, served |-> FALSE] \in DownloadRecord
      BY DEF Caller
    <2>2. QED
      BY <1>3, <1>10, <2>1 DEF AuthorizeFileDownload
  <1>11. ASSUME NEW d \in Download, GetFileContent(d) \/ Served(d)
         PROVE  Fine
    <2>1. download[d] # NoFile => download[d] \in DownloadRecord
      OBVIOUS
    <2>2. CASE GetFileContent(d)
      <3>1. [download[d] EXCEPT !.served = TRUE] \in DownloadRecord
        BY <2>1, <2>2 DEF GetFileContent
      <3>2. QED
        BY <1>3, <2>2, <3>1 DEF GetFileContent
    <2>3. CASE Served(d)
      BY <1>3, <2>3 DEF Served
    <2>4. QED
      BY <1>11, <2>2, <2>3
  <1>12. Fine
    BY <1>5, <1>6, <1>7, <1>8, <1>9, <1>10, <1>11
  <1>13. FilesTypeOK'
    BY <1>1, <1>12, KeptTyped DEF Live
  <1>14. SnapshotsHonest' /\ RecipientsMayDownload' /\ LiveMinted'
    BY <1>1, <1>2, <1>12, KeptGrants
  <1>15. QED
    BY <1>2, <1>12, <1>13, <1>14

\* Mail that names files is granted to all whom it reaches, in one step.
LEMMA AttachPreserves ==
    ASSUME FilesInv, NEW who \in Caller, NEW env \in Envelope, NEW id \in FreshId,
           NEW S \in (SUBSET Live) \ {{}},
           SendWithAttachments(id, [from |-> who, to |-> env.to, cc |-> env.cc,
                                    inReplyTo |-> NoMsg], S)
    PROVE  FilesInv' /\ StepAtomic
  <1> DEFINE msg == [from |-> who, to |-> env.to, cc |-> env.cc, inReplyTo |-> NoMsg]
  <1>1. /\ msg \in Message /\ msg.inReplyTo \in Stored \cup {NoMsg} /\ id \in MsgId \ Stored
        /\ msg.from = who /\ Recipients(msg) \subseteq Key
    BY InputAssumption DEF Message, FreshId, Caller, Recipients, Key
  <1> HIDE DEF msg
  <1>2. /\ Deliver(id, msg) /\ UNCHANGED <<now, pc, req, data, minted, doomed, download>>
        /\ \A f \in S : Own(f, who)
        /\ files' = [f \in FileId |-> IF f \in S THEN Granted(f, msg) ELSE files[f]]
        /\ attached' = [attached EXCEPT ![id] = {Snapshot(f) : f \in S}]
    BY <1>1 DEF SendWithAttachments, msg
  <1>3. TypeOK' /\ StoreInv' /\ StepAtomic
    BY <1>1, <1>2, ForeignDelivery DEF FilesInv
  <1>4. /\ Stored' = Stored \cup {id} /\ messages'[id] = msg
        /\ \A m \in Stored : messages'[m] = messages[m]
    BY <1>1, <1>2, StoredAfter DEF FilesInv
  <1>5. ASSUME NEW f \in Live
        PROVE  /\ files[f] \in FileRecord /\ files'[f] \in FileRecord /\ files'[f] # NoFile
               /\ files'[f].owner = files[f].owner /\ files'[f].createdAt = files[f].createdAt
               /\ files[f].allowed \subseteq files'[f].allowed
               /\ f \in S => (Recipients(msg) \cap accounts) \ {Lower[files[f].owner]}
                                \subseteq files'[f].allowed
    <2>1. files[f] \in FileRecord /\ f \in FileId
      BY DEF FilesInv, FilesTypeOK, Live
    <2>2. Granted(f, msg) \in FileRecord
      BY <1>1, <2>1 DEF Granted, FileRecord
    <2>3. QED
      BY <1>2, <2>1, <2>2, RecordLives DEF Granted, FileRecord
  <1>6. Live' = Live
    BY <1>2, <1>5 DEF Live
  <1>7. files' \in [FileId -> FileRecord \cup {NoFile}]
    BY <1>2, <1>5 DEF FilesInv, FilesTypeOK, Live
  <1>8. \A f \in S : f \in Live /\ Snapshot(f) \in [file : FileId, createdAt : Nat]
    BY <1>5 DEF Snapshot, FileRecord, Live
  <1>9. FilesTypeOK'
    <2>1. {Snapshot(f) : f \in S} \in SUBSET [file : FileId, createdAt : Nat]
      BY <1>8
    <2>2. attached' \in [MsgId -> SUBSET [file : FileId, createdAt : Nat]]
      BY <1>2, <2>1 DEF FilesInv, FilesTypeOK
    <2>3. \A f \in Live' : files'[f].createdAt <= now'
      BY <1>2, <1>5, <1>6 DEF FilesInv, FilesTypeOK
    <2>4. QED
      BY <1>2, <1>7, <2>2, <2>3 DEF FilesInv, FilesTypeOK
  <1>10. HalvesTogether' /\ LiveMinted'
    BY <1>2, <1>6 DEF FilesInv, HalvesTogether, LiveMinted
  <1>11. ASSUME NEW m \in Stored', NEW s \in attached'[m]
         PROVE  /\ s.file \in minted'
                /\ s.file \in Live' =>
                     /\ Lower[files'[s.file].owner] = Lower[messages'[m].from]
                     /\ s.createdAt <= files'[s.file].createdAt
                     /\ \A a \in Key : m \in inbox'[a] => Authorized(a, s.file)'
    <2>1. CASE m = id
      <3>1. PICK f \in S : s = Snapshot(f)
        BY <1>1, <1>2, <2>1 DEF FilesInv, FilesTypeOK
      <3>2. s.file = f /\ s.createdAt = files[f].createdAt
        BY <3>1 DEF Snapshot
      <3>3. f \in Live /\ Lower[files[f].owner] = Lower[who] /\ f \in minted
        BY <1>2, <1>8 DEF Own, FilesInv, LiveMinted
      <3>4. \A a \in Key : id \in inbox'[a] => a \in Recipients(msg) \cap accounts
        BY <1>1, <1>2 DEF Deliver, FilesInv, StoreInv, RefsResolve
      <3>5. ASSUME NEW a \in Key, id \in inbox'[a]
            PROVE  Authorized(a, f)'
        BY <1>5, <1>6, <3>3, <3>4, <3>5, KeysAreAddresses DEF Authorized
      <3>6. s.file \in minted'
        BY <1>2, <3>2, <3>3
      <3>7. files'[f].owner = files[f].owner /\ files'[f].createdAt = files[f].createdAt
        BY <1>5, <3>3
      <3>8. Lower[files'[f].owner] = Lower[messages'[m].from]
        BY <1>1, <1>4, <2>1, <3>3, <3>7
      <3>9. s.createdAt <= files'[f].createdAt
        BY <1>5, <3>2, <3>3, <3>7 DEF FileRecord
      <3>10. QED
        BY <2>1, <3>2, <3>5, <3>6, <3>8, <3>9
    <2>2. CASE m # id
      <3>1. m \in Stored /\ s \in attached[m] /\ messages'[m] = messages[m]
        BY <1>1, <1>2, <1>4, <2>2 DEF FilesInv, FilesTypeOK
      <3>2. \A a \in Key : m \in inbox'[a] => m \in inbox[a]
        BY <1>2, <2>2 DEF Deliver
      <3>3. s.file \in minted
        BY <3>1 DEF FilesInv, SnapshotsHonest
      <3>4. ASSUME s.file \in Live
            PROVE  /\ Lower[files'[s.file].owner] = Lower[messages'[m].from]
                   /\ s.createdAt <= files'[s.file].createdAt
                   /\ \A a \in Key : m \in inbox'[a] => Authorized(a, s.file)'
        BY <1>5, <1>6, <3>1, <3>2, <3>4 DEF FilesInv, SnapshotsHonest, RecipientsMayDownload,
                                             Authorized
      <3>5. QED
        BY <1>2, <1>6, <3>3, <3>4
    <2>3. QED
      BY <2>1, <2>2
  <1>12. SnapshotsHonest' /\ RecipientsMayDownload'
    BY <1>11 DEF SnapshotsHonest, RecipientsMayDownload
  <1>13. QED
    BY <1>3, <1>9, <1>10, <1>12 DEF FilesInv

-----------------------------------------------------------------------------
(* Theorems.                                                               *)

LEMMA FilesInvStep ==
    ASSUME FilesInv, [FilesNext]_<<vars, fileVars>>
    PROVE  FilesInv' /\ [StepAtomic]_vars
  <1>1. CASE Tick /\ UNCHANGED fileVars
    BY <1>1, StorePreserves, StoreAtomic DEF FilesInv, StoreInv, Next
  <1>2. CASE (\E name \in Address : CreateAccount(name)) /\ UNCHANGED fileVars
    BY <1>2, StorePreserves, StoreAtomic DEF FilesInv, StoreInv, Next
  <1>3. ASSUME NEW who \in Caller, NEW f \in FileId \ minted, NEW size \in Size,
               NEW allowed \in Grants, SaveFile(who, f, size, allowed)
        PROVE  FilesInv' /\ UNCHANGED vars
    BY <1>3, SavePreserves DEF SaveFile
  <1>4. ASSUME \/ SweepCollect \/ SweepDelete \/ CrashFiles
               \/ \E who \in Caller, f \in FileId :
                     DeleteFile(who, f) \/ ExtendFile(who, f)
                     \/ \E d \in Download : AuthorizeFileDownload(d, who, f)
               \/ \E d \in Download : GetFileContent(d) \/ Served(d)
        PROVE  FilesInv' /\ UNCHANGED vars
    BY <1>4, KeepingPreserves DEF SweepCollect, SweepDelete, CrashFiles, DeleteFile, ExtendFile,
       AuthorizeFileDownload, GetFileContent, Served
  <1>5. CASE Manage
    BY <1>3, <1>4, <1>5 DEF Manage
  <1>6. CASE Attach
    BY <1>6, AttachPreserves DEF Attach
  <1>7. CASE UNCHANGED <<vars, fileVars>>
    <2>1. TypeOK' /\ StoreInv'
      BY <1>7, TypeStep, StoreInvStep DEF FilesInv
    <2>2. (FilesTypeOK /\ HalvesTogether /\ LiveMinted)'
      BY <1>7 DEF FilesInv, FilesTypeOK, HalvesTogether, LiveMinted, Live, fileVars, vars
    <2>3. (SnapshotsHonest /\ RecipientsMayDownload)'
      BY <1>7 DEF FilesInv, SnapshotsHonest, RecipientsMayDownload, Authorized, Live, Stored,
                  fileVars, vars
    <2>4. QED
      BY <1>7, <2>1, <2>2, <2>3 DEF FilesInv
  <1>8. QED
    BY <1>1, <1>2, <1>4, <1>5, <1>6, <1>7 DEF FilesNext

LEMMA FilesInvHolds == FilesSpec => []FilesInv
  BY FilesInvInit, FilesInvStep, PTL DEF FilesSpec

\* The state of attachments stays within its type, and no file is younger
\* than now, however often it is renewed.
THEOREM FilesTypeCorrect == FilesSpec => []FilesTypeOK
  BY FilesInvHolds, PTL DEF FilesInv

\* Record and content of a file come and go together, although the sweep
\* deletes what it collected a transaction ago.
THEOREM HalvesStayTogether == FilesSpec => []HalvesTogether
  BY FilesInvHolds, PTL DEF FilesInv

\* Whoever has a message may download the files it names, while they live.
THEOREM RecipientsKeepAccess == FilesSpec => []RecipientsMayDownload
  BY FilesInvHolds, PTL DEF FilesInv

\* A message names files of its sender only, with an expiry no later than
\* that of the file.
THEOREM SnapshotsStayHonest == FilesSpec => []SnapshotsHonest
  BY FilesInvHolds, PTL DEF FilesInv

\* Mail with files is delivered as atomically as mail without.
THEOREM AttachmentsDeliveredAtomically == FilesSpec => DeliveryAtomic
  BY FilesInvHolds, FilesInvStep, PTL DEF FilesSpec, DeliveryAtomic, StepAtomic

-----------------------------------------------------------------------------
(* Subordinates and Overview.                                              *)

-----------------------------------------------------------------------------
(* Lists.                                                                  *)

\* A is what a list of B may be: no longer than the limit, and when something
\* is left out it is full and all it has is newer.
Complete(A, B) ==
    /\ Cardinality(A) <= ListLimit
    /\ \A m \in B \ A : Cardinality(A) = ListLimit /\ \A x \in A : x > m

\* The newest ids of a set make a complete list of it.
LEMMA ListComplete ==
    ASSUME NEW S \in SUBSET MsgId
    PROVE  Complete(Newest(S), S)
  <1>1. S \in SUBSET Nat /\ IsFiniteSet(S)
    BY IdAssumption, IdsCountable
  <1>2. Newest(S) = NewestOf(S, ListLimit)
    BY DEF Newest, NewestOf, Newer, Above
  <1>3. QED
    BY <1>1, <1>2, NewestComplete, SubsAssumption DEF Complete

\* Two complete lists, of P and of Q, give one of both together.
LEMMA MergedComplete ==
    ASSUME NEW P \in SUBSET MsgId, NEW Q \in SUBSET MsgId,
           NEW A \in SUBSET MsgId, NEW C \in SUBSET MsgId,
           Complete(A, P), Complete(C, Q)
    PROVE  Complete(Newest(A \cup C), P \cup Q)
  <1> DEFINE U == A \cup C
             N == Newest(U)
  <1> USE IdsCountable, IdAssumption, SubsAssumption
  <1>1. Complete(N, U) /\ N \in SUBSET U
    BY ListComplete DEF Newest
  <1> /\ U \in SUBSET MsgId /\ N \in SUBSET MsgId /\ U \in SUBSET Nat /\ N \in SUBSET Nat
      /\ A \in SUBSET U /\ C \in SUBSET U
    BY <1>1
  <1> HIDE DEF N, U
  <1>2. ASSUME NEW B \in SUBSET U, Cardinality(B) = ListLimit,
               NEW m \in MsgId \ U, \A x \in B : x > m
        PROVE  Cardinality(N) = ListLimit /\ \A x \in N : x > m
    <2>1. Cardinality(N) = ListLimit
      <3>1. CASE U \ N = {}
        <4>1. N = U
          BY <1>1, <3>1
        <4>2. Cardinality(B) <= Cardinality(N)
          BY <4>1, IdsMonotone
        <4>3. QED
          BY <1>1, <1>2, <4>2 DEF Complete
      <3>2. CASE U \ N # {}
        BY <1>1, <3>2 DEF Complete
      <3>3. QED
        BY <3>1, <3>2
    <2>2. ASSUME NEW x \in N, x < m
          PROVE  FALSE
      <3>1. x \notin B
        BY <1>2, <2>2, <1>1
      <3>2. CASE B \subseteq N
        <4>1. B \in SUBSET N /\ IsFiniteSet(N) /\ N # B
          BY <1>1, <2>2, <3>1, <3>2
        <4>2. QED
          BY <1>2, <2>1, <4>1, FS_Subset
      <3>3. ASSUME NEW y \in B \ N
            PROVE  FALSE
        <4>1. x > y /\ y > m
          BY <1>1, <1>2, <3>3 DEF Complete
        <4>2. QED
          BY <1>1, <1>2, <2>2, <4>1
      <3>4. QED
        BY <3>2, <3>3
    <2>3. QED
      BY <1>1, <1>2, <2>1, <2>2
  <1>3. ASSUME NEW m \in (P \cup Q) \ N
        PROVE  Cardinality(N) = ListLimit /\ \A x \in N : x > m
    <2>1. CASE m \in U
      BY <1>1, <1>3, <2>1 DEF Complete
    <2>2. CASE m \in P \ U
      BY <1>2, <2>2 DEF Complete
    <2>3. CASE m \in Q \ U
      BY <1>2, <2>3 DEF Complete
    <2>4. QED
      BY <1>3, <2>1, <2>2, <2>3
  <1>4. QED
    BY <1>1, <1>3 DEF Complete, N, U

-----------------------------------------------------------------------------
(* The invariant.                                                          *)

\* The request of an overview.
Scan == [step : {"scan", "answer"}, me : Key, since : Since, subs : SUBSET Key,
         seen : SUBSET MsgId, before : SUBSET MsgId]

JobsTyped == job \in [Job -> View \cup List \cup Register \cup Scan \cup {IdleJob}]

\* An edge joins two different accounts.
EdgesTyped == subs \in SUBSET {e \in accounts \X accounts : e[1] # e[2]}

\* Every message, stored or about to be, has a recipient in To.
Addressed ==
    /\ \A m \in Stored : messages[m].to # {}
    /\ \A c \in Client : pc[c] = "send" => req[c].msg.to # {}

\* What a view has found: the body is the stored one, and once it is shown,
\* the target has a reference to it.
ViewHonest(v) ==
    /\ v.step \in {"referenced", "viewed"} => v.id \in Stored /\ v.msg = messages[v.id]
    /\ v.step = "viewed" => v.id \in MailboxOf(Lower[v.target])

\* What a list has found: the side or sides that it has read are complete for
\* the mailbox as it was in the beginning.
ListHonest(v) ==
    LET k == Lower[v.target] IN
    v \in List =>
    /\ v.before \subseteq MailboxOf(k)
    /\ v.step = "listInboxBodies" =>
          v.ids \subseteq inbox[k] /\ Complete(v.ids, v.before \cap inbox[k])
    /\ v.step \in {"listSent", "listSentBodies"} => Complete(v.out, v.before \cap inbox[k])
    /\ v.step = "listSentBodies" =>
          v.ids \subseteq sent[k] /\ Complete(v.ids, v.before \cap sent[k])
    /\ v.step = "list" => Complete(v.out, v.before)

\* What an overview has read: bodies that are stored, all those of the
\* beginning among them.
ScanHonest(v) ==
    v \in Scan =>
    /\ v.before \subseteq Stored /\ v.seen \subseteq Stored
    /\ v.step = "answer" => v.before \subseteq v.seen

Honest(v) == ViewHonest(v) /\ ListHonest(v) /\ ScanHonest(v)

OverviewInv ==
    /\ TypeOK /\ StoreInv /\ Addressed
    /\ EdgesTyped /\ JobsTyped
    /\ \A j \in Job : Honest(job[j])
    /\ \A r \in removals : r.id \in Stored

-----------------------------------------------------------------------------
(* The mail store within the composition.                                  *)

\* What the store sees of a step: a step of its own, the notification of a
\* removal, or the loss of all requests.
StoreStep ==
    \/ [Next]_vars
    \/ \E caller, other \in Key, id \in FreshId : RemoveSubordinate(caller, other, id)
    \/ CrashJobs

LEMMA CompositionStep ==
    ASSUME JobsTyped, [OverviewNext]_<<vars, subsVars>>
    PROVE  StoreStep
  <1>1. ASSUME Mail
        PROVE  Next
    <2>1. ASSUME NEW c \in Client, NEW who \in Caller, NEW env \in Envelope, NEW id \in FreshId,
                 StartSend(c, who, env, NoMsg, id)
          PROVE  Arrive(c)
      BY <2>1 DEF Arrive
    <2>2. QED
      BY <1>1, <2>1 DEF Mail, Next, Step
  <1>2. ASSUME Edges
        PROVE  StoreStep
    BY <1>2, LowerKey DEF Edges, DeclareSubordinate, RevokeSubordinate, StoreStep, Caller
  <1>3. ASSUME NEW j \in Job, Ask(j)
        PROVE  UNCHANGED vars
    BY <1>3 DEF Ask, StartView, StartList, StartRegister, StartJob
  <1>4. ASSUME NEW j \in Job, Work(j)
        PROVE  [Next]_vars
    <2>1. CASE RegisterCreate(j)
      <3>1. job[j].step = "create" /\ job[j] \in View \cup List \cup Register \cup Scan \cup {IdleJob}
        BY <2>1 DEF RegisterCreate, JobsTyped
      <3>2. job[j].name \in Address
        BY <3>1 DEF View, List, Register, Scan, IdleJob
      <3>3. QED
        BY <2>1, <3>2 DEF RegisterCreate, Next
    <2>2. ASSUME ~RegisterCreate(j)
          PROVE  UNCHANGED vars
      BY <1>4, <2>2 DEF Work, ViewAuthorize, GetSubordinateMessage, MessageReferencedBy, Answer,
         ListInboxIds, ListSentIds, ListIds, ListInboxBodies, ListSentBodies,
         RegisterDeclare, Finish
    <2>3. QED
      BY <2>1, <2>2
  <1>5. ASSUME NEW j \in Job, OverviewWork(j)
        PROVE  UNCHANGED vars
    BY <1>5 DEF OverviewWork, StartOverview, StartJob, ScanMessages, RespondOverview
  <1>6. QED
    BY <1>1, <1>2, <1>3, <1>4, <1>5 DEF OverviewNext, SubsNext, StoreStep
\* The notification is a delivery of a new message.
LEMMA RemovalFacts ==
    ASSUME TypeOK, NEW caller \in Key, NEW other \in Key, NEW id \in FreshId,
           RemoveSubordinate(caller, other, id)
    PROVE  /\ id \in MsgId \ Stored
           /\ Notification(caller, other) \in Message
           /\ Notification(caller, other).inReplyTo = NoMsg
           /\ Deliver(id, Notification(caller, other))
           /\ UNCHANGED <<now, pc, req>>
  <1>1. Key \subseteq Address
    BY LowerAssumption DEF Key
  <1>2. QED
    BY <1>1 DEF RemoveSubordinate, Notification, Message, FreshId

\* No message that is stored gets another reference.
OldReferences ==
    \A a \in Key : \A m \in Stored :
        (m \in inbox'[a] <=> m \in inbox[a]) /\ (m \in sent'[a] <=> m \in sent[a])

\* What holds of the mail store holds in the composition, step by step.
LEMMA StoreStepKeeps ==
    ASSUME TypeOK, StoreInv, StoreStep
    PROVE  TypeOK' /\ StoreInv' /\ StepAtomic /\ OldReferences /\ accounts \subseteq accounts'
  <1>1. ASSUME NEW id \in MsgId \ Stored, NEW msg \in Message, Deliver(id, msg)
        PROVE  OldReferences /\ accounts' = accounts
    BY <1>1 DEF OldReferences, Deliver
  <1>2. CASE [Next]_vars
    <2>1. TypeOK' /\ StoreInv' /\ StepAtomic
      BY <1>2, TypeStep, StoreInvStep, StoreAtomic DEF StoreInv
    <2>2. OldReferences /\ accounts \subseteq accounts'
      BY <1>1, <1>2, StepShape, CommitFacts DEF NoDelivery, OldReferences
    <2>3. QED
      BY <2>1, <2>2
  <1>3. ASSUME NEW caller \in Key, NEW other \in Key, NEW id \in FreshId,
               RemoveSubordinate(caller, other, id)
        PROVE  TypeOK' /\ StoreInv' /\ StepAtomic /\ OldReferences /\ accounts' = accounts
    <2>1. /\ id \in MsgId \ Stored /\ Notification(caller, other) \in Message
          /\ Notification(caller, other).inReplyTo = NoMsg
          /\ Deliver(id, Notification(caller, other))
          /\ UNCHANGED <<now, pc, req>>
      BY <1>3, RemovalFacts
    <2>2. QED
      BY <1>1, <2>1, ForeignDelivery
  <1>4. CASE CrashJobs
    <2>1. UNCHANGED <<storeVars, now>> /\ pc' = [c \in Client |-> "idle"]
          /\ req' = [c \in Client |-> NoRequest]
      BY <1>4 DEF CrashJobs
    <2>2. TypeOK'
      BY <2>1, NoRequestType DEF TypeOK, Sending, storeVars
    <2>3. StoreInv' /\ StepAtomic /\ OldReferences
      BY <2>1 DEF StoreInv, RefsResolve, UnreadWithinInbox, ReplyForest, Parent, Stored,
                  Recipients, StepAtomic, OldReferences, storeVars
    <2>4. QED
      BY <2>1, <2>2, <2>3 DEF storeVars
  <1>5. QED
    BY <1>2, <1>3, <1>4 DEF StoreStep

\* What a job holds stays true while others act.
LEMMA OthersHonest ==
    ASSUME TypeOK, RefsResolve, StepAtomic, OldReferences, Stored \subseteq Stored',
           NEW v \in View \cup List \cup Register \cup Scan \cup {IdleJob}, Honest(v)
    PROVE  Honest(v)'
  <1>1. v \in View \/ v \in List => Lower[v.target] \in Key
    BY LowerKey DEF View, List
  <1>2. ViewHonest(v)'
    <2>1. CASE v.step \in {"referenced", "viewed"}
      <3>1. v \in View
        BY <2>1 DEF View, List, Register, Scan, IdleJob
      <3>2. QED
        BY <1>1, <3>1 DEF Honest, ViewHonest, StepAtomic, MailboxOf
    <2>2. QED
      BY <2>1 DEF ViewHonest
  <1>3. ListHonest(v)'
    <2> SUFFICES ASSUME v \in List
                 PROVE  ListHonest(v)'
      BY DEF ListHonest
    <2> DEFINE k == Lower[v.target]
    <2>1. v.before \subseteq MailboxOf(k) /\ v.before \subseteq Stored
      BY <1>1 DEF Honest, ListHonest, MailboxOf, RefsResolve
    <2>2. /\ v.before \cap inbox'[k] = v.before \cap inbox[k]
          /\ v.before \cap sent'[k] = v.before \cap sent[k]
          /\ inbox[k] \subseteq inbox'[k] /\ sent[k] \subseteq sent'[k]
      BY <1>1, <2>1 DEF OldReferences, StepAtomic
    <2>3. QED
      BY <2>1, <2>2 DEF Honest, ListHonest, MailboxOf, Complete
  <1>4. ScanHonest(v)'
    BY DEF Honest, ScanHonest
  <1>5. QED
    BY <1>2, <1>3, <1>4 DEF Honest

-----------------------------------------------------------------------------
(* The steps of a job.                                                     *)

JobType == View \cup List \cup Register \cup Scan \cup {IdleJob}

\* Every request that a job may start with is typed and honest.
LEMMA AskHonest ==
    ASSUME OverviewInv, NEW j \in Job,
           Ask(j) \/ \E who \in Caller, since \in Since : StartOverview(j, who, since)
    PROVE  \E v \in JobType : Do(j, v) /\ Honest(v) /\ UNCHANGED <<vars, subs, removals>>
  <1> Caller \subseteq Address
    BY DEF Caller
  <1>1. ASSUME NEW me \in Caller, NEW target \in Address, NEW id \in MsgId,
               StartView(j, me, target, id)
        PROVE  \E v \in View : Do(j, v) /\ Honest(v) /\ UNCHANGED <<vars, subs, removals>>
    <2> DEFINE v == [step |-> "authorize", me |-> me, target |-> target, id |-> id, msg |-> NoMsg]
    <2>1. v \in View /\ Honest(v)
      BY DEF View, Honest, ViewHonest, ListHonest, ScanHonest, List, Scan
    <2>2. QED
      BY <1>1, <2>1 DEF StartView, StartJob
  <1>2. ASSUME NEW me \in Caller, NEW target \in Address, StartList(j, me, target)
        PROVE  \E v \in List : Do(j, v) /\ Honest(v) /\ UNCHANGED <<vars, subs, removals>>
    <2> DEFINE v == [step |-> "listInbox", target |-> target, ids |-> {}, out |-> {},
                     before |-> MailboxOf(Lower[target])]
    <2>1. v \in List /\ Honest(v)
      BY LowerKey DEF List, Honest, ViewHonest, ListHonest, ScanHonest, Scan, MailboxOf,
                      OverviewInv, TypeOK
    <2>2. QED
      BY <1>2, <2>1 DEF StartList, StartJob
  <1>3. ASSUME NEW me \in Caller, NEW name \in Address, StartRegister(j, me, name)
        PROVE  \E v \in Register : Do(j, v) /\ Honest(v) /\ UNCHANGED <<vars, subs, removals>>
    <2> DEFINE v == [step |-> "create", me |-> me, name |-> name]
    <2>1. v \in Register /\ Honest(v)
      BY DEF Register, Honest, ViewHonest, ListHonest, ScanHonest, List, Scan
    <2>2. QED
      BY <1>3, <2>1 DEF StartRegister, StartJob
  <1>4. ASSUME NEW who \in Caller, NEW since \in Since, StartOverview(j, who, since)
        PROVE  \E v \in Scan : Do(j, v) /\ Honest(v) /\ UNCHANGED <<vars, subs, removals>>
    <2> DEFINE v == [step |-> "scan", me |-> Lower[who], since |-> since,
                     subs |-> SubordinatesOf(who), seen |-> {}, before |-> Stored]
    <2>1. v \in Scan /\ Honest(v)
      BY LowerKey DEF Scan, SubordinatesOf, Stored, Honest, ViewHonest, ListHonest, ScanHonest, List
    <2>2. QED
      BY <1>4, <2>1 DEF StartOverview, StartJob
  <1>5. QED
    BY <1>1, <1>2, <1>3, <1>4 DEF Ask, JobType

\* Which request is at a step.
LEMMA JobKinds ==
    ASSUME NEW v \in JobType
    PROVE  /\ v.step \in {"authorize", "body", "referenced", "viewed", "hidden"} => v \in View
           /\ v.step \in {"listInbox", "listInboxBodies", "listSent", "listSentBodies", "list"} => v \in List
           /\ v.step \in {"create", "declare"} => v \in Register
           /\ v.step \in {"scan", "answer"} => v \in Scan
  BY DEF JobType, View, List, Register, Scan, IdleJob

LEMMA IdleHonest == IdleJob \in JobType /\ Honest(IdleJob)
  BY DEF JobType, IdleJob, Honest, ViewHonest, ListHonest, ScanHonest, List, Scan

\* The transactions of a view.
LEMMA ViewStep ==
    ASSUME OverviewInv, NEW j \in Job,
           ViewAuthorize(j) \/ GetSubordinateMessage(j) \/ MessageReferencedBy(j)
    PROVE  \E v \in JobType : Do(j, v) /\ Honest(v) /\ UNCHANGED <<vars, subs, removals>>
  <1> DEFINE r == job[j]
  <1>1. r \in JobType /\ r.step \in {"authorize", "body", "referenced"}
    BY DEF OverviewInv, JobsTyped, JobType, ViewAuthorize, GetSubordinateMessage, MessageReferencedBy
  <1>2. r \in View /\ Honest(r)
    BY <1>1, JobKinds DEF OverviewInv
  <1>3. ASSUME NEW v \in View, ViewHonest(v)
        PROVE  v \in JobType /\ Honest(v)
    BY <1>3 DEF JobType, Honest, View, ListHonest, ScanHonest, List, Scan
  <1>4. ASSUME NEW next \in {"body", "hidden"}, Answer(j, next)
        PROVE  \E v \in JobType : Do(j, v) /\ Honest(v) /\ UNCHANGED <<vars, subs, removals>>
    <2> DEFINE v == [r EXCEPT !.step = next]
    <2>1. v \in View /\ ViewHonest(v)
      BY <1>2 DEF View, ViewHonest
    <2>2. QED
      BY <1>3, <1>4, <2>1 DEF Answer
  <1>5. CASE ViewAuthorize(j)
    BY <1>4, <1>5 DEF ViewAuthorize
  <1>6. CASE GetSubordinateMessage(j)
    <2>1. CASE r.id \in Stored
      <3> DEFINE v == [r EXCEPT !.step = "referenced", !.msg = messages[r.id]]
      <3>1. v \in View /\ ViewHonest(v)
        BY <1>2, <2>1 DEF View, ViewHonest, OverviewInv, TypeOK
      <3>2. QED
        BY <1>3, <1>6, <2>1, <3>1 DEF GetSubordinateMessage
    <2>2. QED
      BY <1>4, <1>6, <2>1 DEF GetSubordinateMessage
  <1>7. CASE MessageReferencedBy(j)
    <2> DEFINE next == IF r.id \in MailboxOf(Lower[r.target]) THEN "viewed" ELSE "hidden"
               v == [r EXCEPT !.step = next]
    <2>1. v \in View /\ ViewHonest(v)
      BY <1>2, <1>7 DEF View, Honest, ViewHonest, MessageReferencedBy
    <2>2. QED
      BY <1>3, <1>7, <2>1 DEF MessageReferencedBy, Answer
  <1>8. QED
    BY <1>5, <1>6, <1>7

\* The transactions of a list.
LEMMA ListStep ==
    ASSUME OverviewInv, NEW j \in Job,
           ListInboxIds(j) \/ ListInboxBodies(j) \/ ListSentIds(j) \/ ListSentBodies(j)
    PROVE  \E v \in JobType : Do(j, v) /\ Honest(v) /\ UNCHANGED <<vars, subs, removals>>
  <1> DEFINE r == job[j]
             k == Lower[r.target]
  <1>1. r \in JobType /\ r.step \in {"listInbox", "listInboxBodies", "listSent", "listSentBodies"}
    BY DEF OverviewInv, JobsTyped, JobType, ListInboxIds, ListSentIds, ListIds, ListInboxBodies,
           ListSentBodies
  <1>2. r \in List /\ Honest(r) /\ k \in Key
    BY <1>1, JobKinds, LowerKey DEF OverviewInv, List
  <1>3. /\ r.ids \in SUBSET MsgId /\ r.out \in SUBSET MsgId /\ r.before \in SUBSET MsgId
        /\ inbox[k] \in SUBSET MsgId /\ sent[k] \in SUBSET MsgId
        /\ inbox[k] \subseteq Stored /\ sent[k] \subseteq Stored
        /\ r.before \subseteq inbox[k] \cup sent[k]
    BY <1>2 DEF List, OverviewInv, TypeOK, StoreInv, RefsResolve, Honest, ListHonest, MailboxOf
  <1>4. \A S \in SUBSET MsgId : Newest(S) \in SUBSET S
    BY DEF Newest
  <1>5. ASSUME NEW v \in List, ListHonest(v)
        PROVE  v \in JobType /\ Honest(v)
    BY <1>5 DEF JobType, Honest, List, ViewHonest, ScanHonest, Scan
  <1>6. CASE ListInboxIds(j)
    <2> DEFINE v == [r EXCEPT !.step = "listInboxBodies", !.ids = Newest(inbox[k])]
    <2>1. v \in List /\ v.step = "listInboxBodies" /\ v.ids = Newest(inbox[k])
          /\ v.target = r.target /\ v.before = r.before
      BY <1>2, <1>3, <1>4 DEF List
    <2>2. Complete(v.ids, v.before \cap inbox[k])
      BY <1>3, <2>1, ListComplete DEF Complete
    <2>3. ListHonest(v)
      BY <1>3, <1>4, <2>1, <2>2 DEF ListHonest, MailboxOf
    <2>4. QED
      BY <1>5, <1>6, <2>1, <2>3 DEF ListInboxIds, ListIds
  <1>7. CASE ListInboxBodies(j)
    <2> DEFINE v == [r EXCEPT !.step = "listSent", !.out = r.ids \cap Stored]
    <2>1. r.ids \cap Stored = r.ids /\ Complete(r.ids, r.before \cap inbox[k])
      BY <1>2, <1>3, <1>7 DEF ListInboxBodies, Honest, ListHonest
    <2>2. v \in List /\ v.step = "listSent" /\ v.out = r.ids
          /\ v.target = r.target /\ v.before = r.before
      BY <1>2, <1>3, <2>1 DEF List
    <2>3. ListHonest(v)
      BY <1>3, <2>1, <2>2 DEF ListHonest, MailboxOf
    <2>4. QED
      BY <1>5, <1>7, <2>2, <2>3 DEF ListInboxBodies
  <1>8. CASE ListSentIds(j)
    <2> DEFINE v == [r EXCEPT !.step = "listSentBodies", !.ids = Newest(sent[k])]
    <2>1. v \in List /\ v.step = "listSentBodies" /\ v.ids = Newest(sent[k])
          /\ v.target = r.target /\ v.before = r.before /\ v.out = r.out
      BY <1>2, <1>3, <1>4 DEF List
    <2>2. Complete(v.ids, v.before \cap sent[k])
      BY <1>3, <2>1, ListComplete DEF Complete
    <2>3. Complete(v.out, v.before \cap inbox[k])
      BY <1>2, <1>8, <2>1 DEF ListSentIds, ListIds, Honest, ListHonest
    <2>4. ListHonest(v)
      BY <1>3, <1>4, <2>1, <2>2, <2>3 DEF ListHonest, MailboxOf
    <2>5. QED
      BY <1>5, <1>8, <2>1, <2>4 DEF ListSentIds, ListIds
  <1>9. CASE ListSentBodies(j)
    <2> DEFINE all == r.out \cup (r.ids \cap Stored)
               v == [r EXCEPT !.step = "list", !.out = Newest(all)]
    <2>1. /\ r.ids \cap Stored = r.ids
          /\ Complete(r.out, r.before \cap inbox[k]) /\ Complete(r.ids, r.before \cap sent[k])
      BY <1>2, <1>3, <1>9 DEF ListSentBodies, Honest, ListHonest
    <2>2. r.before = (r.before \cap inbox[k]) \cup (r.before \cap sent[k])
      BY <1>3
    <2>3. Complete(Newest(all), r.before)
      BY <1>3, <2>1, <2>2, MergedComplete
    <2>4. v \in List /\ v.step = "list" /\ v.out = Newest(all)
          /\ v.target = r.target /\ v.before = r.before
      BY <1>2, <1>3, <1>4 DEF List
    <2>5. ListHonest(v)
      BY <1>3, <2>3, <2>4 DEF ListHonest, MailboxOf
    <2>6. QED
      BY <1>5, <1>9, <2>4, <2>5 DEF ListSentBodies
  <1>10. QED
    BY <1>6, <1>7, <1>8, <1>9

\* The transactions of an overview.
LEMMA ScanStep ==
    ASSUME OverviewInv, NEW j \in Job, ScanMessages(j)
    PROVE  \E v \in JobType : Do(j, v) /\ Honest(v) /\ UNCHANGED <<vars, subs, removals>>
  <1> DEFINE r == job[j]
             v == [r EXCEPT !.step = "answer", !.seen = Stored]
  <1>1. r \in Scan /\ Honest(r)
    BY JobKinds DEF OverviewInv, JobsTyped, JobType, ScanMessages
  <1>2. /\ v \in Scan /\ v.step = "answer" /\ v.seen = Stored /\ v.before = r.before
        /\ v.before \subseteq Stored
    BY <1>1 DEF Scan, Stored, Honest, ScanHonest
  <1>3. v \in JobType /\ Honest(v)
    BY <1>2 DEF JobType, Honest, ViewHonest, ListHonest, ScanHonest, Scan, List
  <1>4. QED
    BY <1>3 DEF ScanMessages

\* Whatever a job does, it holds something typed and honest afterwards.
LEMMA JobStep ==
    ASSUME OverviewInv, NEW j \in Job, Ask(j) \/ Work(j) \/ OverviewWork(j)
    PROVE  \E v \in JobType : Do(j, v) /\ (Honest(v) \/ v \in Register)
  <1>1. CASE Ask(j) \/ \E who \in Caller, since \in Since : StartOverview(j, who, since)
    BY <1>1, AskHonest
  <1>2. CASE ViewAuthorize(j) \/ GetSubordinateMessage(j) \/ MessageReferencedBy(j)
    BY <1>2, ViewStep
  <1>3. CASE ListInboxIds(j) \/ ListInboxBodies(j) \/ ListSentIds(j) \/ ListSentBodies(j)
    BY <1>3, ListStep
  <1>4. CASE ScanMessages(j)
    BY <1>4, ScanStep
  <1>5. CASE RegisterCreate(j)
    <2>1. job[j] \in Register
      BY <1>5, JobKinds DEF RegisterCreate, OverviewInv, JobsTyped, JobType
    <2>2. [job[j] EXCEPT !.step = "declare"] \in Register
      BY <2>1 DEF Register
    <2>3. QED
      BY <1>5, <2>2, IdleHonest DEF RegisterCreate, JobType
  <1>6. CASE RegisterDeclare(j) \/ Finish(j) \/ RespondOverview(j)
    BY <1>6, IdleHonest DEF RegisterDeclare, Finish, RespondOverview
  <1>7. QED
    BY <1>1, <1>2, <1>3, <1>4, <1>5, <1>6 DEF Work, OverviewWork

-----------------------------------------------------------------------------
(* The invariant holds.                                                    *)

\* Nobody sends a message without a recipient in To.
LEMMA AddressedStep ==
    ASSUME TypeOK, Addressed, StoreStep
    PROVE  Addressed'
  <1>1. ASSUME NEW id \in MsgId \ Stored, NEW msg \in Message, Deliver(id, msg), msg.to # {}
        PROVE  \A m \in Stored' : messages'[m].to # {}
    BY <1>1, StoredAfter DEF Addressed
  <1>2. CASE [Next]_vars
    <2>1. \A m \in Stored' : messages'[m].to # {}
      <3>1. CASE NoDelivery
        BY <3>1 DEF NoDelivery, Addressed, Stored
      <3>2. ASSUME NEW c \in Client, SendCommit(c)
            PROVE  \A m \in Stored' : messages'[m].to # {}
        BY <1>1, <3>2, CommitFacts DEF Addressed, SendCommit
      <3>3. QED
        BY <1>2, <3>1, <3>2, StepShape
    <2>2. ASSUME NEW c \in Client, pc'[c] = "send"
          PROVE  req'[c].msg.to # {}
      <3>1. CASE pc[c] = "send" /\ req'[c] = req[c]
        BY <3>1 DEF Addressed
      <3>2. ASSUME NEW d \in Client, Arrive(d)
            PROVE  (pc[c] = "send" /\ req'[c] = req[c]) \/ req'[c].msg.to # {}
        <4>1. CASE c # d
          BY <2>2, <3>2, <4>1 DEF Arrive, StartSend, StartGet, StartMarkAll, StartInbox, TypeOK,
             Start, Goto, Hold
        <4>2. CASE c = d
          BY <2>2, <3>2, <4>2, OverviewAssumption DEF Arrive, StartSend, StartGet, StartMarkAll,
             StartInbox, TypeOK, Start, Goto, Hold, NewRequest
        <4>3. QED
          BY <4>1, <4>2
      <3>3. ASSUME NEW d \in Client, Step(d)
            PROVE  pc[c] = "send" /\ req'[c] = req[c]
        BY <2>2, <3>3 DEF Step, SendNoParent, SendCommit, GetVisible, GetBody, MarkReadView,
           MarkReadUpdate, MarkAllCollect, MarkAllClear, ReadIndexIds, ReadIndexBodies,
           CountUnread, CountInbox, TouchLastReadPull, Respond, Goto, Hold, Answered, TypeOK
      <3>4. CASE Crash
        BY <2>2, <3>4 DEF Crash
      <3>5. CASE Tick \/ UNCHANGED vars \/ \E name \in Address : CreateAccount(name)
        BY <2>2, <3>1, <3>5 DEF Tick, CreateAccount, vars
      <3>6. QED
        BY <1>2, <3>1, <3>2, <3>3, <3>4, <3>5 DEF Next
    <2>3. QED
      BY <2>1, <2>2 DEF Addressed
  <1>3. ASSUME NEW caller \in Key, NEW other \in Key, NEW id \in FreshId,
               RemoveSubordinate(caller, other, id)
        PROVE  Addressed'
    BY <1>1, <1>3, RemovalFacts DEF Addressed, Notification
  <1>4. CASE CrashJobs
    BY <1>4 DEF CrashJobs, Addressed, storeVars, Stored
  <1>5. QED
    BY <1>2, <1>3, <1>4 DEF StoreStep

\* What a step does to the edges and to the record of removals.
LEMMA EdgeStep ==
    ASSUME OverviewInv, [OverviewNext]_<<vars, subsVars>>, accounts \subseteq accounts'
    PROVE  /\ EdgesTyped'
           /\ \/ removals' = removals
              \/ \E caller, other \in Key, id \in FreshId : RemoveSubordinate(caller, other, id)
  <1>1. ASSUME subs' \in SUBSET subs
        PROVE  EdgesTyped'
    BY <1>1 DEF OverviewInv, EdgesTyped
  <1>2. ASSUME NEW a, NEW b, Declare(a, b)
        PROVE  EdgesTyped'
    BY <1>2 DEF OverviewInv, EdgesTyped, Declare
  <1>3. CASE UNCHANGED <<subs, removals>>
    BY <1>1, <1>3
  <1>4. CASE Edges
    <2> PICK me \in Caller, other \in Address :
          \/ other \in Superior /\ DeclareSubordinate(other, me)
          \/ RevokeSubordinate(other, me)
          \/ \E id \in FreshId : RemoveSubordinate(Lower[me], Lower[other], id)
      BY <1>4 DEF Edges
    <2>1. Lower[me] \in Key /\ Lower[other] \in Key
      BY LowerKey DEF Caller
    <2>2. CASE DeclareSubordinate(other, me)
      BY <1>2, <2>2 DEF DeclareSubordinate
    <2>3. CASE RevokeSubordinate(other, me)
      BY <1>1, <2>3 DEF RevokeSubordinate
    <2>4. ASSUME NEW id \in FreshId, RemoveSubordinate(Lower[me], Lower[other], id)
          PROVE  EdgesTyped'
      BY <1>1, <2>4 DEF RemoveSubordinate
    <2>5. QED
      BY <2>1, <2>2, <2>3, <2>4 DEF DeclareSubordinate, RevokeSubordinate
  <1>5. ASSUME NEW j \in Job, Ask(j)
        PROVE  UNCHANGED <<subs, removals>>
    BY <1>5 DEF Ask, StartView, StartList, StartRegister, StartJob
  <1>6. ASSUME NEW j \in Job, OverviewWork(j)
        PROVE  UNCHANGED <<subs, removals>>
    BY <1>6 DEF OverviewWork, StartOverview, StartJob, ScanMessages, RespondOverview
  <1>7. ASSUME NEW j \in Job, Work(j)
        PROVE  EdgesTyped' /\ removals' = removals
    <2>1. CASE RegisterDeclare(j)
      BY <1>2, <2>1 DEF RegisterDeclare
    <2>2. ASSUME ~RegisterDeclare(j)
          PROVE  UNCHANGED <<subs, removals>>
      BY <1>7, <2>2 DEF Work, ViewAuthorize, GetSubordinateMessage, MessageReferencedBy, Answer,
         ListInboxIds, ListSentIds, ListIds, ListInboxBodies, ListSentBodies,
         RegisterCreate, Finish
    <2>3. QED
      BY <1>3, <2>1, <2>2
  <1>8. CASE Mail \/ CrashJobs \/ UNCHANGED <<vars, subsVars>>
    BY <1>3, <1>8 DEF Mail, CrashJobs, subsVars
  <1>9. QED
    BY <1>3, <1>4, <1>5, <1>6, <1>7, <1>8 DEF OverviewNext, SubsNext

LEMMA OverviewInvInit == SubsInit => OverviewInv
  <1> SUFFICES ASSUME SubsInit
               PROVE  OverviewInv
    OBVIOUS
  <1>1. TypeOK /\ StoreInv
    BY TypeInit, StoreInvInit DEF SubsInit
  <1>2. Addressed
    BY DEF SubsInit, Init, Addressed, Stored
  <1>3. EdgesTyped /\ JobsTyped /\ (\A j \in Job : Honest(job[j])) /\ removals = {}
    BY IdleHonest DEF SubsInit, EdgesTyped, JobsTyped
  <1>4. QED
    BY <1>1, <1>2, <1>3 DEF OverviewInv

LEMMA OverviewInvStep ==
    ASSUME OverviewInv, [OverviewNext]_<<vars, subsVars>>
    PROVE  OverviewInv'
  <1>1. TypeOK /\ StoreInv /\ RefsResolve /\ StoreStep
    BY CompositionStep DEF OverviewInv, StoreInv
  <1>2. TypeOK' /\ StoreInv' /\ StepAtomic /\ OldReferences /\ accounts \subseteq accounts'
    BY <1>1, StoreStepKeeps
  <1>3. Addressed'
    BY <1>1, AddressedStep DEF OverviewInv
  <1>4. Stored \subseteq Stored'
    BY <1>2, IdAssumption DEF StepAtomic, Stored
  <1>5. EdgesTyped'
    BY <1>2, EdgeStep
  <1>6. \A r \in removals' : r.id \in Stored'
    <2>1. ASSUME NEW caller \in Key, NEW other \in Key, NEW id \in FreshId,
                 RemoveSubordinate(caller, other, id)
          PROVE  \A r \in removals' : r.id \in Stored'
      BY <1>1, <1>4, <2>1, RemovalFacts, StoredAfter DEF RemoveSubordinate, OverviewInv
    <2>2. QED
      BY <1>2, <1>4, <2>1, EdgeStep DEF OverviewInv
  <1>7. \A v \in JobType : Honest(v) => Honest(v)'
    BY <1>1, <1>2, <1>4, OthersHonest DEF JobType
  <1>8. JobsTyped' /\ (\A j \in Job : Honest(job[j]))'
    <2>1. ASSUME NEW j \in Job, NEW v \in JobType, Do(j, v), Honest(v) \/ v \in Register
          PROVE  JobsTyped' /\ (\A i \in Job : Honest(job[i]))'
      <3>1. Honest(v)'
        <4>1. CASE v \in Register
          BY <4>1 DEF Register, Honest, ViewHonest, ListHonest, ScanHonest, List, Scan
        <4>2. QED
          BY <1>7, <2>1, <4>1
      <3>2. job'[j] = v /\ \A i \in Job \ {j} : job'[i] = job[i]
        BY <2>1 DEF Do, OverviewInv, JobsTyped
      <3>3. JobsTyped'
        BY <2>1 DEF Do, OverviewInv, JobsTyped, JobType
      <3>4. ASSUME NEW i \in Job
            PROVE  Honest(job[i])'
        <4>1. CASE i = j
          BY <3>1, <3>2, <4>1 DEF Honest, ViewHonest, ListHonest, ScanHonest
        <4>2. CASE i # j
          <5>1. job[i] \in JobType /\ Honest(job[i]) /\ job'[i] = job[i]
            BY <3>2, <4>2 DEF OverviewInv, JobsTyped, JobType
          <5>2. QED
            BY <1>7, <5>1 DEF Honest, ViewHonest, ListHonest, ScanHonest
        <4>3. QED
          BY <4>1, <4>2
      <3>5. QED
        BY <3>3, <3>4
    <2>2. CASE UNCHANGED job
      <3>1. \A i \in Job : job'[i] \in JobType /\ Honest(job'[i])
        BY <2>2 DEF OverviewInv, JobsTyped, JobType
      <3>2. QED
        BY <1>7, <2>2, <3>1 DEF OverviewInv, JobsTyped, JobType, Honest, ViewHonest, ListHonest,
                                ScanHonest
    <2>3. CASE CrashJobs
      <3>1. job' = [i \in Job |-> IdleJob] /\ Honest(IdleJob)'
        BY <1>7, <2>3, IdleHonest DEF CrashJobs
      <3>2. QED
        BY <3>1 DEF JobsTyped, Honest, ViewHonest, ListHonest, ScanHonest
    <2>4. CASE Mail \/ Edges \/ UNCHANGED <<vars, subsVars>>
      BY <2>2, <2>4 DEF Mail, Edges, DeclareSubordinate, RevokeSubordinate, RemoveSubordinate, subsVars
    <2>5. ASSUME NEW j \in Job, Ask(j) \/ Work(j) \/ OverviewWork(j)
          PROVE  JobsTyped' /\ (\A i \in Job : Honest(job[i]))'
      BY <2>1, <2>5, JobStep
    <2>6. QED
      BY <2>3, <2>4, <2>5 DEF OverviewNext, SubsNext
  <1>9. QED
    BY <1>2, <1>3, <1>5, <1>6, <1>8 DEF OverviewInv

LEMMA OverviewInvHolds == OverviewSpec => []OverviewInv
  BY OverviewInvInit, OverviewInvStep, PTL DEF OverviewSpec

-----------------------------------------------------------------------------
(* Theorems.                                                               *)

\* The indexes stay consistent although removals deliver mail of their own,
\* accounts are registered by others, and a crash may come at any step.
THEOREM IndexesStayConsistent == OverviewSpec => []IndexesConsistent
  BY OverviewInvHolds, PTL DEF OverviewInv, StoreInv, IndexesConsistent

\* A message shown to a superior is the stored one and its subordinate's.
THEOREM ViewsBelongToTarget == OverviewSpec => []ViewedBelongsToTarget
  <1>1. OverviewInv => ViewedBelongsToTarget
    <2> SUFFICES ASSUME OverviewInv, NEW j \in Job, job[j].step = "viewed"
                 PROVE  /\ job[j].msg = messages[job[j].id]
                        /\ job[j].id \in Stored
                        /\ Lower[job[j].target] \in Participants(job[j].msg)
      BY DEF ViewedBelongsToTarget
    <2>1. job[j] \in View /\ Honest(job[j])
      BY JobKinds DEF OverviewInv, JobsTyped, JobType
    <2>2. /\ job[j].msg = messages[job[j].id] /\ job[j].id \in Stored
          /\ job[j].id \in MailboxOf(Lower[job[j].target])
          /\ Lower[job[j].target] \in Key
      BY <2>1, LowerKey DEF Honest, ViewHonest, View
    <2>3. QED
      BY <2>2 DEF OverviewInv, StoreInv, RefsResolve, MailboxOf, Participants
  <1>2. QED
    BY <1>1, OverviewInvHolds, PTL

\* A list has no gap, whatever is delivered while its two indexes are read.
THEOREM ListsHaveNoGap == OverviewSpec => []ListHasNoGap
  <1>1. OverviewInv => ListHasNoGap
    <2> SUFFICES ASSUME OverviewInv, NEW j \in Job, job[j].step = "list"
                 PROVE  Complete(job[j].out, job[j].before)
      BY DEF ListHasNoGap, Complete
    <2>1. job[j] \in List /\ Honest(job[j])
      BY JobKinds DEF OverviewInv, JobsTyped, JobType
    <2>2. QED
      BY <2>1 DEF Honest, ListHonest
  <1>2. QED
    BY <1>1, OverviewInvHolds, PTL

LEMMA ScansHonest == OverviewInv => \A v \in Answering : v \in Scan /\ v.seen \in SUBSET Stored
                                                         /\ v.before \subseteq v.seen
  <1> SUFFICES ASSUME OverviewInv, NEW j \in Job, job[j].step = "answer"
               PROVE  job[j] \in Scan /\ job[j].seen \in SUBSET Stored
                      /\ job[j].before \subseteq job[j].seen
    BY DEF Answering
  <1>1. job[j] \in Scan /\ Honest(job[j])
    BY JobKinds DEF OverviewInv, JobsTyped, JobType
  <1>2. QED
    BY <1>1 DEF Honest, ScanHonest

\* An overview counts all that its subordinates had when it was asked for.
THEOREM OverviewsComplete == OverviewSpec => []OverviewComplete
  <1>1. OverviewInv => OverviewComplete
    <2> SUFFICES ASSUME OverviewInv, NEW v \in Answering, NEW a \in v.subs
                 PROVE  /\ Window(inbox[a] \cap v.before, v.since) \subseteq CountedIn(v, a)
                        /\ Window(sent[a] \cap v.before, v.since) \subseteq CountedOut(v, a)
      BY DEF OverviewComplete
    <2>1. v \in Scan /\ v.seen \in SUBSET Stored /\ v.before \subseteq v.seen /\ a \in Key
      BY ScansHonest DEF Scan
    <2>2. QED
      BY <2>1 DEF OverviewInv, StoreInv, RefsResolve, Window, CountedIn, CountedOut, InWindow, From
  <1>2. QED
    BY <1>1, OverviewInvHolds, PTL

\* Mail between two parties of an overview.
Between(v, a, b) == {m \in InWindow(v) : From(m) = a /\ First(m) = b}

\* Of the two places where mail from a to b may be counted, one counts all of
\* it and the other none.
LEMMA SidesDisjoint ==
    ASSUME OverviewInv, NEW v \in Answering, NEW a \in Key, NEW b \in Key
    PROVE  /\ SenderSide(v, a, b) = IF a \in Core(v) THEN Between(v, a, b) ELSE {}
           /\ RecipientSide(v, a, b) =
                 IF a \notin Core(v) /\ b \in Core(v) THEN Between(v, a, b) ELSE {}
           /\ Cardinality(Between(v, a, b)) \in Nat
  <1>1. v \in Scan /\ InWindow(v) \in SUBSET Stored
    BY ScansHonest DEF InWindow, Window
  <1>2. \A m \in InWindow(v) : First(m) \in Recipients(messages[m])
    <2> TAKE m \in InWindow(v)
    <2>1. messages[m].to # {}
      BY <1>1 DEF OverviewInv, Addressed
    <2>2. (CHOOSE x \in messages[m].to : TRUE) \in messages[m].to
      BY <2>1
    <2>3. QED
      BY <2>2 DEF First, Recipients
  <1>3. SenderSide(v, a, b) = IF a \in Core(v) THEN Between(v, a, b) ELSE {}
    BY DEF SenderSide, Between
  <1>4. RecipientSide(v, a, b) = IF a \notin Core(v) /\ b \in Core(v) THEN Between(v, a, b) ELSE {}
    BY <1>2 DEF RecipientSide, Between
  <1>5. Between(v, a, b) \in SUBSET MsgId
    BY <1>1 DEF Between, Stored
  <1>6. QED
    BY <1>3, <1>4, <1>5, IdsCountable

\* An edge of an overview counts each message between its ends once.
THEOREM EdgesCount == OverviewSpec => []EdgesCountOnce
  <1>1. OverviewInv => EdgesCountOnce
    <2> SUFFICES ASSUME OverviewInv, NEW v \in Answering
                 PROVE  /\ \A a, b \in Key : a # b =>
                             /\ Directed(v, a, b) =
                                   IF {a, b} \cap Core(v) = {} THEN 0
                                   ELSE Cardinality(Between(v, a, b))
                             /\ a \in Core(v) /\ b \notin Core(v) =>
                                   Contact(v, a, b) = Directed(v, a, b) + Directed(v, b, a)
                        /\ \A c \in Core(v) : \A x \in Top(v, c) :
                             <<c, x>> \in GraphEdges(v) \/ <<x, c>> \in GraphEdges(v)
      BY DEF EdgesCountOnce, Between
    <2> DEFINE count(a, b) == Cardinality(Between(v, a, b))
               sender(a, b) == IF a \in Core(v) THEN count(a, b) ELSE 0
               recipient(a, b) == IF a \notin Core(v) /\ b \in Core(v) THEN count(a, b) ELSE 0
    <2>1. \A a, b \in Key : /\ count(a, b) \in Nat
                            /\ Cardinality(SenderSide(v, a, b)) = sender(a, b)
                            /\ Cardinality(RecipientSide(v, a, b)) = recipient(a, b)
      BY SidesDisjoint, FS_EmptySet
    <2>2. \A a, b \in Key : /\ Directed(v, a, b) = sender(a, b) + recipient(a, b)
                            /\ Contact(v, a, b) = sender(a, b) + recipient(b, a)
      BY <2>1 DEF Directed, Contact
    <2> HIDE DEF count
    <2>3. ASSUME NEW a \in Key, NEW b \in Key, a # b
          PROVE  /\ Directed(v, a, b) = IF {a, b} \cap Core(v) = {} THEN 0 ELSE count(a, b)
                 /\ a \in Core(v) /\ b \notin Core(v) =>
                       Contact(v, a, b) = Directed(v, a, b) + Directed(v, b, a)
      BY <2>1, <2>2
    <2>4. ASSUME NEW c \in Core(v), NEW x \in Top(v, c)
          PROVE  <<c, x>> \in GraphEdges(v) \/ <<x, c>> \in GraphEdges(v)
      <3>1. v \in Scan
        BY ScansHonest
      <3>2. /\ c \in Key /\ x \in Key /\ Contact(v, c, x) > 0
            /\ c \in Nodes(v) /\ x \in Nodes(v)
        <4>1. c \in Key
          BY <3>1 DEF Core, Scan
        <4>2. x \in Key /\ Contact(v, c, x) > 0
          BY DEF Top
        <4>3. QED
          BY <4>1, <4>2 DEF Nodes
      <3>3. /\ Directed(v, c, x) \in Nat /\ Directed(v, x, c) \in Nat
            /\ Directed(v, c, x) + Directed(v, x, c) > 0
        BY <2>1, <2>2, <3>2
      <3>4. Order[c] \in Nat /\ Order[x] \in Nat
        BY <3>2, LowerAssumption, OverviewAssumption DEF Key
      <3>5. QED
        BY <3>2, <3>3, <3>4 DEF GraphEdges
    <2>5. QED
      BY <2>3, <2>4 DEF count
  <1>2. QED
    BY <1>1, OverviewInvHolds, PTL

\* Each delivery of the composition is atomic and mail is append-only, for
\* the notifications of removals as for mail that is sent.
THEOREM DeliveriesAtomic == OverviewSpec => DeliveryAtomic
  <1>1. OverviewInv /\ [OverviewNext]_<<vars, subsVars>> => [StepAtomic]_vars
    BY CompositionStep, StoreStepKeeps DEF OverviewInv
  <1>2. QED
    BY <1>1, OverviewInvHolds, PTL DEF OverviewSpec, DeliveryAtomic, StepAtomic

\* An edge and the mail that announces its end go together.
THEOREM RemovalsAtomic == OverviewSpec => RemovalAtomic
  <1> DEFINE Together ==
        /\ \A e \in subs \ subs' :
             Stored' # Stored => \E r \in removals' \ removals : {r.by, r.other} = {e[1], e[2]}
        /\ removals' # removals => Cardinality(subs \ subs') = 1
        /\ \A r \in removals' \ removals :
             /\ r.id \in inbox'[r.other] \cap sent'[r.by]
             /\ messages'[r.id] = Notification(r.by, r.other)
  <1>1. OverviewInv /\ [OverviewNext]_<<vars, subsVars>> => [Together]_<<vars, subsVars>>
    <2> SUFFICES ASSUME OverviewInv, OverviewNext
                 PROVE  Together
      BY DEF subsVars, vars
    <2>1. ASSUME NEW caller \in Key, NEW other \in Key, NEW id \in FreshId,
                 RemoveSubordinate(caller, other, id)
          PROVE  Together
      <3> DEFINE e == EdgeToRemove(caller, other)
                 r == [by |-> caller, other |-> other, id |-> id]
      <3>1. /\ e \in subs /\ subs' = subs \ {e} /\ removals' = removals \cup {r}
            /\ Deliver(id, Notification(caller, other))
        BY <2>1 DEF RemoveSubordinate
      <3>2. /\ e \in accounts \X accounts /\ {e[1], e[2]} = {caller, other}
            /\ caller \in accounts /\ other \in accounts
        BY <3>1 DEF OverviewInv, EdgesTyped, EdgeToRemove
      <3>3. id \in MsgId \ Stored /\ Notification(caller, other) \in Message
        BY <2>1, RemovalFacts DEF OverviewInv
      <3>4. r \notin removals /\ removals' \ removals = {r}
        BY <3>1, <3>3 DEF OverviewInv
      <3>5. subs \ subs' = {e} /\ Cardinality({e}) = 1
        BY <3>1, FS_Singleton
      <3>6. messages'[id] = Notification(caller, other)
        BY <3>1, <3>3, StoredAfter DEF OverviewInv
      <3>7. Lower[caller] = caller /\ Lower[other] = other
        BY LowerAssumption DEF Key
      <3>8. id \in inbox'[other] /\ id \in sent'[caller]
        BY <3>1, <3>2, <3>7 DEF Deliver, Notification, Recipients
      <3>9. r.by = caller /\ r.other = other /\ r.id = id
        OBVIOUS
      <3> HIDE DEF e, r
      <3>10. \A f \in subs \ subs' : {r.by, r.other} = {f[1], f[2]}
        BY <3>2, <3>5, <3>9
      <3>11. QED
        BY <3>4, <3>5, <3>6, <3>8, <3>9, <3>10
    <2>2. ASSUME removals' = removals, subs' = subs \/ Stored' = Stored
          PROVE  Together
      BY <2>2
    <2>3. ASSUME NEW me \in Caller, NEW other \in Address,
                 DeclareSubordinate(other, me) \/ RevokeSubordinate(other, me)
          PROVE  removals' = removals /\ Stored' = Stored
      BY <2>3 DEF DeclareSubordinate, RevokeSubordinate, Stored, vars
    <2>4. CASE Edges
      <3>1. \A me \in Caller, other \in Address : Lower[me] \in Key /\ Lower[other] \in Key
        BY LowerKey DEF Caller
      <3>2. QED
        BY <2>1, <2>2, <2>3, <2>4, <3>1 DEF Edges
    <2>5. ASSUME NEW j \in Job, Ask(j) \/ OverviewWork(j)
          PROVE  UNCHANGED <<subs, removals>>
      BY <2>5 DEF Ask, StartView, StartList, StartRegister, StartJob, OverviewWork, StartOverview,
         ScanMessages, RespondOverview
    <2>6. ASSUME NEW j \in Job, Work(j)
          PROVE  removals' = removals /\ (subs' = subs \/ Stored' = Stored)
      BY <2>6 DEF Work, ViewAuthorize, GetSubordinateMessage, MessageReferencedBy, Answer,
         ListInboxIds, ListSentIds, ListIds, ListInboxBodies, ListSentBodies,
         RegisterCreate, RegisterDeclare, Finish, Stored, vars
    <2>7. CASE Mail \/ CrashJobs
      BY <2>2, <2>7 DEF Mail, CrashJobs, subsVars
    <2>8. QED
      BY <2>2, <2>4, <2>5, <2>6, <2>7 DEF OverviewNext, SubsNext
  <1>2. QED
    BY <1>1, OverviewInvHolds, PTL DEF OverviewSpec, RemovalAtomic

=============================================================================
