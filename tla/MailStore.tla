----------------------------- MODULE MailStore -----------------------------
(***************************************************************************)
(* The mail core of internal/store: accounts, message bodies, and the      *)
(* inbox, sent and unread indexes kept in bbolt.                           *)
(*                                                                         *)
(* A bbolt transaction is one action.  A store call that uses several      *)
(* transactions (GetMessage, MarkRead, MarkAllRead, the calls behind one   *)
(* GET /api/inbox) is several actions of the client whose request it       *)
(* serves, so requests of different clients interleave between them.       *)
(* pc[c] names the transaction that the request of client c runs next.     *)
(***************************************************************************)
EXTENDS Integers, FiniteSets

CONSTANTS
    Address,    \* every spelling of an address a caller may type
    Lower,      \* strings.ToLower on addresses
    MsgId,      \* message ids (ULIDs; ordered, newer ids are larger)
    Client,     \* concurrent HTTP requests
    Envelope,   \* the [to, cc] pairs that callers send to
    PageLimit,  \* limit of an inbox page
    Offsets,    \* offsets of an inbox page
    MaxTime,    \* bound on the clock
    NoMsg       \* no message: an absent body, an empty in_reply_to

ASSUME LowerAssumption ==
    /\ Address # {}
    /\ Lower \in [Address -> Address]
    /\ \A a \in Address : Lower[Lower[a]] = Lower[a]

\* A message body, less its text.
Message == [from : Address, to : SUBSET Address, cc : SUBSET Address,
            inReplyTo : MsgId \cup {NoMsg}]

ASSUME IdAssumption ==
    /\ MsgId \subseteq Nat /\ IsFiniteSet(MsgId)
    /\ NoMsg \notin MsgId /\ NoMsg \notin Message

ASSUME InputAssumption ==
    /\ Envelope \subseteq [to : SUBSET Address, cc : SUBSET Address]
    /\ Offsets \subseteq Nat
    /\ PageLimit \in Nat
    /\ MaxTime \in Nat

VARIABLES
    accounts,   \* keys of the accounts bucket
    messages,   \* the messages bucket: id -> body, NoMsg where absent
    inbox,      \* the inbox index: account -> ids
    sent,       \* the sent index
    unread,     \* the unread markers
    lastRead,   \* meta "lastread:<uuid>": account -> time, 0 when never (the clock starts at 0)
    now,        \* the store's clock
    pc,         \* client -> next transaction of its request
    req         \* client -> what its request holds between transactions

storeVars == <<accounts, messages, inbox, sent, unread, lastRead>>
vars == <<accounts, messages, inbox, sent, unread, lastRead, now, pc, req>>

Key == {Lower[a] : a \in Address}

Request == [who : Address, id : MsgId \cup {NoMsg}, msg : Message,
            offset : Nat, ids : SUBSET MsgId, unreadCount : Nat, count : Nat,
            cleared : SUBSET MsgId]

\* pc values: the transaction a request is about to run, then its outcome.
Running == {"send", "getVisible", "getBody", "markView", "markUpdate",
            "allCollect", "allClear",
            "pageIds", "pageBodies", "countUnread", "countInbox", "touch"}
Answered == {"sent", "sendFailed", "got", "notFound", "allDone", "listed"}

Stored == {m \in MsgId : messages[m] # NoMsg}

Recipients(msg) == {Lower[a] : a \in msg.to \cup msg.cc}

Participants(msg) == Recipients(msg) \cup {Lower[msg.from]}

-----------------------------------------------------------------------------
(* Requests.                                                               *)

Idle(c) == pc[c] = "idle"

Goto(c, next) == pc' = [pc EXCEPT ![c] = next]

\* The request of c goes on to its next transaction, holding r.
Hold(c, r) == req' = [req EXCEPT ![c] = r]

Start(c, next, r) ==
    /\ Idle(c)
    /\ Goto(c, next)
    /\ Hold(c, r)
    /\ UNCHANGED <<storeVars, now>>

NoMessageYet(who) == [from |-> who, to |-> {}, cc |-> {}, inReplyTo |-> NoMsg]

NewRequest(who, id, msg, offset) ==
    [who |-> who, id |-> id, msg |-> msg, offset |-> offset, ids |-> {},
     unreadCount |-> 0, count |-> 0, cleared |-> {}]

\* Between requests a client holds nothing.
NoRequest == LET a == CHOOSE x \in Address : TRUE
             IN NewRequest(a, NoMsg, NoMessageYet(a), 0)

\* The callers a request can be authenticated as: any spelling of an account.
Caller == {a \in Address : Lower[a] \in accounts}

\* The handler writes its response.
Respond(c) ==
    /\ pc[c] \in Answered
    /\ Goto(c, "idle")
    /\ Hold(c, NoRequest)
    /\ UNCHANGED <<storeVars, now>>

-----------------------------------------------------------------------------
(* Accounts.                                                               *)

\* Mutant of CreateAccount: the key keeps the spelling of the caller.
CreateAccountAsTyped(name) ==
    /\ name \notin accounts
    /\ accounts' = accounts \cup {name}
    /\ UNCHANGED <<messages, inbox, sent, unread, lastRead, now, pc, req>>

\* The key is lowercased; ErrAccountExists changes nothing.
CreateAccount(name) ==
    /\ Lower[name] \notin accounts
    /\ accounts' = accounts \cup {Lower[name]}
    /\ UNCHANGED <<messages, inbox, sent, unread, lastRead, now, pc, req>>

-----------------------------------------------------------------------------
(* Send.                                                                   *)

\* newULID runs before the transaction: the id is taken here, committed later.
Sending == {c \in Client : pc[c] \in {"send", "sent", "sendFailed"}}

\* Mutant of FreshId: ids are not random enough for two sends in flight.
FreshWhenTaken == MsgId \ Stored

FreshId == MsgId \ (Stored \cup {req[c].id : c \in Sending})

StartSend(c, who, env, parent, id) ==
    Start(c, "send",
          NewRequest(who, id,
                     [from |-> who, to |-> env.to, cc |-> env.cc,
                      inReplyTo |-> parent], 0))

\* Mutants of Deliver: a marker for an unknown recipient, no marker at all.
DeliverMarkUnknown(id, msg) ==
    /\ messages' = [messages EXCEPT ![id] = msg]
    /\ inbox' = [a \in Key |-> IF a \in Recipients(msg) \cap accounts
                               THEN inbox[a] \cup {id} ELSE inbox[a]]
    /\ unread' = [a \in Key |-> IF a \in Recipients(msg)
                                THEN unread[a] \cup {id} ELSE unread[a]]
    /\ UNCHANGED <<accounts, sent, lastRead>>

DeliverUnmarked(id, msg) ==
    /\ messages' = [messages EXCEPT ![id] = msg]
    /\ inbox' = [a \in Key |-> IF a \in Recipients(msg) \cap accounts
                               THEN inbox[a] \cup {id} ELSE inbox[a]]
    /\ UNCHANGED <<accounts, sent, unread, lastRead>>

\* One copy of the body; an inbox and an unread reference for every recipient
\* that is an account, unknown ones skipped; a sent reference for the sender.
Deliver(id, msg) ==
    /\ messages' = [messages EXCEPT ![id] = msg]
    /\ inbox' = [a \in Key |-> IF a \in Recipients(msg) \cap accounts
                               THEN inbox[a] \cup {id} ELSE inbox[a]]
    /\ unread' = [a \in Key |-> IF a \in Recipients(msg) \cap accounts
                                THEN unread[a] \cup {id} ELSE unread[a]]
    /\ sent' = [a \in Key |-> IF a = Lower[msg.from] /\ a \in accounts
                              THEN sent[a] \cup {id} ELSE sent[a]]
    /\ UNCHANGED <<accounts, lastRead>>

\* in_reply_to names no stored message: ErrNoSuchParent, nothing is written.
SendNoParent(c) ==
    /\ pc[c] = "send"
    /\ req[c].msg.inReplyTo \in MsgId \ Stored
    /\ Goto(c, "sendFailed")
    /\ UNCHANGED <<storeVars, now, req>>

\* Mutant of SendCommit: the parent check is dropped.
SendCommitUnchecked(c) ==
    /\ pc[c] = "send"
    /\ Deliver(req[c].id, req[c].msg)
    /\ Goto(c, "sent")
    /\ UNCHANGED <<now, req>>

\* The transaction commits; only after it does Send report an error when
\* nobody was delivered to.  The id is free (see FreshId), so the early
\* return for an id already stored is a conjunct that never bites.
SendCommit(c) ==
    LET msg == req[c].msg IN
    /\ pc[c] = "send"
    /\ msg.inReplyTo \in Stored \cup {NoMsg}
    /\ messages[req[c].id] = NoMsg
    /\ Deliver(req[c].id, msg)
    /\ Goto(c, IF Recipients(msg) \cap accounts = {} THEN "sendFailed" ELSE "sent")
    /\ UNCHANGED <<now, req>>

-----------------------------------------------------------------------------
(* GetMessage and MarkRead.                                                *)

StartGet(c, who, id) ==
    Start(c, "getVisible", NewRequest(who, id, NoMessageYet(who), 0))

\* Mutant of GetVisible: an id is enough to read a message.
GetVisibleToAll(c) ==
    /\ pc[c] = "getVisible"
    /\ Goto(c, "getBody")
    /\ UNCHANGED <<storeVars, now, req>>

GetVisible(c) ==
    LET k == Lower[req[c].who] IN
    /\ pc[c] = "getVisible"
    /\ Goto(c, IF req[c].id \in inbox[k] \cup sent[k] THEN "getBody" ELSE "notFound")
    /\ UNCHANGED <<storeVars, now, req>>

GetBody(c) ==
    /\ pc[c] = "getBody"
    /\ IF req[c].id \in Stored
       THEN /\ Hold(c, [req[c] EXCEPT !.msg = messages[req[c].id]])
            /\ Goto(c, "markView")
       ELSE /\ Goto(c, "notFound")
            /\ UNCHANGED req
    /\ UNCHANGED <<storeVars, now>>

\* MarkRead's cheap check: a message already read costs no write transaction.
MarkReadView(c) ==
    /\ pc[c] = "markView"
    /\ Goto(c, IF req[c].id \in unread[Lower[req[c].who]] THEN "markUpdate" ELSE "got")
    /\ UNCHANGED <<storeVars, now, req>>

MarkReadUpdate(c) ==
    LET k == Lower[req[c].who] IN
    /\ pc[c] = "markUpdate"
    /\ unread' = [unread EXCEPT ![k] = @ \ {req[c].id}]
    /\ lastRead' = [lastRead EXCEPT ![k] = now]
    /\ Goto(c, "got")
    /\ UNCHANGED <<accounts, messages, inbox, sent, now, req>>

-----------------------------------------------------------------------------
(* MarkAllRead: the keys are collected in a View and deleted in an Update. *)

StartMarkAll(c, who) ==
    Start(c, "allCollect", NewRequest(who, NoMsg, NoMessageYet(who), 0))

MarkAllCollect(c) ==
    LET keys == unread[Lower[req[c].who]] IN
    /\ pc[c] = "allCollect"
    /\ Hold(c, [req[c] EXCEPT !.ids = keys, !.count = Cardinality(keys)])
    /\ Goto(c, IF keys = {} THEN "allDone" ELSE "allClear")
    /\ UNCHANGED <<storeVars, now>>

\* Mutant of MarkAllClear: it clears the markers there are by now.
MarkAllClearEverything(c) ==
    LET k == Lower[req[c].who] IN
    /\ pc[c] = "allClear"
    /\ unread' = [unread EXCEPT ![k] = {}]
    /\ lastRead' = [lastRead EXCEPT ![k] = now]
    /\ Goto(c, "allDone")
    /\ UNCHANGED <<accounts, messages, inbox, sent, now, req>>

\* Returns len(keys).  cleared records which markers this Update removed.
MarkAllClear(c) ==
    LET k == Lower[req[c].who] IN
    /\ pc[c] = "allClear"
    /\ unread' = [unread EXCEPT ![k] = @ \ req[c].ids]
    /\ lastRead' = [lastRead EXCEPT ![k] = now]
    /\ Hold(c, [req[c] EXCEPT !.cleared = unread[k] \cap req[c].ids])
    /\ Goto(c, "allDone")
    /\ UNCHANGED <<accounts, messages, inbox, sent, now>>

-----------------------------------------------------------------------------
(* GET /api/inbox: a page, then the two counts, then the liveness stamp.   *)

Newer(S, m) == {x \in S : x > m}

\* Newest first, skip offset, take PageLimit.
Page(S, offset) ==
    {m \in S : Cardinality(Newer(S, m)) \in offset .. (offset + PageLimit - 1)}

StartInbox(c, who, offset) ==
    Start(c, "pageIds", NewRequest(who, NoMsg, NoMessageYet(who), offset))

\* An empty page returns before the second View.
ReadIndexIds(c) ==
    LET page == Page(inbox[Lower[req[c].who]], req[c].offset) IN
    /\ pc[c] = "pageIds"
    /\ Hold(c, [req[c] EXCEPT !.ids = page])
    /\ Goto(c, IF page = {} THEN "countUnread" ELSE "pageBodies")
    /\ UNCHANGED <<storeVars, now>>

\* An id whose body is missing is dropped from the page.
ReadIndexBodies(c) ==
    /\ pc[c] = "pageBodies"
    /\ Hold(c, [req[c] EXCEPT !.ids = @ \cap Stored])
    /\ Goto(c, "countUnread")
    /\ UNCHANGED <<storeVars, now>>

CountUnread(c) ==
    /\ pc[c] = "countUnread"
    /\ Hold(c, [req[c] EXCEPT !.unreadCount = Cardinality(unread[Lower[req[c].who]])])
    /\ Goto(c, "countInbox")
    /\ UNCHANGED <<storeVars, now>>

\* Mutant of CountInbox: the length of the page is given as the total.
CountPage(c) ==
    /\ pc[c] = "countInbox"
    /\ Hold(c, [req[c] EXCEPT !.count = Cardinality(req[c].ids)])
    /\ Goto(c, "touch")
    /\ UNCHANGED <<storeVars, now>>

CountInbox(c) ==
    /\ pc[c] = "countInbox"
    /\ Hold(c, [req[c] EXCEPT !.count = Cardinality(inbox[Lower[req[c].who]])])
    /\ Goto(c, "touch")
    /\ UNCHANGED <<storeVars, now>>

\* Mutant of TouchLastReadPull: the time is taken before the write lock is.
TouchLastReadEarlier(c) ==
    /\ pc[c] = "touch"
    /\ \E at \in 0 .. now : lastRead' = [lastRead EXCEPT ![Lower[req[c].who]] = at]
    /\ Goto(c, "listed")
    /\ UNCHANGED <<accounts, messages, inbox, sent, unread, now, req>>

TouchLastReadPull(c) ==
    /\ pc[c] = "touch"
    /\ lastRead' = [lastRead EXCEPT ![Lower[req[c].who]] = now]
    /\ Goto(c, "listed")
    /\ UNCHANGED <<accounts, messages, inbox, sent, unread, now, req>>

-----------------------------------------------------------------------------
\* The server dies between two transactions: what committed stays, what the
\* requests held in memory is gone.
Crash ==
    /\ \E c \in Client : ~Idle(c)
    /\ pc' = [c \in Client |-> "idle"]
    /\ req' = [c \in Client |-> NoRequest]
    /\ UNCHANGED <<storeVars, now>>

Tick ==
    /\ now < MaxTime
    /\ now' = now + 1
    /\ UNCHANGED <<storeVars, pc, req>>

Init ==
    /\ accounts = {}
    /\ messages = [m \in MsgId |-> NoMsg]
    /\ inbox = [a \in Key |-> {}]
    /\ sent = [a \in Key |-> {}]
    /\ unread = [a \in Key |-> {}]
    /\ lastRead = [a \in Key |-> 0]
    /\ now = 0
    /\ pc = [c \in Client |-> "idle"]
    /\ req = [c \in Client |-> NoRequest]

\* A new request arrives; nothing obliges anyone to make one.
Arrive(c) ==
    \E who \in Caller :
        \/ \E env \in Envelope, parent \in MsgId \cup {NoMsg}, id \in FreshId :
              StartSend(c, who, env, parent, id)
        \/ \E id \in MsgId : StartGet(c, who, id)
        \/ StartMarkAll(c, who)
        \/ \E offset \in Offsets : StartInbox(c, who, offset)

\* The next transaction, or the response, of the request of client c.
Step(c) ==
    \/ SendNoParent(c) \/ SendCommit(c)
    \/ GetVisible(c) \/ GetBody(c) \/ MarkReadView(c) \/ MarkReadUpdate(c)
    \/ MarkAllCollect(c) \/ MarkAllClear(c)
    \/ ReadIndexIds(c) \/ ReadIndexBodies(c) \/ CountUnread(c) \/ CountInbox(c)
    \/ TouchLastReadPull(c)
    \/ Respond(c)

Next ==
    \/ \E name \in Address : CreateAccount(name)
    \/ \E c \in Client : Arrive(c) \/ Step(c)
    \/ Crash
    \/ Tick

Spec == Init /\ [][Next]_vars

-----------------------------------------------------------------------------
(* Properties.                                                             *)

\* Every variable stays within its type.
TypeOK ==
    /\ accounts \in SUBSET Key
    /\ messages \in [MsgId -> Message \cup {NoMsg}]
    /\ inbox \in [Key -> SUBSET MsgId]
    /\ sent \in [Key -> SUBSET MsgId]
    /\ unread \in [Key -> SUBSET MsgId]
    /\ lastRead \in [Key -> Nat]
    /\ now \in Nat
    /\ pc \in [Client -> Running \cup Answered \cup {"idle"}]
    /\ req \in [Client -> Request]
    /\ \A c \in Sending : req[c].id \in MsgId

\* Index references always resolve to a stored body, and only a participant
\* of a message ever holds a reference to it: readers of the indexes
\* (readIndex, GetMessage, MyGrowthStats) would silently drop a dangling one.
RefsResolve ==
    \A a \in Key :
        /\ \A m \in inbox[a] : m \in Stored /\ a \in Recipients(messages[m])
        /\ \A m \in sent[a] : m \in Stored /\ a = Lower[messages[m].from]

\* The unread badge counts markers, the inbox counts references: a marker
\* without a reference would be a badge no page can clear.
UnreadWithinInbox == \A a \in Key : unread[a] \subseteq inbox[a]

\* The three indexes agree with the bodies and with each other.
IndexesConsistent == RefsResolve /\ UnreadWithinInbox

\* in_reply_to always names a stored message, and replies never form a
\* cycle, although ids are taken before the transaction that commits them.
Parent == [m \in Stored |-> messages[m].inReplyTo]
ReplyForest ==
    /\ \A m \in Stored : Parent[m] \in Stored \cup {NoMsg}
    /\ \A S \in SUBSET Stored : S # {} => \E m \in S : Parent[m] \notin S

\* GetMessage gives a body only to a participant, and the body of the id that
\* was asked for, although visibility and body are read in two transactions.
GotOnlyVisible ==
    \A c \in Client : pc[c] \in {"markView", "markUpdate", "got"} =>
        /\ req[c].msg = messages[req[c].id]
        /\ Lower[req[c].who] \in Participants(req[c].msg)

\* The three numbers of one GET /api/inbox answer, read in three transactions,
\* are consistent: neither the page nor unread_count exceeds total_count.
InboxCountsAgree ==
    \A c \in Client : pc[c] \in {"touch", "listed"} =>
        /\ req[c].unreadCount <= req[c].count
        /\ Cardinality(req[c].ids) <= req[c].count

\* Send answers success exactly when some account has the message.
SendOutcome ==
    \A c \in Client :
        /\ pc[c] = "sent" => \E a \in accounts : req[c].id \in inbox[a]
        /\ pc[c] = "sendFailed" => \A a \in Key : req[c].id \notin inbox[a]

\* What a request learned in one transaction is still true when a later one
\* uses it: an id seen in an index is still there, a body is still the stored
\* one, an id taken for a send is still free and nobody else holds it.
Current(c) ==
    LET r == req[c]  k == Lower[r.who] IN
    /\ pc[c] \in {"getBody", "markView", "markUpdate", "got"} =>
          r.id \in inbox[k] \cup sent[k]
    /\ pc[c] \in {"markView", "markUpdate", "got"} => r.msg = messages[r.id]
    /\ pc[c] \in {"pageBodies", "countUnread", "countInbox"} => r.ids \subseteq inbox[k]
    /\ pc[c] = "countInbox" => r.unreadCount <= Cardinality(inbox[k])
    /\ pc[c] = "send" => r.id \notin Stored

RequestsCurrent ==
    /\ \A c \in Client : Current(c)
    /\ \A c, d \in Sending : c # d => req[c].id # req[d].id

\* A marker is cleared only by a request of its owner that names it or has
\* seen it (mail that arrives during mark-all-read stays unread), and the
\* read is stamped in the same transaction.
ReadsAreOwned ==
    [][\A a \in Key : \A m \in unread[a] \ unread'[a] :
          /\ lastRead'[a] = now
          /\ \E c \in Client :
                /\ Lower[req[c].who] = a
                /\ \/ pc[c] = "markUpdate" /\ req[c].id = m
                   \/ pc[c] = "allClear" /\ m \in req[c].ids]_vars

\* Mail is append-only and delivery is atomic: a body never changes, a
\* reference never goes, and one appears only in the step that stores its
\* body, for all the accounts it is addressed to at once.
DeliveryAtomic ==
    [][/\ \A m \in Stored : messages'[m] = messages[m]
       /\ \A a \in Key :
            /\ inbox[a] \subseteq inbox'[a] /\ sent[a] \subseteq sent'[a]
            /\ \A m \in (inbox'[a] \cup sent'[a]) \ (inbox[a] \cup sent[a]) : m \notin Stored
       /\ \A m \in MsgId : messages[m] = NoMsg /\ messages'[m] # NoMsg =>
            \A a \in accounts :
               m \in inbox'[a] \cap unread'[a] <=> a \in Recipients(messages'[m])]_vars

\* The liveness stamp of an account never goes back, whichever of MarkRead,
\* MarkAllRead and the inbox pull commits last.
LastReadMonotone == [][\A a \in Key : lastRead'[a] >= lastRead[a]]_vars

\* What MarkAllRead's comment promises: it "clears every unread marker in the
\* account's inbox in one transaction and returns how many were cleared".
MarkAllCountExact ==
    \A c \in Client : pc[c] = "allDone" => req[c].count = Cardinality(req[c].cleared)

-----------------------------------------------------------------------------
(* Refinement.  A copy is unread while its marker exists.                  *)

CopyState(a, m) == IF m \in unread[a] THEN "unread"
                   ELSE IF m \in inbox[a] THEN "read" ELSE "absent"

Abstract == INSTANCE Mailbox WITH
    Owner <- Key, Id <- MsgId, Content <- Message, Nothing <- NoMsg,
    Addressees <- Recipients,
    post <- messages,
    box <- [a \in Key |-> [m \in MsgId |-> CopyState(a, m)]]

\* The interleaved transactions of Send, GetMessage, MarkRead and MarkAllRead
\* implement mailboxes in which a message is posted once, to all its
\* addressees at once, and each copy goes from unread to read and no further.
ImplementsMailbox == Abstract!Spec

=============================================================================
