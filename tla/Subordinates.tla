---------------------------- MODULE Subordinates ----------------------------
(***************************************************************************)
(* Subordinate accounts (internal/store/subs.go and the handlers of        *)
(* internal/server/handlers_subs.go) composed with the mail store: an      *)
(* account declares itself under a superior, who may then read its mail,   *)
(* until either end takes the edge away.                                   *)
(*                                                                         *)
(* The requests of this module run in jobs of their own, next to the       *)
(* requests of MailStore; each step of a job is one transaction.           *)
(***************************************************************************)
EXTENDS MailStore

CONSTANTS
    Job,        \* concurrent subordinate requests
    Superior,   \* addresses that accounts declare themselves under
    Cap,        \* subordinates one account may register
    ListLimit   \* length of a list of a subordinate's messages

ASSUME SubsAssumption == Cap \in Nat /\ ListLimit \in Nat \ {0}

VARIABLES
    subs,       \* the subs bucket: edges <<superior, subordinate>>
    job,        \* job -> its request, and what it holds between transactions
    removals    \* history: what RemoveSubordinate did: who, to whom, which mail

subsVars == <<subs, job, removals>>

IdleJob == [step |-> "idle"]

\* The steps of a job: the transaction it runs next, or its outcome.
View == [step : {"authorize", "body", "referenced", "viewed", "hidden"},
         me : Address, target : Address, id : MsgId, msg : Message \cup {NoMsg}]
List == [step : {"listInbox", "listInboxBodies", "listSent", "listSentBodies", "list"},
         target : Address, ids : SUBSET MsgId, out : SUBSET MsgId, before : SUBSET MsgId]
Register == [step : {"create", "declare"}, me : Address, name : Address]

SubordinatesOf(superior) == {a \in Key : <<Lower[superior], a>> \in subs}

MailboxOf(a) == inbox[a] \cup sent[a]

Do(j, r) == job' = [job EXCEPT ![j] = r]

StartJob(j, r) ==
    /\ job[j] = IdleJob
    /\ Do(j, r)
    /\ UNCHANGED <<vars, subs, removals>>

-----------------------------------------------------------------------------
(* Edges.                                                                  *)

\* Repeating a declaration only refreshes its time.
Declare(superior, subordinate) ==
    /\ Lower[superior] # Lower[subordinate]
    /\ {Lower[superior], Lower[subordinate]} \subseteq accounts
    /\ subs' = subs \cup {<<Lower[superior], Lower[subordinate]>>}

DeclareSubordinate(superior, me) ==
    /\ Declare(superior, me)
    /\ UNCHANGED <<vars, job, removals>>

\* Revoking an edge that is not there is no error.
RevokeSubordinate(superior, me) ==
    /\ subs' = subs \ {<<Lower[superior], Lower[me]>>}
    /\ UNCHANGED <<vars, job, removals>>

\* The caller's own declaration is tried first, then the other's.
EdgeToRemove(caller, other) ==
    IF <<other, caller>> \in subs THEN <<other, caller>> ELSE <<caller, other>>

Notification(caller, other) ==
    [from |-> caller, to |-> {other}, cc |-> {}, inReplyTo |-> NoMsg]

\* Mutants of RemoveSubordinate: its copy of Send's delivery forgets the unread
\* marker; a missing edge is no error.
RemoveUnmarked(caller, other, id) ==
    /\ EdgeToRemove(caller, other) \in subs
    /\ subs' = subs \ {EdgeToRemove(caller, other)}
    /\ messages' = [messages EXCEPT ![id] = Notification(caller, other)]
    /\ inbox' = [inbox EXCEPT ![other] = @ \cup {id}]
    /\ sent' = [sent EXCEPT ![caller] = @ \cup {id}]
    /\ UNCHANGED <<accounts, unread, lastRead, now, pc, req, job, removals>>

RemoveRepeatable(caller, other, id) ==
    /\ subs' = subs \ {EdgeToRemove(caller, other)}
    /\ Deliver(id, Notification(caller, other))
    /\ removals' = removals \cup {[by |-> caller, other |-> other, id |-> id]}
    /\ UNCHANGED <<now, pc, req, job>>

\* One transaction deletes one edge and delivers the notification, as Send
\* would; without an edge it is ErrNoSubRelationship and nothing happens.
RemoveSubordinate(caller, other, id) ==
    LET edge == EdgeToRemove(caller, other) IN
    /\ edge \in subs
    /\ subs' = subs \ {edge}
    /\ Deliver(id, Notification(caller, other))
    /\ removals' = removals \cup {[by |-> caller, other |-> other, id |-> id]}
    /\ UNCHANGED <<now, pc, req, job>>

-----------------------------------------------------------------------------
(* GET /api/subs/{target}/message: three transactions.  A caller who names *)
(* itself is served by GetMessage (see MailStore).                         *)

StartView(j, me, target, id) ==
    /\ Lower[me] # Lower[target]
    /\ StartJob(j, [step |-> "authorize", me |-> me, target |-> target,
                    id |-> id, msg |-> NoMsg])

Answer(j, outcome) ==
    /\ Do(j, [job[j] EXCEPT !.step = outcome])
    /\ UNCHANGED <<vars, subs, removals>>

ViewAuthorize(j) ==
    /\ job[j].step = "authorize"
    /\ Answer(j, IF Lower[job[j].target] \in SubordinatesOf(job[j].me) THEN "body" ELSE "hidden")

GetSubordinateMessage(j) ==
    /\ job[j].step = "body"
    /\ \/ /\ job[j].id \in Stored
          /\ Do(j, [job[j] EXCEPT !.step = "referenced", !.msg = messages[job[j].id]])
          /\ UNCHANGED <<vars, subs, removals>>
       \/ /\ job[j].id \notin Stored
          /\ Answer(j, "hidden")

\* Mutant of MessageReferencedBy: the id is looked up in the viewer's mail too.
ReferencedByEither(j) ==
    /\ job[j].step = "referenced"
    /\ Answer(j, IF job[j].id \in MailboxOf(Lower[job[j].target]) \cup MailboxOf(Lower[job[j].me])
                 THEN "viewed" ELSE "hidden")

MessageReferencedBy(j) ==
    /\ job[j].step = "referenced"
    /\ Answer(j, IF job[j].id \in MailboxOf(Lower[job[j].target]) THEN "viewed" ELSE "hidden")

-----------------------------------------------------------------------------
(* GET /api/subs/{target}/messages: the two indexes one after the other,   *)
(* each as ids first and bodies next, merged and cut to the limit.         *)

Newest(S) == {m \in S : Cardinality(Newer(S, m)) < ListLimit}

\* The caller's own mailbox, or one it may read.  before is history: the
\* mailbox when the request came in.
StartList(j, me, target) ==
    /\ \/ Lower[me] = Lower[target]
       \/ Lower[target] \in SubordinatesOf(me)
    /\ StartJob(j, [step |-> "listInbox", target |-> target, ids |-> {}, out |-> {},
                    before |-> MailboxOf(Lower[target])])

ListIds(j, step, index, next) ==
    /\ job[j].step = step
    /\ Do(j, [job[j] EXCEPT !.step = next, !.ids = Newest(index[Lower[job[j].target]])])
    /\ UNCHANGED <<vars, subs, removals>>

ListInboxIds(j) == ListIds(j, "listInbox", inbox, "listInboxBodies")
ListSentIds(j) == ListIds(j, "listSent", sent, "listSentBodies")

ListInboxBodies(j) ==
    /\ job[j].step = "listInboxBodies"
    /\ Do(j, [job[j] EXCEPT !.step = "listSent", !.out = job[j].ids \cap Stored])
    /\ UNCHANGED <<vars, subs, removals>>

\* Mutant of ListSentBodies: the merged list is cut before the sent side joins.
ListSentCutEarly(j) ==
    /\ job[j].step = "listSentBodies"
    /\ Do(j, [job[j] EXCEPT !.step = "list",
                 !.out = IF @ = {} THEN job[j].ids ELSE @])
    /\ UNCHANGED <<vars, subs, removals>>

ListSentBodies(j) ==
    /\ job[j].step = "listSentBodies"
    /\ Do(j, [job[j] EXCEPT !.step = "list", !.out = Newest(@ \cup (job[j].ids \cap Stored))])
    /\ UNCHANGED <<vars, subs, removals>>

-----------------------------------------------------------------------------
(* POST /api/register-subordinate: count, create and declare are three     *)
(* transactions.                                                           *)

StartRegister(j, me, name) ==
    /\ Cardinality(SubordinatesOf(me)) < Cap
    /\ StartJob(j, [step |-> "create", me |-> me, name |-> name])

\* A name already taken answers 409.
RegisterCreate(j) ==
    /\ job[j].step = "create"
    /\ \/ /\ CreateAccount(job[j].name)
          /\ Do(j, [job[j] EXCEPT !.step = "declare"])
       \/ /\ Lower[job[j].name] \in accounts
          /\ Do(j, IdleJob)
          /\ UNCHANGED vars
    /\ UNCHANGED <<subs, removals>>

RegisterDeclare(j) ==
    /\ job[j].step = "declare"
    /\ Declare(job[j].me, job[j].name)
    /\ Do(j, IdleJob)
    /\ UNCHANGED <<vars, removals>>

-----------------------------------------------------------------------------
Finish(j) ==
    /\ job[j].step \in {"viewed", "hidden", "list"}
    /\ Do(j, IdleJob)
    /\ UNCHANGED <<vars, subs, removals>>

CrashJobs ==
    /\ \E j \in Job : job[j] # IdleJob
    /\ job' = [j \in Job |-> IdleJob]
    /\ pc' = [c \in Client |-> "idle"]
    /\ req' = [c \in Client |-> NoRequest]
    /\ UNCHANGED <<storeVars, now, subs, removals>>

SubsInit ==
    /\ Init
    /\ subs = {}
    /\ job = [j \in Job |-> IdleJob]
    /\ removals = {}

\* Requests, by any authenticated account and for any address.
Ask(j) ==
    \E me \in Caller, target \in Address :
        \/ \E id \in MsgId : StartView(j, me, target, id)
        \/ StartList(j, me, target)
        \/ me \in Superior /\ StartRegister(j, me, target)

Work(j) ==
    \/ ViewAuthorize(j) \/ GetSubordinateMessage(j) \/ MessageReferencedBy(j)
    \/ ListInboxIds(j) \/ ListInboxBodies(j) \/ ListSentIds(j) \/ ListSentBodies(j)
    \/ RegisterCreate(j) \/ RegisterDeclare(j)
    \/ Finish(j)

Edges ==
    \E me \in Caller, other \in Address :
        \/ other \in Superior /\ DeclareSubordinate(other, me)
        \/ RevokeSubordinate(other, me)
        \/ \E id \in FreshId : RemoveSubordinate(Lower[me], Lower[other], id)

\* Of the mail store's own traffic, what writes the indexes: registration
\* and Send.
Mail ==
    /\ \/ \E name \in Address : CreateAccount(name)
       \/ \E c \in Client : \/ \E who \in Caller, env \in Envelope, id \in FreshId :
                                  StartSend(c, who, env, NoMsg, id)
                            \/ SendCommit(c)
                            \/ Respond(c)
    /\ UNCHANGED subsVars

SubsNext == Mail \/ Edges \/ CrashJobs \/ \E j \in Job : Ask(j) \/ Work(j)

SubsSpec == SubsInit /\ [][SubsNext]_<<vars, subsVars>>

-----------------------------------------------------------------------------
(* Properties.                                                             *)

\* The store of the edges and the jobs stays within its type.  An edge joins
\* two different accounts: SubordinatesOf never lists an address that is no
\* account, and nobody is its own superior.
SubsTypeOK ==
    /\ subs \in SUBSET {e \in accounts \X accounts : e[1] # e[2]}
    /\ job \in [Job -> View \cup List \cup Register \cup {IdleJob}]
    /\ removals \in SUBSET [by : Key, other : Key, id : MsgId]

\* "Removal and notification can never diverge": when a step both stores a
\* message and takes an edge away, the message is the notification of that
\* removal; a removal that notifies takes away its one edge in the same step,
\* and its mail from one end is among that end's own sent and in the inbox of
\* the other.  (Revocation, which notifies nobody, stores no message.)
RemovalAtomic ==
    [][/\ \A e \in subs \ subs' :
             Stored' # Stored => \E r \in removals' \ removals : {r.by, r.other} = {e[1], e[2]}
       /\ removals' # removals => Cardinality(subs \ subs') = 1
       /\ \A r \in removals' \ removals :
             /\ r.id \in inbox'[r.other] \cap sent'[r.by]
             /\ messages'[r.id] = Notification(r.by, r.other)]_<<vars, subsVars>>

\* A message shown to a superior is the stored one and belongs to the
\* subordinate's mailbox, although relation, body and reference are read in
\* three transactions.
ViewedBelongsToTarget ==
    \A j \in Job : job[j].step = "viewed" =>
        /\ job[j].msg = messages[job[j].id]
        /\ job[j].id \in Stored
        /\ Lower[job[j].target] \in Participants(job[j].msg)

\* A list has no gap: every message that the mailbox held when the request
\* came in and that is newer than some listed one is listed, although the two
\* indexes are read one after the other; and it is no longer than the limit.
ListHasNoGap ==
    \A j \in Job : job[j].step = "list" =>
        /\ Cardinality(job[j].out) <= ListLimit
        /\ \A m \in job[j].before \ job[j].out :
              /\ Cardinality(job[j].out) = ListLimit
              /\ \A listed \in job[j].out : listed > m

\* The doc comment of RemoveSubordinate: it "deletes the unique edge between
\* caller and other", and its mail says that visibility ends for both.
RemovalEndsRelation ==
    [][\A r \in removals' \ removals :
          {<<r.by, r.other>>, <<r.other, r.by>>} \cap subs' = {}]_<<vars, subsVars>>

\* handleRegisterSubordinate's first guard: "cap the number of subordinates
\* one account may provision": no registration leaves its caller with more.
CapHolds ==
    [][\A j \in Job : job[j].step = "declare" /\ subs' # subs /\ job'[j] # job[j] =>
          Cardinality({e \in subs' : e[1] = Lower[job[j].me]}) <= Cap]_<<vars, subsVars>>

=============================================================================
