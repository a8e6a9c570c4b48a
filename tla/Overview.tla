------------------------------ MODULE Overview ------------------------------
(***************************************************************************)
(* What superiors and the admin see of other accounts' mail in aggregate:  *)
(* the overview of an account's subordinates (MgmtSubsOverviewWindow of    *)
(* internal/store/mgmt.go, GET /api/mgmt/subs-overview) and the list of    *)
(* all mail (ReadAllAccountsMessages of internal/store/message.go), while  *)
(* the mail store is in use.                                               *)
(*                                                                         *)
(* The overview reads the relation in one transaction and all messages in  *)
(* another; what it answers is a function of what it read.  It runs in a   *)
(* job, like the other requests of superiors in module Subordinates, next  *)
(* to which it is checked.                                                 *)
(***************************************************************************)
EXTENDS Subordinates

CONSTANTS
    TopContacts,    \* contacts kept of an account
    Order,          \* address -> its place in byte order
    Since           \* first ids of the windows asked for; 0 is all time

ASSUME OverviewAssumption ==
    /\ TopContacts \in Nat \ {0} /\ Order \in [Address -> Nat]
    /\ \A a, b \in Address : Order[a] = Order[b] => a = b
    /\ Since \subseteq Nat
    /\ \A env \in Envelope : env.to # {}

\* The counterparties of a message: its sender and the first recipient.
From(m) == Lower[messages[m].from]
First(m) == Lower[CHOOSE a \in messages[m].to : TRUE]

Window(ids, since) == {m \in ids : m >= since}

-----------------------------------------------------------------------------
(* The request.                                                            *)

\* SubordinatesOf; an account that has none gets an empty answer.  before is
\* history: the messages there were by then.
StartOverview(j, who, since) ==
    /\ SubordinatesOf(who) # {}
    /\ StartJob(j, [step |-> "scan", me |-> Lower[who], since |-> since,
                    subs |-> SubordinatesOf(who), seen |-> {}, before |-> Stored])

ScanMessages(j) ==
    /\ job[j].step = "scan"
    /\ Do(j, [job[j] EXCEPT !.step = "answer", !.seen = Stored])
    /\ UNCHANGED <<vars, subs, removals>>

RespondOverview(j) ==
    /\ job[j].step = "answer"
    /\ Do(j, IdleJob)
    /\ UNCHANGED <<vars, subs, removals>>

-----------------------------------------------------------------------------
(* What is answered by a request v of the messages that it saw.            *)

Core(v) == {v.me} \cup v.subs

InWindow(v) == Window(v.seen, v.since)

\* Mutant of CountedIn: Cc is not looked at.
CountedTo(v, a) == {m \in InWindow(v) : a \in {Lower[b] : b \in messages[m].to}}

\* count_in_7d and count_out_7d of a core account.
CountedIn(v, a) == {m \in InWindow(v) : a \in Recipients(messages[m])}
CountedOut(v, a) == {m \in InWindow(v) : From(m) = a}

\* A message between two parties is counted where a core sender is met ...
SenderSide(v, a, b) ==
    {m \in InWindow(v) : a \in Core(v) /\ From(m) = a /\ First(m) = b}

\* Mutant of RecipientSide: the sender is not asked about.
RecipientSideToo(v, a, b) ==
    {m \in InWindow(v) : b \in Core(v) \cap Recipients(messages[m]) /\ First(m) = b /\ From(m) = a}

\* ... and where a core recipient of a sender outside is met.
RecipientSide(v, a, b) ==
    {m \in InWindow(v) : /\ b \in Core(v) \cap Recipients(messages[m]) /\ First(m) = b
                         /\ From(m) = a /\ a \notin Core(v)}

\* Messages from a to b, and of c and x together.
Directed(v, a, b) == Cardinality(SenderSide(v, a, b)) + Cardinality(RecipientSide(v, a, b))
Contact(v, c, x) == Cardinality(SenderSide(v, c, x)) + Cardinality(RecipientSide(v, x, c))

\* The most frequent contacts, the first in byte order where they are equal.
Top(v, c) ==
    LET better(x, y) == \/ Contact(v, c, x) > Contact(v, c, y)
                        \/ Contact(v, c, x) = Contact(v, c, y) /\ Order[x] < Order[y]
    IN  {x \in Key : /\ Contact(v, c, x) > 0
                     /\ Cardinality({y \in Key : better(y, x)}) < TopContacts}

Nodes(v) == Core(v) \cup UNION {Top(v, c) : c \in Core(v)}

\* The pairs of nodes that exchanged mail.
GraphEdges(v) ==
    {e \in Nodes(v) \X Nodes(v) :
        /\ Order[e[1]] <= Order[e[2]]
        /\ Directed(v, e[1], e[2]) + Directed(v, e[2], e[1]) > 0}

\* The folder "inbox" of the admin's list of all mail.
AllInbox == {m \in Stored : messages[m].to # {}}

-----------------------------------------------------------------------------
OverviewWork(j) ==
    \/ \E who \in Caller, since \in Since : StartOverview(j, who, since)
    \/ ScanMessages(j)
    \/ RespondOverview(j)

OverviewNext == SubsNext \/ \E j \in Job : OverviewWork(j)

OverviewSpec == SubsInit /\ [][OverviewNext]_<<vars, subsVars>>

-----------------------------------------------------------------------------
(* Properties.                                                             *)

Answering == {job[j] : j \in {i \in Job : job[i].step = "answer"}}

\* The overview misses nothing of what its subordinates had sent and received
\* when it was asked for, though it counts message bodies and not what is in
\* their boxes (MyGrowthStats does), and relation and bodies are read in two
\* transactions.
OverviewComplete ==
    \A v \in Answering : \A a \in v.subs :
        /\ Window(inbox[a] \cap v.before, v.since) \subseteq CountedIn(v, a)
        /\ Window(sent[a] \cap v.before, v.since) \subseteq CountedOut(v, a)

\* "No double counting": a message between two different parties counts once
\* on the edge between them if one of them is core, and nowhere else; what an
\* account exchanged with a contact outside is what the edge shows, and no
\* contact in the table lacks its edge, the notification of a removal in
\* between included.
EdgesCountOnce ==
    \A v \in Answering :
        /\ \A a, b \in Key : a # b =>
              /\ Directed(v, a, b) =
                     IF {a, b} \cap Core(v) = {} THEN 0
                     ELSE Cardinality({m \in InWindow(v) : From(m) = a /\ First(m) = b})
              /\ a \in Core(v) /\ b \notin Core(v) =>
                     Contact(v, a, b) = Directed(v, a, b) + Directed(v, b, a)
        /\ \A c \in Core(v) : \A x \in Top(v, c) :
              <<c, x>> \in GraphEdges(v) \/ <<x, c>> \in GraphEdges(v)

\* mgmt.go: "All aggregates derive from subordinate read-only visible data":
\* what is counted for a subordinate is in its boxes.
OverviewVisible ==
    \A v \in Answering : \A a \in v.subs :
        CountedIn(v, a) \subseteq inbox[a] /\ CountedOut(v, a) \subseteq sent[a]

\* mgmt.go: top contacts are "in+out combined".
ContactsCombined ==
    \A v \in Answering : \A c \in v.subs : \A x \in Key \ {c} :
        Contact(v, c, x) = Directed(v, c, x) + Directed(v, x, c)

\* message.go: folder "inbox" is mail "delivered to at least one existing
\* recipient".
AllInboxDelivered == \A m \in AllInbox : \E a \in Key : m \in inbox[a]

=============================================================================
