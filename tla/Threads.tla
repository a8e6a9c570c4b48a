------------------------------ MODULE Threads -------------------------------
(***************************************************************************)
(* The two conversation views while mail keeps arriving: the topic of a    *)
(* message (ThreadByRoot of internal/store/threads.go, over the caller's   *)
(* mail and its subordinates') and the correspondence with one peer        *)
(* (ReadThread of internal/store/message.go).  Both read the store in      *)
(* several transactions.                                                   *)
(*                                                                         *)
(* Messages are numbered in the order they were committed; that topics are *)
(* computed correctly from a set of messages is the subject of Components. *)
(***************************************************************************)
EXTENDS Naturals, Sequences, FiniteSets

CONSTANTS
    Account,
    Reader,             \* accounts whose views are read
    SubordinatesOf,     \* account -> the accounts whose mail it may read
    Copied,             \* accounts that may get copies
    Page,               \* what may be asked of a correspondence: limit and offset
    Margin,             \* mails of a box that are read beyond limit and offset
    Second,             \* message -> the second in which it was received
    MaxMsg              \* bound on messages

ASSUME ThreadsAssumption ==
    /\ Reader \subseteq Account /\ Copied \subseteq Account
    /\ SubordinatesOf \in [Account -> SUBSET Account]
    /\ Page \subseteq [limit : Nat \ {0}, offset : Nat] /\ Margin \in Nat
    /\ MaxMsg \in Nat /\ Second \in [1 .. MaxMsg -> Nat]

VARIABLES
    msgs,       \* the messages, in commit order
    read        \* the read under way, or its answer

threadsVars == <<msgs, read>>

Mail == [from : Account, to : Account, cc : SUBSET Account, inReplyTo : 0 .. MaxMsg]

Id == 1 .. MaxMsg

\* A topic is read account by account: those still to be collected, what was
\* collected, what is answered; and how many messages there were at first.
TopicRead == [step : {"collect", "topic"}, me : Account, of : Id, left : SUBSET Account,
              ids : SUBSET Id, out : SUBSET Id, since : 0 .. MaxMsg]

\* A line of a correspondence; mail to oneself is on both of its sides.
Entry == {"in", "out"} \X Id

\* A correspondence is read side by side, and a page of it is answered.
PeerRead == [step : {"inbox", "sent", "page"}, me : Account, peer : Account, asked : Page,
             entries : SUBSET Entry, since : 0 .. MaxMsg]

NoRead == [step |-> "none"]

\* The entries of an account among the first n messages.
Inbox(a, n) == {i \in 1 .. n : a = msgs[i].to \/ a \in msgs[i].cc}
Sent(a, n) == {i \in 1 .. n : a = msgs[i].from}

Now == Len(msgs)

\* The n newest of a box, and the entries of a list that are shown before e:
\* the list is sorted by the second, the inbox side first within it.
Newer(box, i) == {j \in box : j > i}
Newest(box, n) == {i \in box : Cardinality(Newer(box, i)) < n}

Before(list, e) ==
    {f \in list : \/ Second[f[2]] > Second[e[2]]
                  \/ /\ Second[f[2]] = Second[e[2]]
                     /\ \/ f[1] = "in" /\ e[1] = "out"
                        \/ f[1] = e[1] /\ f[2] > e[2]}

Cut(list, asked) ==
    {e \in list : Cardinality(Before(list, e)) \in asked.offset .. asked.offset + asked.limit - 1}

VisibleTo(me, n) == UNION {Inbox(a, n) \cup Sent(a, n) : a \in {me} \cup SubordinatesOf[me]}

\* The messages of ids that replies within ids connect to m.
Topic(ids, m) ==
    {i \in ids :
        \A colour \in [ids -> ids] :
            (\A j \in ids : msgs[j].inReplyTo \in ids => colour[j] = colour[msgs[j].inReplyTo])
                => colour[i] = colour[m]}

-----------------------------------------------------------------------------
\* Send: a parent must be in the store, but need not be visible.
Send(msg) ==
    /\ Now < MaxMsg
    /\ msg.inReplyTo <= Now
    /\ msgs' = Append(msgs, msg)
    /\ UNCHANGED read

ThreadByRoot(me, id) ==
    /\ read = NoRead
    /\ read' = [step |-> "collect", me |-> me, of |-> id,
                left |-> {me} \cup SubordinatesOf[me],
                ids |-> {}, out |-> {}, since |-> Now]
    /\ UNCHANGED msgs

\* The two boxes of one account in one transaction; the caller's first.
Collect(a) ==
    /\ read.step = "collect" /\ a \in read.left
    /\ read.me \in read.left => a = read.me
    /\ read' = [read EXCEPT !.left = @ \ {a},
                            !.ids = @ \cup Inbox(a, Now) \cup Sent(a, Now)]
    /\ UNCHANGED msgs

\* Mutant of Derive: edges of messages that were not collected count.
DeriveFromAll ==
    /\ read.step = "collect" /\ read.left = {}
    /\ read' = [read EXCEPT !.step = "topic",
                   !.out = IF read.of \in read.ids
                           THEN Topic(1 .. Now, read.of) \cap read.ids ELSE {}]
    /\ UNCHANGED msgs

\* No answer when the message is not among those collected.
Derive ==
    /\ read.step = "collect" /\ read.left = {}
    /\ read' = [read EXCEPT !.step = "topic",
                   !.out = IF read.of \in read.ids THEN Topic(read.ids, read.of) ELSE {}]
    /\ UNCHANGED msgs

ReadThread(me, peer, asked) ==
    /\ read = NoRead
    /\ read' = [step |-> "inbox", me |-> me, peer |-> peer, asked |-> asked,
                entries |-> {}, since |-> Now]
    /\ UNCHANGED msgs

\* Of each box so many of the newest are read, whoever they are from or to.
Window == read.asked.limit + read.asked.offset + Margin

FromPeer(ids) == {"in"} \X {i \in ids : msgs[i].from = read.peer}
\* Recipients are those under To.
ToPeer(ids) == {"out"} \X {i \in ids : msgs[i].to = read.peer}

\* Mutant of ReadInboxSide: the offset is skipped here and again in the end.
ReadInboxPaged ==
    LET box == Inbox(read.me, Now) IN
    /\ read.step = "inbox"
    /\ read' = [read EXCEPT !.step = "sent",
                   !.entries = FromPeer(Newest(box, Window) \ Newest(box, read.asked.offset))]
    /\ UNCHANGED msgs

ReadInboxSide ==
    /\ read.step = "inbox"
    /\ read' = [read EXCEPT !.step = "sent",
                            !.entries = FromPeer(Newest(Inbox(read.me, Now), Window))]
    /\ UNCHANGED msgs

\* The sides are merged, and the page is cut out of the whole.
ReadSentSide ==
    /\ read.step = "sent"
    /\ read' = [read EXCEPT !.step = "page",
                            !.entries = Cut(@ \cup ToPeer(Newest(Sent(read.me, Now), Window)),
                                            read.asked)]
    /\ UNCHANGED msgs

Respond ==
    /\ read.step \in {"topic", "page"}
    /\ read' = NoRead
    /\ UNCHANGED msgs

ThreadsInit == msgs = <<>> /\ read = NoRead

ThreadsNext ==
    \/ \E from, to \in Account, cc \in {{}} \cup {{a} : a \in Copied}, p \in 0 .. MaxMsg :
          Send([from |-> from, to |-> to, cc |-> cc, inReplyTo |-> p])
    \/ \E me \in Reader :
          \/ \E id \in 1 .. Now : ThreadByRoot(me, id)
          \/ \E peer \in Account, asked \in Page : ReadThread(me, peer, asked)
    \/ \E a \in Account : Collect(a)
    \/ Derive \/ ReadInboxSide \/ ReadSentSide \/ Respond

ThreadsSpec == ThreadsInit /\ [][ThreadsNext]_threadsVars

-----------------------------------------------------------------------------
(* Properties.                                                             *)

\* Every variable stays within its type; a reply is younger than its parent.
ThreadsTypeOK ==
    /\ msgs \in Seq(Mail) /\ Now <= MaxMsg
    /\ \A i \in 1 .. Now : msgs[i].inReplyTo < i
    /\ read \in TopicRead \cup PeerRead \cup {NoRead}
    /\ read # NoRead => read.since <= Now
    /\ read.step \in {"collect", "topic"} => read.ids \subseteq VisibleTo(read.me, Now)

\* What is shown of a topic lies between the topic as it was when the read
\* began and as it is when it ends, although mail arrived in between: nothing
\* that was there is missed, nothing that the caller may not see or that does
\* not belong to it is shown.  And "the earliest message in a component is its
\* root": the only one whose parent is not shown, so one tree is shown.
TopicBetween ==
    read.step = "topic" =>
        /\ read.of \in VisibleTo(read.me, read.since)
              => Topic(VisibleTo(read.me, read.since), read.of) \subseteq read.out
        /\ read.out # {} => read.out \subseteq Topic(VisibleTo(read.me, Now), read.of)
        /\ \A i \in read.out :
              msgs[i].inReplyTo \notin read.out <=> \A j \in read.out : i <= j

\* The correspondence as it is among the first n messages, and what of it is
\* within the windows: fewer than Window mails of the box came after it.
Between(n) == FromPeer(Inbox(read.me, n)) \cup ToPeer(Sent(read.me, n))

InWindow(n) ==
    {e \in Between(n) :
        LET box == IF e[1] = "in" THEN Inbox(read.me, Now) ELSE Sent(read.me, Now)
        IN  Cardinality(Newer(box, e[2])) < Window}

\* Although mail arrives between the reads of the two boxes, and each of them
\* gives only its newest mails, a page is one of a correspondence between that
\* at the beginning and that at the end of the read: it shows nothing else, it
\* skips no fewer than the offset and not more than was asked for comes before
\* what it shows; and what was there and within the window is missing only
\* because it belongs to an earlier page or to a later one.
PageBetween ==
    read.step = "page" =>
        LET from == read.asked.offset
            to == read.asked.offset + read.asked.limit
            before(list, e) == Cardinality(Before(list, e))
            was == InWindow(read.since)
        IN  /\ \A e \in read.entries :
                  e \in Between(Now) /\ before(Between(Now), e) >= from /\ before(was, e) < to
            /\ \A e \in was \ read.entries :
                  before(was, e) < from \/ before(Between(Now), e) >= to

\* The first page, when it has room left: no later one shows what is missing.
WithRoom == read.step = "page" /\ read.asked.offset = 0
                               /\ Cardinality(read.entries) < read.asked.limit

\* message.go: "messages the account sent whose recipients include the peer":
\* those that were there, and within the window, are all shown.
RecipientsCovered ==
    WithRoom =>
        \A i \in Sent(read.me, read.since) \cap Inbox(read.peer, read.since) :
            Cardinality(Newer(Sent(read.me, Now), i)) < Window => <<"out", i>> \in read.entries

\* message.go: "Full index scan per side": what was there is shown.
WholeIndexesRead == WithRoom => Between(read.since) \subseteq read.entries

=============================================================================
