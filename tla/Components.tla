----------------------------- MODULE Components -----------------------------
(***************************************************************************)
(* The topics of a set of visible messages (deriveComponents of            *)
(* internal/store/threads.go): union-find with path halving along the      *)
(* in_reply_to edges that stay inside the set, then grouping by root.      *)
(*                                                                         *)
(* One action is one round of the loop of find, or what comes between two  *)
(* calls of it.  Go ranges over its maps in any order.  Nothing is assumed *)
(* of the edges: they may form cycles.                                     *)
(***************************************************************************)
EXTENDS Naturals

CONSTANTS
    Visible,        \* the messages the caller sees
    Hidden,         \* some it does not see
    None            \* no parent; nothing at hand

ASSUME VisibleAssumption == Visible \cap Hidden = {} /\ None \notin Visible \cup Hidden

VARIABLES
    inReplyTo,      \* message -> the message it replies to
    uf,             \* the union-find forest; who is not in the map is its own root
    todo,           \* replies whose edge has not been taken
    find,           \* the calls of find under way
    group           \* message -> the key of its group

vars == <<inReplyTo, uf, todo, find, group>>

Message == Visible \cup Hidden

\* find(x) on behalf of message m: of a union its first or its second call,
\* or the one that gives m its group; other is what the first call found.
Call == [for : {"first", "second", "group"}, m : Visible, x : Message,
         other : Message \cup {None}]

Idle == [for |-> "idle"]

Parent(m) == inReplyTo[m]

\* Mutant of Edges: a parent that is not visible joins its replies.
EdgesDangling == {m \in Visible : Parent(m) # None}

Edges == {m \in Visible : Parent(m) \in Visible}

Init ==
    /\ inReplyTo \in [Visible -> Message \cup {None}]
    /\ uf = [m \in Message |-> m]
    /\ todo = Edges
    /\ find = Idle
    /\ group = [m \in Visible |-> None]

-----------------------------------------------------------------------------

\* for id, p := range parent { union(id, p) }
TakeEdge(m) ==
    /\ find = Idle
    /\ m \in todo
    /\ todo' = todo \ {m}
    /\ find' = [for |-> "first", m |-> m, x |-> m, other |-> None]
    /\ UNCHANGED <<inReplyTo, uf, group>>

\* Mutant of Halve: the two assignments are the wrong way round.
HalveReversed ==
    /\ find # Idle /\ uf[find.x] # find.x
    /\ uf' = [uf EXCEPT ![uf[find.x]] = find.x]
    /\ find' = [find EXCEPT !.x = uf[find.x]]
    /\ UNCHANGED <<inReplyTo, todo, group>>

\* Mutant of Halve: find stops at the first parent.
HalveOnce ==
    /\ find # Idle /\ uf[find.x] # find.x
    /\ uf' = [uf EXCEPT ![find.x] = find.x]
    /\ UNCHANGED <<inReplyTo, todo, find, group>>

Halve ==
    /\ find # Idle /\ uf[find.x] # find.x
    /\ uf' = [uf EXCEPT ![find.x] = uf[uf[find.x]]]
    /\ find' = [find EXCEPT !.x = uf[uf[find.x]]]
    /\ UNCHANGED <<inReplyTo, todo, group>>

Found(for) == find # Idle /\ find.for = for /\ uf[find.x] = find.x

FindOther ==
    /\ Found("first")
    /\ find' = [for |-> "second", m |-> find.m, x |-> Parent(find.m), other |-> find.x]
    /\ UNCHANGED <<inReplyTo, uf, todo, group>>

\* With equal roots the assignment changes nothing, as the code's test has it.
Union ==
    /\ Found("second")
    /\ uf' = [uf EXCEPT ![find.other] = find.x]
    /\ find' = Idle
    /\ UNCHANGED <<inReplyTo, todo, group>>

\* for id, m := range msgs { r := find(id) ...
StartGrouping(m) ==
    /\ find = Idle /\ todo = {}
    /\ group[m] = None
    /\ find' = [for |-> "group", m |-> m, x |-> m, other |-> None]
    /\ UNCHANGED <<inReplyTo, uf, todo, group>>

Group ==
    /\ Found("group")
    /\ group' = [group EXCEPT ![find.m] = find.x]
    /\ find' = Idle
    /\ UNCHANGED <<inReplyTo, uf, todo>>

Next ==
    \/ \E m \in Visible : TakeEdge(m) \/ StartGrouping(m)
    \/ Halve \/ FindOther \/ Union \/ Group

Spec == Init /\ [][Next]_vars

\* The loops run on; whether they end is for the property.
FairSpec == Spec /\ WF_vars(Next)

-----------------------------------------------------------------------------
(* Properties.                                                             *)

\* Every variable stays within its type.
TypeOK ==
    /\ inReplyTo \in [Visible -> Message \cup {None}]
    /\ uf \in [Message -> Message]
    /\ todo \in SUBSET Visible
    /\ find \in Call \cup {Idle}
    /\ find # Idle => /\ find.for = "second" => find.other \in Message
    /\ group \in [Visible -> Message \cup {None}]

\* The reference: two messages are of one topic when no colouring that gives
\* visible replies the colour of their visible parents tells them apart.
Connected(a, b) ==
    \A colour \in [Message -> Message] :
        (\A m \in Visible : inReplyTo[m] \in Visible => colour[m] = colour[inReplyTo[m]])
            => colour[a] = colour[b]

\* No two topics are ever joined that have nothing to do with each other:
\* whatever the order, what find walks through is connected.
JoinedAreConnected ==
    /\ \A m \in Visible : Connected(m, uf[m])
    /\ \A m \in Visible : group[m] # None => Connected(m, group[m])

\* "A topic is a maximal connected component": once a message has its group,
\* every other message of its topic has the same or none yet, and the groups
\* do not depend on the order.
GroupsAreTopics ==
    \A a, b \in Visible :
        group[a] # None /\ group[b] # None => (group[a] = group[b] <=> Connected(a, b))

\* "Union-find is inherently cycle-safe": the loops end, also when the edges
\* form cycles.
Terminates == <>(\A m \in Visible : group[m] # None)

=============================================================================
