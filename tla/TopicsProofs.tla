--------------------------- MODULE TopicsProofs ---------------------------
(***************************************************************************)
(* TLAPS proofs about topics and correspondences: module Components, for   *)
(* every set of messages and every edges, cycles included, and module      *)
(* Threads, for every set of accounts and any order of mail and reads.     *)
(*                                                                         *)
(* Without recursion "the root of x" cannot be written down, so the        *)
(* invariant of Components speaks of colourings of the messages: those that*)
(* are constant along the edges, those that are constant along the forest, *)
(* and how far the two are the same.                                       *)
(***************************************************************************)
EXTENDS Components, Threads, FiniteSetTheorems, TLAPS

-----------------------------------------------------------------------------
(* Components: the topics of a set of messages.                            *)

Colouring == [Message -> Message]

AlongForest(c) == \A x \in Message : c[uf[x]] = c[x]

AlongEdges(c) == \A m \in Visible : inReplyTo[m] \in Visible => c[m] = c[inReplyTo[m]]

\* The forest joins nothing that the edges do not.
Sound == \A c \in Colouring : AlongEdges(c) => AlongForest(c)

Uniting == find # Idle /\ find.for \in {"first", "second"}

\* An edge that has been taken is in the forest.
Taken ==
    \A m \in Edges \ todo :
        (Uniting /\ find.m = m) \/ \A c \in Colouring : AlongForest(c) => c[m] = c[Parent(m)]

\* Where find is, it has got to through the forest.
Finding ==
    find # Idle =>
        /\ find.for = "first" =>
              find.m \in Edges /\ \A c \in Colouring : AlongForest(c) => c[find.x] = c[find.m]
        /\ find.for = "second" =>
              /\ find.m \in Edges
              /\ uf[find.other] = find.other
              /\ \A c \in Colouring : AlongForest(c) => /\ c[find.x] = c[Parent(find.m)]
                                                        /\ c[find.other] = c[find.m]
        /\ find.for = "group" =>
              todo = {} /\ \A c \in Colouring : AlongForest(c) => c[find.x] = c[find.m]

\* A group is named by a root, and no edge is left.
Grouped ==
    \A m \in Visible : group[m] # None =>
        /\ todo = {} /\ ~Uniting
        /\ uf[group[m]] = group[m]
        /\ \A c \in Colouring : AlongForest(c) => c[group[m]] = c[m]

\* The forest has no cycles, and a colouring that tells its roots apart.
Roots(c) == \A x \in Message : uf[x] = x => c[x] = x
Descends(d) == \A x \in Message : uf[x] # x => d[uf[x]] < d[x]
Forest ==
    /\ \E c \in Colouring : AlongForest(c) /\ Roots(c)
    /\ \E d \in [Message -> Nat] : Descends(d)

Inv == TypeOK /\ todo \subseteq Edges /\ Sound /\ Taken /\ Finding /\ Grouped /\ Forest

-----------------------------------------------------------------------------

LEMMA EdgeEnds == TypeOK => \A m \in Edges : m \in Message /\ Parent(m) \in Message
BY DEF TypeOK, Edges, Parent, Message

\* Init establishes the invariant: nothing is joined yet.
LEMMA InitInv == Init => Inv
<1> SUFFICES ASSUME Init PROVE Inv
    OBVIOUS
<1> DEFINE id == [x \in Message |-> x]
           zero == [x \in Message |-> 0]
<1>1. TypeOK
      BY DEF Init, TypeOK, Message, Edges, Idle
<1>2. Sound
      BY DEF Init, Sound, AlongForest
<1>3. Taken
      BY DEF Init, Taken
<1>4. Finding
      BY DEF Init, Finding
<1>5. Grouped
      BY DEF Init, Grouped
<1>6. id \in Colouring /\ AlongForest(id) /\ Roots(id)
      BY DEF Init, Colouring, AlongForest, Roots
<1>7. zero \in [Message -> Nat] /\ Descends(zero)
      BY DEF Init, Descends
<1>8. Forest
  <2> HIDE DEF id, zero
  <2> QED BY <1>6, <1>7 DEF Forest
<1>9. todo \subseteq Edges
      BY DEF Init
<1> QED
    BY <1>1, <1>2, <1>3, <1>4, <1>5, <1>8, <1>9 DEF Inv

\* Every action keeps the types.
LEMMA NextTypeOK == Inv /\ Next => TypeOK'
<1> SUFFICES ASSUME Inv, Next PROVE TypeOK'
    OBVIOUS
<1>t. TypeOK /\ Finding
      BY DEF Inv
<1> USE DEF TypeOK, Call, Idle
<1>1. CASE \E m \in Visible : TakeEdge(m)
      BY <1>1, <1>t DEF TakeEdge, Message
<1>2. CASE \E m \in Visible : StartGrouping(m)
      BY <1>2, <1>t DEF StartGrouping, Message
<1>3. CASE Halve
  <2>1. find \in Call /\ find.x \in Message /\ uf[uf[find.x]] \in Message
        BY <1>3, <1>t DEF Halve
  <2>2. uf' \in [Message -> Message] /\ find' \in Call /\ find'.for = find.for
        /\ find'.other = find.other
        BY <1>3, <2>1, <1>t DEF Halve
  <2> QED BY <1>3, <2>1, <2>2, <1>t DEF Halve
<1>4. CASE FindOther
  <2>1. find.m \in Visible /\ find.x \in Message /\ Parent(find.m) \in Message
        BY <1>4, <1>t DEF FindOther, Found, Finding, Edges, Message
  <2> QED BY <1>4, <2>1, <1>t DEF FindOther, Found
<1>5. CASE Union
      BY <1>5, <1>t DEF Union, Found
<1>6. CASE Group
      BY <1>6, <1>t DEF Group, Found
<1> QED
    BY <1>1, <1>2, <1>3, <1>4, <1>5, <1>6 DEF Next

\* Halving a path changes no tree.
LEMMA HalveKeepsTrees ==
    ASSUME Inv, Halve, NEW c \in Colouring
    PROVE  AlongForest(c)' <=> AlongForest(c)
<1> DEFINE x == find.x
           y == uf[x]
<1>1. x \in Message /\ y \in Message /\ uf[y] \in Message /\ y # x
      BY DEF Inv, TypeOK, Call, Halve
<1>2. uf' = [uf EXCEPT ![x] = uf[y]] /\ uf \in [Message -> Message]
      BY DEF Inv, TypeOK, Halve
<1>3. uf'[x] = uf[y] /\ uf'[y] = uf[y] /\ \A z \in Message : z # x => uf'[z] = uf[z]
      BY <1>1, <1>2
<1> HIDE DEF x, y
<1>4. ASSUME AlongForest(c) PROVE AlongForest(c)'
  <2>1. c[uf[y]] = c[y] /\ c[y] = c[x]
        BY <1>1, <1>4 DEF AlongForest, y
  <2> QED BY <1>1, <1>3, <1>4, <2>1 DEF AlongForest
<1>5. ASSUME AlongForest(c)' PROVE AlongForest(c)
  <2>1. c[uf[y]] = c[x] /\ c[uf[y]] = c[y]
        BY <1>1, <1>3, <1>5 DEF AlongForest
  <2> QED BY <1>1, <1>3, <1>5, <2>1 DEF AlongForest, y
<1> QED
    BY <1>4, <1>5

\* Halving preserves the invariant.
LEMMA HalveInv == Inv /\ Halve => Inv'
<1> SUFFICES ASSUME Inv, Halve PROVE Inv'
    OBVIOUS
<1> DEFINE x == find.x
           y == uf[x]
<1>t. TypeOK'
      BY NextTypeOK DEF Next
<1>1. /\ x \in Message /\ y \in Message /\ uf[y] \in Message /\ y # x
      /\ find # Idle /\ find \in Call /\ find' \in Call /\ find' # Idle
      /\ find' = [find EXCEPT !.x = uf[y]]
      /\ uf \in [Message -> Message] /\ uf' = [uf EXCEPT ![x] = uf[y]]
      /\ UNCHANGED <<inReplyTo, todo, group>>
      BY DEF Inv, TypeOK, Call, Halve, Idle
<1>2. uf'[x] = uf[y] /\ uf'[y] = uf[y] /\ \A z \in Message : z # x => uf'[z] = uf[z]
      BY <1>1
<1>3. /\ find'.for = find.for /\ find'.m = find.m /\ find'.other = find.other
      /\ find'.x = uf[y]
      BY <1>1 DEF Call
<1>4. Edges' = Edges /\ (\A m : Parent(m)' = Parent(m)) /\ (Uniting' <=> Uniting)
      BY <1>1, <1>3 DEF Edges, Parent, Uniting
<1>5. \A c \in Colouring : AlongForest(c)' <=> AlongForest(c)
      BY HalveKeepsTrees
<1>6. \A c \in Colouring : AlongForest(c) => c[uf[y]] = c[x]
      BY <1>1 DEF AlongForest
<1>7. y = uf[x]
      OBVIOUS
<1> HIDE DEF y
<1>8. Sound'
      BY <1>1, <1>5 DEF Inv, Sound, AlongEdges
<1>9. Taken'
      BY <1>1, <1>3, <1>4, <1>5 DEF Inv, Taken
<1>10. Finding'
  <2>1. CASE find.for = "first"
        BY <2>1, <1>1, <1>3, <1>4, <1>5, <1>6 DEF Inv, Finding
  <2>2. CASE find.for = "second"
    <3>1. /\ find.m \in Edges /\ find.other \in Message /\ uf[find.other] = find.other
          /\ \A c \in Colouring : AlongForest(c) => c[x] = c[Parent(find.m)]
                                                   /\ c[find.other] = c[find.m]
          BY <2>2, <1>1 DEF Inv, Finding, TypeOK
    <3>2. uf'[find.other] = find.other
          BY <3>1, <1>2, <1>1, <1>7
    <3>3. \A c \in Colouring : AlongForest(c)' => c[uf[y]] = c[Parent(find.m)]
                                                 /\ c[find.other] = c[find.m]
          BY <3>1, <1>5, <1>6
    <3> QED BY <2>2, <3>1, <3>2, <3>3, <1>3, <1>4 DEF Finding
  <2>3. CASE find.for = "group"
        BY <2>3, <1>1, <1>3, <1>4, <1>5, <1>6 DEF Inv, Finding
  <2> QED BY <2>1, <2>2, <2>3, <1>1 DEF Call
<1>11. Grouped'
  <2> SUFFICES ASSUME NEW m \in Visible, group[m] # None
               PROVE  /\ todo = {} /\ ~Uniting
                      /\ uf'[group[m]] = group[m]
                      /\ \A c \in Colouring : AlongForest(c) => c[group[m]] = c[m]
      BY <1>1, <1>4, <1>5 DEF Grouped
  <2>1. group[m] \in Message
        BY DEF Inv, TypeOK
  <2> QED BY <2>1, <1>1, <1>2, <1>7 DEF Inv, Grouped
<1>12. Forest'
  <2>1. PICK c \in Colouring : AlongForest(c) /\ Roots(c)
        BY DEF Inv, Forest
  <2>2. PICK d \in [Message -> Nat] : Descends(d)
        BY DEF Inv, Forest
  <2>3. d[y] < d[x] /\ (uf[y] # y => d[uf[y]] < d[y]) /\ d[x] \in Nat /\ d[y] \in Nat
        /\ d[uf[y]] \in Nat
        BY <2>2, <1>1, <1>7 DEF Descends
  <2>4. uf[y] # x /\ d[uf[y]] < d[x]
        BY <2>3
  <2>5. Descends(d)'
        BY <2>2, <2>4, <1>1, <1>2 DEF Descends
  <2>6. AlongForest(c)' /\ Roots(c)'
        BY <2>1, <2>4, <1>1, <1>2, <1>5 DEF Roots
  <2> QED BY <2>5, <2>6 DEF Forest
<1>13. (todo \subseteq Edges)'
      BY <1>1, <1>4 DEF Inv
<1> QED
    BY <1>t, <1>8, <1>9, <1>10, <1>11, <1>12, <1>13 DEF Inv

\* Hanging one root under another joins their trees, and no others.
LEMMA UnionJoins ==
    ASSUME Inv, Union, NEW c \in Colouring
    PROVE  AlongForest(c)' <=> AlongForest(c) /\ c[find.other] = c[find.x]
<1> DEFINE r == find.other
           x == find.x
<1>1. /\ r \in Message /\ x \in Message /\ uf[r] = r
      /\ uf \in [Message -> Message] /\ uf' = [uf EXCEPT ![r] = x]
      BY DEF Inv, TypeOK, Call, Union, Found, Finding
<1>2. uf'[r] = x /\ \A z \in Message : z # r => uf'[z] = uf[z]
      BY <1>1
<1> HIDE DEF r, x
<1>3. AlongForest(c)' <=> AlongForest(c) /\ c[r] = c[x]
      BY <1>1, <1>2 DEF AlongForest
<1> QED
    BY <1>3 DEF r, x

\* The union of two trees has a root of its own and no cycle.
LEMMA UnionForest == Inv /\ Union => Forest'
<1> SUFFICES ASSUME Inv, Union PROVE Forest'
    OBVIOUS
<1> DEFINE r == find.other
           x == find.x
<1>1. /\ r \in Message /\ x \in Message /\ uf[r] = r /\ uf[x] = x
      /\ uf \in [Message -> Message] /\ uf' = [uf EXCEPT ![r] = x]
      BY DEF Inv, TypeOK, Call, Union, Found, Finding
<1>2. uf'[r] = x /\ \A z \in Message : z # r => uf'[z] = uf[z]
      BY <1>1
<1> HIDE DEF r, x
<1>3. PICK c \in Colouring : AlongForest(c) /\ Roots(c)
      BY DEF Inv, Forest
<1>4. PICK d \in [Message -> Nat] : Descends(d)
      BY DEF Inv, Forest
<1>5. CASE r = x
  <2>1. uf' = uf
        BY <1>1, <1>5
  <2> QED BY <2>1 DEF Inv, Forest, AlongForest, Roots, Descends
<1>6. CASE r # x
  <2>1. c[r] = r /\ c[x] = x
        BY <1>1, <1>3 DEF Roots
  <2>2. PICK cc \in Colouring : \A z \in Message : cc[z] = IF c[z] = r THEN x ELSE c[z]
    <3>1. [z \in Message |-> IF c[z] = r THEN x ELSE c[z]] \in Colouring
          BY <1>1, <1>3 DEF Colouring
    <3> QED BY <3>1
  <2>d. \A z \in Message : d[z] \in Nat
        BY <1>4
  <2>6. PICK dd \in [Message -> Nat] :
           \A z \in Message : dd[z] = IF c[z] = r THEN d[z] + d[x] + 1 ELSE d[z]
    <3>1. [z \in Message |-> IF c[z] = r THEN d[z] + d[x] + 1 ELSE d[z]] \in [Message -> Nat]
          BY <1>1, <2>d
    <3> QED BY <3>1
  <2>3. AlongForest(cc)'
    <3>1. ASSUME NEW z \in Message PROVE cc[uf'[z]] = cc[z]
      <4>1. CASE z = r
            BY <4>1, <2>1, <2>2, <1>1, <1>2, <1>6
      <4>2. CASE z # r
            BY <4>2, <2>2, <1>1, <1>2, <1>3 DEF AlongForest
      <4> QED BY <4>1, <4>2
    <3> QED BY <3>1 DEF AlongForest
  <2>4. Roots(cc)'
        BY <2>2, <1>1, <1>2, <1>3, <1>6 DEF Roots
  <2>5. Descends(dd)'
    <3>1. ASSUME NEW z \in Message, uf'[z] # z PROVE dd[uf'[z]] < dd[z]
      <4>1. CASE z = r
            BY <4>1, <2>1, <2>6, <2>d, <1>1, <1>2, <1>6
      <4>2. CASE z # r
        <5>1. uf'[z] = uf[z] /\ uf[z] \in Message /\ c[uf[z]] = c[z] /\ d[uf[z]] < d[z]
              BY <4>2, <3>1, <1>1, <1>2, <1>3, <1>4 DEF AlongForest, Descends
        <5> QED BY <5>1, <2>6, <2>d, <1>1
      <4> QED BY <4>1, <4>2
    <3> QED BY <3>1 DEF Descends
  <2> QED BY <2>3, <2>4, <2>5 DEF Forest
<1> QED
    BY <1>5, <1>6

\* A union preserves the invariant.
LEMMA UnionInv == Inv /\ Union => Inv'
<1> SUFFICES ASSUME Inv, Union PROVE Inv'
    OBVIOUS
<1>t. TypeOK'
      BY NextTypeOK DEF Next
<1>1. /\ find # Idle /\ find.for = "second" /\ Uniting /\ find' = Idle /\ ~Uniting'
      /\ find.m \in Edges
      /\ UNCHANGED <<inReplyTo, todo, group>>
      BY DEF Inv, Union, Found, Uniting, Finding
<1>2. \A c \in Colouring :
         AlongForest(c)' <=> AlongForest(c) /\ c[find.other] = c[find.x]
      BY UnionJoins
<1>3. \A c \in Colouring : AlongForest(c) =>
         c[find.x] = c[Parent(find.m)] /\ c[find.other] = c[find.m]
      BY <1>1 DEF Inv, Finding
<1>4. Edges' = Edges /\ \A m : Parent(m)' = Parent(m)
      BY <1>1 DEF Edges, Parent
<1>5. Sound'
  <2>1. \A c \in Colouring : AlongEdges(c) => c[find.m] = c[Parent(find.m)]
        BY <1>1 DEF AlongEdges, Edges, Parent
  <2> QED BY <2>1, <1>1, <1>2, <1>3 DEF Inv, Sound, AlongEdges
<1>6. Taken'
  <2>1. \A c \in Colouring : AlongForest(c)' => c[find.m] = c[Parent(find.m)]
        BY <1>2, <1>3
  <2> QED BY <2>1, <1>1, <1>2, <1>4 DEF Inv, Taken
<1>7. Finding'
      BY <1>1 DEF Finding
<1>8. Grouped'
      BY <1>1 DEF Inv, Grouped
<1>9. Forest'
      BY UnionForest
<1>10. (todo \subseteq Edges)'
      BY <1>1, <1>4 DEF Inv
<1> QED
    BY <1>t, <1>5, <1>6, <1>7, <1>8, <1>9, <1>10 DEF Inv

\* A step that leaves the forest and the edges alone leaves alone what is
\* said of them alone.
LEMMA SameForest ==
    ASSUME Inv, UNCHANGED <<inReplyTo, uf>>
    PROVE  /\ Sound' /\ Forest' /\ Edges' = Edges /\ (\A m : Parent(m)' = Parent(m))
           /\ \A c : AlongForest(c)' <=> AlongForest(c)
BY DEF Inv, Sound, Forest, Edges, Parent, AlongForest, AlongEdges, Roots, Descends

\* The steps between the calls of find preserve the invariant.
LEMMA CallsInv ==
    Inv /\ ((\E m \in Visible : TakeEdge(m) \/ StartGrouping(m)) \/ FindOther \/ Group) => Inv'
<1> SUFFICES ASSUME Inv, (\E m \in Visible : TakeEdge(m) \/ StartGrouping(m))
                        \/ FindOther \/ Group
             PROVE  Inv'
    OBVIOUS
<1>t. TypeOK'
      BY NextTypeOK DEF Next
<1>s. /\ Sound' /\ Forest' /\ Edges' = Edges /\ (\A m : Parent(m)' = Parent(m))
      /\ \A c : AlongForest(c)' <=> AlongForest(c)
      BY SameForest DEF TakeEdge, StartGrouping, FindOther, Group
<1>1. ASSUME NEW m \in Visible, TakeEdge(m) PROVE Inv'
  <2>1. /\ m \in todo /\ todo' = todo \ {m} /\ find = Idle /\ m \in Edges /\ ~Uniting
        /\ find' = [for |-> "first", m |-> m, x |-> m, other |-> None] /\ find' # Idle
        /\ UNCHANGED <<inReplyTo, uf, group>>
        BY <1>1 DEF Inv, TakeEdge, Uniting, Idle
  <2>2. Finding'
        BY <2>1, <1>s DEF Finding
  <2>3. Taken'
        BY <2>1, <1>s DEF Inv, Taken, Uniting
  <2>4. Grouped'
        BY <2>1 DEF Inv, Grouped
  <2> QED BY <1>t, <1>s, <2>1, <2>2, <2>3, <2>4 DEF Inv
<1>2. ASSUME NEW m \in Visible, StartGrouping(m) PROVE Inv'
  <2>1. /\ todo = {} /\ find = Idle /\ ~Uniting
        /\ find' = [for |-> "group", m |-> m, x |-> m, other |-> None] /\ ~Uniting'
        /\ UNCHANGED <<inReplyTo, uf, todo, group>>
        BY <1>2 DEF StartGrouping, Uniting
  <2>2. Finding'
        BY <2>1, <1>s DEF Finding
  <2>3. Taken'
        BY <2>1, <1>s DEF Inv, Taken
  <2>4. Grouped'
        BY <2>1, <1>s DEF Inv, Grouped
  <2> QED BY <1>t, <1>s, <2>1, <2>2, <2>3, <2>4 DEF Inv
<1>3. CASE FindOther
  <2>1. /\ find # Idle /\ find.for = "first" /\ uf[find.x] = find.x /\ Uniting /\ Uniting'
        /\ find' = [for |-> "second", m |-> find.m, x |-> Parent(find.m), other |-> find.x]
        /\ UNCHANGED <<inReplyTo, uf, todo, group>>
        BY <1>3 DEF FindOther, Found, Uniting, Idle
  <2>2. Finding'
        BY <2>1, <1>s DEF Inv, Finding
  <2>3. Taken'
        BY <2>1, <1>s DEF Inv, Taken
  <2>4. Grouped'
        BY <2>1 DEF Inv, Grouped
  <2> QED BY <1>t, <1>s, <2>1, <2>2, <2>3, <2>4 DEF Inv
<1>4. CASE Group
  <2>1. /\ find # Idle /\ find.for = "group" /\ uf[find.x] = find.x /\ find' = Idle
        /\ ~Uniting /\ ~Uniting' /\ find.m \in Visible
        /\ group \in [Visible -> Message \cup {None}]
        /\ group' = [group EXCEPT ![find.m] = find.x]
        /\ UNCHANGED <<inReplyTo, uf, todo>>
        BY <1>4 DEF Inv, TypeOK, Call, Group, Found, Uniting
  <2>2. Finding'
        BY <2>1 DEF Finding
  <2>3. Taken'
        BY <2>1, <1>s DEF Inv, Taken
  <2>4. Grouped'
    <3>1. todo = {} /\ \A c \in Colouring : AlongForest(c) => c[find.x] = c[find.m]
          BY <2>1 DEF Inv, Finding
    <3> SUFFICES ASSUME NEW m \in Visible, group'[m] # None
                 PROVE  /\ todo = {} /\ ~Uniting'
                        /\ uf[group'[m]] = group'[m]
                        /\ \A c \in Colouring : AlongForest(c) => c[group'[m]] = c[m]
        BY <2>1, <1>s DEF Grouped
    <3>2. CASE m = find.m
          BY <3>1, <3>2, <2>1
    <3>3. CASE m # find.m
          BY <3>1, <3>3, <2>1 DEF Inv, Grouped
    <3> QED BY <3>2, <3>3
  <2> QED BY <1>t, <1>s, <2>1, <2>2, <2>3, <2>4 DEF Inv
<1> QED
    BY <1>1, <1>2, <1>3, <1>4

\* The invariant holds in every reachable state.
LEMMA SpecInv == Spec => []Inv
<1>1. Inv /\ UNCHANGED vars => Inv'
  <2> SUFFICES ASSUME Inv, UNCHANGED vars PROVE Inv'
      OBVIOUS
  <2> USE DEF vars
  <2>1. Sound' /\ Forest' /\ Edges' = Edges /\ (\A m : Parent(m)' = Parent(m))
        /\ \A c : AlongForest(c)' <=> AlongForest(c)
        BY SameForest
  <2>2. TypeOK' /\ (todo \subseteq Edges)'
        BY <2>1 DEF Inv, TypeOK
  <2>3. Taken' /\ Finding' /\ Grouped'
        BY <2>1 DEF Inv, Taken, Finding, Grouped, Uniting
  <2> QED BY <2>1, <2>2, <2>3 DEF Inv
<1>2. Inv /\ Next => Inv'
      BY HalveInv, UnionInv, CallsInv DEF Next
<1> QED
    BY <1>1, <1>2, InitInv, PTL DEF Spec

-----------------------------------------------------------------------------

\* Type correctness.
THEOREM TypeCorrect == Spec => []TypeOK
BY SpecInv, PTL DEF Inv

\* Whatever the order in which Go ranges over its maps, the forest and the
\* groups join nothing that the replies do not connect.
THEOREM Soundness == Spec => []JoinedAreConnected
<1>1. Inv => JoinedAreConnected
  <2> SUFFICES ASSUME Inv PROVE JoinedAreConnected
      OBVIOUS
  <2>1. \A c \in Colouring : AlongEdges(c) => AlongForest(c)
        BY DEF Inv, Sound
  <2>2. \A m \in Visible : Connected(m, uf[m])
        BY <2>1 DEF Connected, Colouring, AlongEdges, AlongForest, Message
  <2>3. ASSUME NEW m \in Visible, group[m] # None PROVE Connected(m, group[m])
        BY <2>1, <2>3 DEF Inv, Grouped, Connected, Colouring, AlongEdges
  <2> QED BY <2>2, <2>3 DEF JoinedAreConnected
<1> QED
    BY <1>1, SpecInv, PTL

\* deriveComponents computes the topics: messages that have their groups have
\* the same group exactly when replies connect them.
THEOREM Correctness == Spec => []GroupsAreTopics
<1>1. Inv => GroupsAreTopics
  <2> SUFFICES ASSUME Inv, NEW a \in Visible, NEW b \in Visible,
                      group[a] # None, group[b] # None
               PROVE  group[a] = group[b] <=> Connected(a, b)
      BY DEF GroupsAreTopics
  <2>1. /\ a \in Message /\ b \in Message /\ group[a] \in Message /\ group[b] \in Message
        BY DEF Inv, TypeOK, Message
  <2>2. /\ todo = {} /\ ~Uniting /\ uf[group[a]] = group[a] /\ uf[group[b]] = group[b]
        /\ \A c \in Colouring : AlongForest(c) => c[group[a]] = c[a] /\ c[group[b]] = c[b]
        BY DEF Inv, Grouped
  <2>3. ASSUME group[a] = group[b] PROVE Connected(a, b)
        BY <2>2, <2>3 DEF Inv, Sound, Connected, Colouring, AlongEdges
  <2>4. ASSUME Connected(a, b) PROVE group[a] = group[b]
    <3>1. PICK c \in Colouring : AlongForest(c) /\ Roots(c)
          BY DEF Inv, Forest
    <3>2. \A m \in Visible : inReplyTo[m] \in Visible => c[m] = c[inReplyTo[m]]
          BY <3>1, <2>2 DEF Inv, Taken, Edges, Parent
    <3>3. c[a] = c[b]
          BY <2>4, <3>1, <3>2 DEF Connected, Colouring
    <3>4. c[group[a]] = group[a] /\ c[group[b]] = group[b]
          BY <2>1, <2>2, <3>1 DEF Roots
    <3> QED BY <2>2, <3>1, <3>3, <3>4
  <2> QED BY <2>3, <2>4
<1> QED
    BY <1>1, SpecInv, PTL

-----------------------------------------------------------------------------
(* Threads: topics and correspondences read while mail arrives.            *)

-----------------------------------------------------------------------------
(* The invariant.                                                          *)

Typed ==
    /\ msgs \in Seq(Mail) /\ Now <= MaxMsg
    /\ \A i \in 1 .. Now : msgs[i].inReplyTo \in Nat /\ msgs[i].inReplyTo < i
    /\ read \in TopicRead \cup PeerRead \cup {NoRead}

Scope(me) == {me} \cup SubordinatesOf[me]

\* What was there when a read began is collected of every account that has
\* been read, and nothing that is not there.
Collecting ==
    read.step = "collect" =>
        /\ read.of \in 1 .. read.since /\ read.left \subseteq Scope(read.me)
        /\ \A a \in Scope(read.me) \ read.left :
              Inbox(a, read.since) \cup Sent(a, read.since) \subseteq read.ids
        /\ read.ids \subseteq VisibleTo(read.me, Now)

\* The correspondence as it is, and what there was of it that no window loses.
Is == Between(Now)
Was == InWindow(read.since)

Rank(list, e) == Cardinality(Before(list, e))

\* The inbox side holds all that was in it, and nothing else.
Reading ==
    read.step = "sent" =>
        /\ read.entries \subseteq Is
        /\ \A e \in Was : e[1] = "in" => e \in read.entries

\* A topic is derived from such a collection.
Deriving ==
    read.step = "topic" =>
        /\ VisibleTo(read.me, read.since) \subseteq read.ids
        /\ read.ids \subseteq VisibleTo(read.me, Now)
        /\ read.out = IF read.of \in read.ids THEN Topic(read.ids, read.of) ELSE {}

\* A page is cut out of a list that lies between the two correspondences.
Paging ==
    read.step = "page" =>
        /\ \A e \in read.entries :
              /\ e \in Is /\ Rank(Is, e) >= read.asked.offset
              /\ Rank(Was, e) < read.asked.offset + read.asked.limit
        /\ \A e \in Was \ read.entries :
              \/ Rank(Was, e) < read.asked.offset
              \/ Rank(Is, e) >= read.asked.offset + read.asked.limit

ThreadsInv ==
    /\ Typed
    /\ read.step # "none" => read.since <= Now
    /\ Collecting /\ Reading /\ Deriving /\ Paging

-----------------------------------------------------------------------------
(* Topics.                                                                 *)

\* A colouring of ids that gives replies the colour of their parents.
Fits(colour, ids) ==
    \A j \in ids : msgs[j].inReplyTo \in ids => colour[j] = colour[msgs[j].inReplyTo]

LEMMA TopicIs ==
    ASSUME NEW ids, NEW m
    PROVE  /\ Topic(ids, m) \subseteq ids
           /\ \A i \in ids : i \in Topic(ids, m)
                 <=> \A colour \in [ids -> ids] : Fits(colour, ids) => colour[i] = colour[m]
  BY DEF Topic, Fits

\* Two colours are enough to tell a message from a topic.
LEMMA TopicSplits ==
    ASSUME NEW ids, NEW m \in ids, NEW i \in Topic(ids, m), NEW D \in SUBSET ids,
           \A j \in ids : msgs[j].inReplyTo \in ids => (j \in D <=> msgs[j].inReplyTo \in D)
    PROVE  i \in D <=> m \in D
  <1> SUFFICES ASSUME ~(i \in D <=> m \in D)
               PROVE  FALSE
    OBVIOUS
  <1> DEFINE colour == [j \in ids |-> IF j \in D THEN m ELSE i]
  <1>1. i \in ids /\ i # m
    BY TopicIs
  <1>2. colour \in [ids -> ids] /\ colour[i] # colour[m]
    BY <1>1
  <1>3. Fits(colour, ids)
    BY DEF Fits
  <1> HIDE DEF colour
  <1>4. QED
    BY <1>1, <1>2, <1>3, TopicIs

\* In a larger set of messages a topic loses nothing.
LEMMA TopicGrows ==
    ASSUME NEW large, NEW ids \in SUBSET large, NEW m \in ids
    PROVE  Topic(ids, m) \subseteq Topic(large, m)
  <1> SUFFICES ASSUME NEW i \in Topic(ids, m), NEW colour \in [large -> large], Fits(colour, large)
               PROVE  colour[i] = colour[m]
    BY TopicIs
  <1> DEFINE D == {j \in ids : colour[j] = colour[m]}
  <1>1. \A j \in ids : msgs[j].inReplyTo \in ids => (j \in D <=> msgs[j].inReplyTo \in D)
    BY DEF Fits
  <1>2. m \in D /\ D \in SUBSET ids
    OBVIOUS
  <1> HIDE DEF D
  <1>3. i \in D
    BY <1>1, <1>2, TopicSplits
  <1>4. QED
    BY <1>3 DEF D

\* A message is in its own topic, and so is the parent of each that is in it.
LEMMA TopicClosed ==
    ASSUME NEW ids, NEW m \in ids
    PROVE  /\ m \in Topic(ids, m)
           /\ \A i \in Topic(ids, m) : msgs[i].inReplyTo \in ids => msgs[i].inReplyTo \in Topic(ids, m)
  <1>1. m \in Topic(ids, m)
    BY TopicIs
  <1>2. ASSUME NEW i \in Topic(ids, m), msgs[i].inReplyTo \in ids
        PROVE  msgs[i].inReplyTo \in Topic(ids, m)
    <2>1. i \in ids
      BY TopicIs
    <2>2. ASSUME NEW colour \in [ids -> ids], Fits(colour, ids)
          PROVE  colour[msgs[i].inReplyTo] = colour[m]
      <3>1. colour[i] = colour[msgs[i].inReplyTo]
        BY <1>2, <2>1, <2>2 DEF Fits
      <3>2. colour[i] = colour[m]
        BY <2>1, <2>2, TopicIs
      <3>3. QED
        BY <3>1, <3>2
    <2>3. QED
      BY <1>2, <2>2, TopicIs
  <1>3. QED
    BY <1>1, <1>2

\* Replies being younger than what they reply to, a topic is one tree: its
\* root is the earliest message and the only one whose parent is not in it.
LEMMA TopicRoot ==
    ASSUME Typed, NEW ids \in SUBSET (1 .. Now), NEW m \in ids, NEW i \in Topic(ids, m)
    PROVE  msgs[i].inReplyTo \notin Topic(ids, m) <=> \A j \in Topic(ids, m) : i <= j
  <1> DEFINE T == Topic(ids, m)
  <1>1. T \in SUBSET ids /\ m \in T /\ \A j \in ids : j \in Nat /\ msgs[j].inReplyTo \in Nat
                                                     /\ msgs[j].inReplyTo < j
    <2>1. T \in SUBSET ids /\ m \in T
      BY TopicIs, TopicClosed
    <2>2. \A j \in 1 .. Now : msgs[j].inReplyTo \in Nat /\ msgs[j].inReplyTo < j
      BY DEF Typed
    <2>3. \A j \in 1 .. Now : j \in Nat
      OBVIOUS
    <2>4. QED
      BY <2>1, <2>2, <2>3
  <1>2. \A j \in T : msgs[j].inReplyTo \in ids => msgs[j].inReplyTo \in T
    BY TopicClosed
  <1> HIDE DEF T
  <1>3. i \in T /\ i \in ids /\ i \in Nat /\ msgs[i].inReplyTo \in Nat /\ msgs[i].inReplyTo < i
    BY <1>1 DEF T
  <1>4. ASSUME \A j \in T : i <= j
        PROVE  msgs[i].inReplyTo \notin T
    BY <1>3, <1>4
  <1>5. ASSUME msgs[i].inReplyTo \notin T, NEW j \in T, j < i
        PROVE  FALSE
    \* Those from which i can be reached are not told apart from their
    \* parents: the least set with i that has every reply to one of its own.
    <2> DEFINE Closed(S) == i \in S /\ \A x \in ids : msgs[x].inReplyTo \in S => x \in S
               D == {x \in ids : \A S \in SUBSET ids : Closed(S) => x \in S}
    <2>1. Closed(D)
      <3>1. i \in D
        BY <1>3
      <3>2. ASSUME NEW x \in ids, msgs[x].inReplyTo \in D
            PROVE  x \in D
        BY <3>2
      <3>3. QED
        BY <3>1, <3>2
    <2>2. D \in SUBSET ids
      OBVIOUS
    <2>3. \A S \in SUBSET ids : Closed(S) => D \subseteq S
      OBVIOUS
    <2> HIDE DEF D
    <2>4. ASSUME NEW x \in D, msgs[x].inReplyTo \in ids
          PROVE  msgs[x].inReplyTo \in D
      <3> SUFFICES ASSUME msgs[x].inReplyTo \notin D
                   PROVE  FALSE
        OBVIOUS
      <3>1. x # i
        BY <1>2, <1>3, <1>5, <2>4
      <3>2. Closed(D \ {x})
        BY <2>1, <3>1
      <3>3. QED
        BY <2>2, <2>3, <3>2
    <2>5. j \notin D
      <3> DEFINE S == {x \in ids : i <= x}
      <3>1. Closed(S)
        <4>1. i \in S
          BY <1>3
        <4>2. ASSUME NEW x \in ids, msgs[x].inReplyTo \in S
              PROVE  x \in S
          <5>1. x \in Nat /\ msgs[x].inReplyTo \in Nat /\ msgs[x].inReplyTo < x
            BY <1>1
          <5>2. i <= msgs[x].inReplyTo
            BY <4>2
          <5>3. QED
            BY <1>3, <5>1, <5>2
        <4>3. QED
          BY <4>1, <4>2
      <3>2. j \notin S
        <4>1. j \in Nat
          BY <1>1
        <4>2. QED
          BY <1>3, <1>5, <4>1
      <3>3. QED
        BY <2>3, <3>1, <3>2
    <2>6. i \in D
      BY <2>1
    <2>7. \A x \in ids : msgs[x].inReplyTo \in ids => (x \in D <=> msgs[x].inReplyTo \in D)
      BY <2>1, <2>4
    <2> HIDE DEF Closed, T
    <2>8. i \in D <=> m \in D
      BY <2>2, <2>7, TopicSplits DEF T
    <2>9. j \in D <=> m \in D
      BY <1>5, <2>2, <2>7, TopicSplits DEF T
    <2>10. QED
      BY <2>5, <2>6, <2>8, <2>9
  <1>6. ASSUME NEW j \in T, ~(i <= j)
        PROVE  j < i
    BY <1>1, <1>3, <1>6
  <1>7. QED
    BY <1>4, <1>5, <1>6 DEF T

-----------------------------------------------------------------------------
(* Boxes, and what a new message changes.                                  *)

LEMMA VisibleToIs ==
    ASSUME NEW me, NEW n
    PROVE  /\ \A x : x \in VisibleTo(me, n) <=> \E a \in Scope(me) : x \in Inbox(a, n) \cup Sent(a, n)
           /\ \A a \in Scope(me) : Inbox(a, n) \cup Sent(a, n) \subseteq VisibleTo(me, n)
           /\ \A S : (\A a \in Scope(me) : Inbox(a, n) \cup Sent(a, n) \subseteq S)
                        => VisibleTo(me, n) \subseteq S
           /\ VisibleTo(me, n) \subseteq 1 .. n
  <1>1. \A a : Inbox(a, n) \cup Sent(a, n) \subseteq 1 .. n
    BY DEF Inbox, Sent
  <1>2. QED
    BY <1>1 DEF VisibleTo, Scope

LEMMA BoxesGrow ==
    ASSUME NEW n \in Nat, NEW k \in Nat, n <= k
    PROVE  \A a : /\ Inbox(a, n) \subseteq Inbox(a, k) /\ Sent(a, n) \subseteq Sent(a, k)
                  /\ VisibleTo(a, n) \subseteq VisibleTo(a, k)
  <1>1. \A i \in 1 .. n : i \in 1 .. k
    OBVIOUS
  <1>2. \A a : Inbox(a, n) \subseteq Inbox(a, k) /\ Sent(a, n) \subseteq Sent(a, k)
    BY <1>1 DEF Inbox, Sent
  <1>3. ASSUME NEW a, NEW x \in VisibleTo(a, n)
        PROVE  x \in VisibleTo(a, k)
    BY <1>2, VisibleToIs
  <1>4. QED
    BY <1>2, <1>3

\* A message that arrives changes nothing of what was there.
LEMMA SendKeeps ==
    ASSUME Typed, NEW msg, msgs' = Append(msgs, msg)
    PROVE  /\ Now' = Now + 1 /\ Now \in Nat
           /\ \A i \in 1 .. Now : msgs'[i] = msgs[i]
           /\ \A n \in 0 .. Now : \A a :
                 /\ Inbox(a, n)' = Inbox(a, n) /\ Sent(a, n)' = Sent(a, n)
                 /\ VisibleTo(a, n)' = VisibleTo(a, n)
           /\ \A ids \in SUBSET (1 .. Now) : \A m : Topic(ids, m)' = Topic(ids, m)
  <1>1. Now' = Now + 1 /\ Now \in Nat /\ \A i \in 1 .. Now : msgs'[i] = msgs[i]
    BY DEF Typed, Now
  <1>2. ASSUME NEW n \in 0 .. Now, NEW a
        PROVE  Inbox(a, n)' = Inbox(a, n) /\ Sent(a, n)' = Sent(a, n)
    <2>1. \A i \in 1 .. n : i \in 1 .. Now
      BY <1>1
    <2>2. \A i \in 1 .. n : msgs'[i] = msgs[i]
      BY <1>1, <2>1
    <2>3. QED
      BY <2>2 DEF Inbox, Sent
  <1>3. ASSUME NEW n \in 0 .. Now, NEW a
        PROVE  VisibleTo(a, n)' = VisibleTo(a, n)
    BY <1>2 DEF VisibleTo
  <1>4. ASSUME NEW ids \in SUBSET (1 .. Now), NEW m
        PROVE  Topic(ids, m)' = Topic(ids, m)
    <2>1. \A i \in ids : msgs'[i] = msgs[i]
      BY <1>1
    <2>2. QED
      BY <2>1 DEF Topic
  <1>5. QED
    BY <1>1, <1>2, <1>3, <1>4

-----------------------------------------------------------------------------
(* Correspondences, and what a new message changes of them.                *)

LEMMA EntryFinite == IsFiniteSet(Entry) /\ IsFiniteSet(Id)
  <1>1. IsFiniteSet(Id)
    BY ThreadsAssumption, FS_Interval DEF Id
  <1>2. IsFiniteSet({"in", "out"})
    <2>1. IsFiniteSet({"in"}) /\ IsFiniteSet({"out"})
      BY FS_Singleton
    <2>2. {"in", "out"} = {"in"} \cup {"out"}
      OBVIOUS
    <2>3. QED
      BY <2>1, <2>2, FS_Union
  <1>3. QED
    BY <1>1, <1>2, FS_Product DEF Entry

\* The longer the list, the later an entry comes.
LEMMA RankGrows ==
    ASSUME NEW T \in SUBSET Entry, NEW S \in SUBSET T, NEW e
    PROVE  Rank(S, e) \in Nat /\ Rank(T, e) \in Nat /\ Rank(S, e) <= Rank(T, e)
  <1>1. Before(S, e) \subseteq Before(T, e) /\ Before(T, e) \subseteq Entry
    BY DEF Before
  <1>2. IsFiniteSet(Before(T, e)) /\ IsFiniteSet(Before(S, e))
    BY <1>1, EntryFinite, FS_Subset
  <1>3. QED
    BY <1>1, <1>2, FS_Subset, FS_CardinalityType DEF Rank

LEMMA NewerGrows ==
    ASSUME NEW T \in SUBSET Id, NEW S \in SUBSET T, NEW i
    PROVE  /\ Cardinality(Newer(S, i)) \in Nat /\ Cardinality(Newer(T, i)) \in Nat
           /\ Cardinality(Newer(S, i)) <= Cardinality(Newer(T, i))
  <1>1. Newer(S, i) \subseteq Newer(T, i) /\ Newer(T, i) \subseteq Id
    BY DEF Newer
  <1>2. IsFiniteSet(Newer(T, i)) /\ IsFiniteSet(Newer(S, i))
    BY <1>1, EntryFinite, FS_Subset
  <1>3. QED
    BY <1>1, <1>2, FS_Subset, FS_CardinalityType

LEMMA WindowIs ==
    ASSUME read.asked \in Page
    PROVE  /\ read.asked.limit \in Nat /\ read.asked.offset \in Nat /\ Window \in Nat
  BY ThreadsAssumption DEF Window

LEMMA BoxesAreIds ==
    ASSUME Typed, NEW n \in 0 .. Now
    PROVE  /\ Now \in Nat /\ n \in Nat
           /\ \A a : Inbox(a, n) \in SUBSET Id /\ Sent(a, n) \in SUBSET Id
  BY ThreadsAssumption DEF Typed, Now, Inbox, Sent, Id

LEMMA BetweenIs ==
    ASSUME NEW n
    PROVE  \A e : e \in Between(n) <=>
              \/ \E i \in Inbox(read.me, n) : e = <<"in", i>> /\ msgs[i].from = read.peer
              \/ \E i \in Sent(read.me, n) : e = <<"out", i>> /\ msgs[i].to = read.peer
  BY DEF Between, FromPeer, ToPeer

\* What there was is still there, and only entries are listed.
LEMMA WasIsIs ==
    ASSUME Typed, read.since \in 0 .. Now
    PROVE  Was \subseteq Is /\ Is \subseteq Entry
  <1>1. Between(read.since) \subseteq Between(Now)
    <2>1. /\ Inbox(read.me, read.since) \subseteq Inbox(read.me, Now)
          /\ Sent(read.me, read.since) \subseteq Sent(read.me, Now)
      BY BoxesAreIds, BoxesGrow
    <2>2. QED
      BY <2>1, BetweenIs
  <1>2. Between(Now) \subseteq Entry
    <2>1. Now \in 0 .. Now
      BY DEF Typed, Now
    <2>2. QED
      BY <2>1, BoxesAreIds DEF Between, FromPeer, ToPeer, Entry
  <1>3. QED
    BY <1>1, <1>2 DEF Was, Is, InWindow

LEMMA WasIsIsNext ==
    ASSUME Typed', read'.since \in 0 .. Now'
    PROVE  Is' \subseteq Entry
  <1>1. Now' \in Nat /\ \A a : Inbox(a, Now)' \in SUBSET Id /\ Sent(a, Now)' \in SUBSET Id
    BY ThreadsAssumption DEF Typed, Now, Inbox, Sent, Id
  <1>2. QED
    BY <1>1 DEF Is, Between, FromPeer, ToPeer, Entry

\* The two depend on the messages and on what was asked.
LEMMA SameMail ==
    ASSUME msgs' = msgs, read'.me = read.me, read'.peer = read.peer,
           read'.asked = read.asked, read'.since = read.since
    PROVE  Is' = Is /\ Was' = Was
  <1>1. Now' = Now /\ Window' = Window
    BY DEF Now, Window
  <1>2. /\ \A n : Inbox(read.me, n)' = Inbox(read.me, n)
        /\ \A n : Sent(read.me, n)' = Sent(read.me, n)
    BY DEF Inbox, Sent
  <1>3. \A n : Between(n)' = Between(n)
    BY <1>2 DEF Between, FromPeer, ToPeer
  <1>4. QED
    BY <1>1, <1>2, <1>3 DEF Is, Was, InWindow

\* A message that arrives can only push entries out of the windows.
LEMMA SendWidens ==
    ASSUME Typed, Typed', NEW msg, msgs' = Append(msgs, msg), read' = read,
           read.since \in 0 .. Now, read.asked \in Page
    PROVE  Is \subseteq Is' /\ Was' \subseteq Was
  <1>1. /\ Now' = Now + 1 /\ Now \in Nat /\ \A i \in 1 .. Now : msgs'[i] = msgs[i]
        /\ \A n \in 0 .. Now : \A a : Inbox(a, n)' = Inbox(a, n) /\ Sent(a, n)' = Sent(a, n)
    BY SendKeeps
  <1>2. \A a : Inbox(a, Now) \subseteq Inbox(a, Now)' /\ Sent(a, Now) \subseteq Sent(a, Now)'
    <2>1. \A i \in 1 .. Now : i \in 1 .. Now'
      BY <1>1
    <2>2. QED
      BY <1>1, <2>1 DEF Inbox, Sent
  <1>3. \A a : Inbox(a, Now)' \in SUBSET Id /\ Sent(a, Now)' \in SUBSET Id
    BY <1>1, ThreadsAssumption DEF Typed, Inbox, Sent, Id, Now
  <1>4. ASSUME NEW e \in Is
        PROVE  e \in Is'
    <2>1. CASE e[1] = "in" /\ e \in FromPeer(Inbox(read.me, Now))
      <3>1. e[2] \in Inbox(read.me, Now) /\ msgs[e[2]].from = read.peer /\ e = <<"in", e[2]>>
        BY <2>1 DEF FromPeer
      <3>2. e[2] \in Inbox(read.me, Now)' /\ msgs'[e[2]].from = read.peer
        BY <1>1, <1>2, <3>1 DEF Inbox
      <3>3. <<"in", e[2]>> \in FromPeer(Inbox(read.me, Now))'
        BY <3>2 DEF FromPeer
      <3>4. QED
        BY <3>1, <3>3 DEF Is, Between
    <2>2. CASE e[1] = "out" /\ e \in ToPeer(Sent(read.me, Now))
      <3>1. e[2] \in Sent(read.me, Now) /\ msgs[e[2]].to = read.peer /\ e = <<"out", e[2]>>
        BY <2>2 DEF ToPeer
      <3>2. e[2] \in Sent(read.me, Now)' /\ msgs'[e[2]].to = read.peer
        BY <1>1, <1>2, <3>1 DEF Sent
      <3>3. <<"out", e[2]>> \in ToPeer(Sent(read.me, Now))'
        BY <3>2 DEF ToPeer
      <3>4. QED
        BY <3>1, <3>3 DEF Is, Between
    <2>3. QED
      BY <2>1, <2>2 DEF Is, Between, FromPeer, ToPeer
  <1>5. Between(read.since)' = Between(read.since)
    <2>1. /\ Inbox(read.me, read.since)' = Inbox(read.me, read.since)
          /\ Sent(read.me, read.since)' = Sent(read.me, read.since)
      BY <1>1
    <2>2. /\ Inbox(read.me, read.since) \subseteq 1 .. Now
          /\ Sent(read.me, read.since) \subseteq 1 .. Now
      BY <1>1 DEF Inbox, Sent
    <2>3. /\ \A i \in Inbox(read.me, read.since) : msgs'[i] = msgs[i]
          /\ \A i \in Sent(read.me, read.since) : msgs'[i] = msgs[i]
      BY <1>1, <2>2
    <2>4. FromPeer(Inbox(read.me, read.since))' = FromPeer(Inbox(read.me, read.since))
      BY <2>1, <2>3 DEF FromPeer
    <2>5. ToPeer(Sent(read.me, read.since))' = ToPeer(Sent(read.me, read.since))
      BY <2>1, <2>3 DEF ToPeer
    <2>6. QED
      BY <2>4, <2>5 DEF Between
  <1>6. ASSUME NEW e \in Was'
        PROVE  e \in Was
    <2>1. Window' = Window /\ Window \in Nat
      BY WindowIs DEF Window
    <2>2. /\ Cardinality(Newer(Inbox(read.me, Now), e[2])) \in Nat
          /\ Cardinality(Newer(Inbox(read.me, Now)', e[2])) \in Nat
          /\ Cardinality(Newer(Inbox(read.me, Now), e[2])) <= Cardinality(Newer(Inbox(read.me, Now)', e[2]))
      BY <1>2, <1>3, NewerGrows
    <2>3. /\ Cardinality(Newer(Sent(read.me, Now), e[2])) \in Nat
          /\ Cardinality(Newer(Sent(read.me, Now)', e[2])) \in Nat
          /\ Cardinality(Newer(Sent(read.me, Now), e[2])) <= Cardinality(Newer(Sent(read.me, Now)', e[2]))
      BY <1>2, <1>3, NewerGrows
    <2>4. /\ e \in Between(read.since)'
          /\ e[1] = "in" => Cardinality(Newer(Inbox(read.me, Now)', e[2])) < Window
          /\ e[1] # "in" => Cardinality(Newer(Sent(read.me, Now)', e[2])) < Window
      BY <2>1 DEF Was, InWindow, Newer
    <2>5. QED
      BY <1>5, <2>1, <2>2, <2>3, <2>4 DEF Was, InWindow
  <1>7. QED
    BY <1>4, <1>6

-----------------------------------------------------------------------------
(* The invariant is inductive.                                             *)

LEMMA ReadFields ==
    ASSUME read \in TopicRead \cup PeerRead \cup {NoRead}
    PROVE  /\ read # NoRead <=> read.step # "none"
           /\ read.step \in {"none", "collect", "topic", "inbox", "sent", "page"}
           /\ read.step \in {"collect", "topic"} =>
                 /\ read = [step |-> read.step, me |-> read.me, of |-> read.of, left |-> read.left,
                            ids |-> read.ids, out |-> read.out, since |-> read.since]
                 /\ read.of \in Id /\ read.left \in SUBSET Account /\ read.ids \in SUBSET Id
                 /\ read.out \in SUBSET Id
           /\ read.step \in {"inbox", "sent", "page"} =>
                 /\ read = [step |-> read.step, me |-> read.me, peer |-> read.peer,
                            asked |-> read.asked, entries |-> read.entries, since |-> read.since]
                 /\ read.peer \in Account /\ read.asked \in Page /\ read.entries \in SUBSET Entry
           /\ read # NoRead => read.me \in Account /\ read.since \in 0 .. MaxMsg
  <1>1. CASE read = NoRead
    BY <1>1 DEF NoRead
  <1>2. CASE read \in TopicRead
    BY <1>2 DEF TopicRead, NoRead
  <1>3. CASE read \in PeerRead
    BY <1>3 DEF PeerRead, NoRead
  <1>4. QED
    BY <1>1, <1>2, <1>3

LEMMA ThreadsInvInit == ThreadsInit => ThreadsInv
  <1> SUFFICES ASSUME ThreadsInit PROVE ThreadsInv
    OBVIOUS
  <1>1. Typed
    <2>1. msgs \in Seq(Mail) /\ Len(msgs) = 0
      BY DEF ThreadsInit
    <2>2. QED
      BY <2>1, ThreadsAssumption DEF ThreadsInit, Typed, Now
  <1>2. read.step = "none"
    BY DEF ThreadsInit, NoRead
  <1>3. QED
    BY <1>1, <1>2 DEF ThreadsInv, Collecting, Reading, Deriving, Paging

LEMMA SendInv ==
    ASSUME ThreadsInv, NEW msg \in Mail, Send(msg)
    PROVE  ThreadsInv'
  <1>1. Typed /\ msgs' = Append(msgs, msg) /\ read' = read
    BY DEF ThreadsInv, Send
  <1>2. /\ Now' = Now + 1 /\ Now \in Nat /\ \A i \in 1 .. Now : msgs'[i] = msgs[i]
        /\ \A n \in 0 .. Now : \A a : Inbox(a, n)' = Inbox(a, n) /\ Sent(a, n)' = Sent(a, n)
                                  /\ VisibleTo(a, n)' = VisibleTo(a, n)
        /\ \A ids \in SUBSET (1 .. Now) : \A m : Topic(ids, m)' = Topic(ids, m)
    BY <1>1, SendKeeps
  <1>3. Typed'
    <2>1. msgs' \in Seq(Mail) /\ msgs'[Now + 1] = msg
      BY <1>1, <1>2 DEF Typed, Now
    <2>2. Now' <= MaxMsg /\ msg.inReplyTo \in Nat /\ msg.inReplyTo < Now + 1
      BY <1>2, ThreadsAssumption DEF Send, Mail, Typed
    <2>3. ASSUME NEW i \in 1 .. Now'
          PROVE  msgs'[i].inReplyTo \in Nat /\ msgs'[i].inReplyTo < i
      <3>1. CASE i \in 1 .. Now
        BY <1>1, <1>2, <3>1 DEF Typed
      <3>2. CASE i = Now + 1
        BY <2>1, <2>2, <3>2
      <3>3. QED
        BY <1>2, <3>1, <3>2
    <2>4. QED
      BY <1>1, <2>1, <2>2, <2>3 DEF Typed
  <1>4. CASE read = NoRead
    <2>1. read.step = "none"
      BY <1>4 DEF NoRead
    <2>2. QED
      BY <1>1, <1>3, <2>1 DEF ThreadsInv, Collecting, Reading, Deriving, Paging
  <1>5. CASE read # NoRead
    <2>1. read.since \in 0 .. Now /\ read.since <= Now'
      BY <1>1, <1>2, <1>5, ReadFields DEF ThreadsInv, Typed
    <2>2. VisibleTo(read.me, Now) \subseteq VisibleTo(read.me, Now)'
      <3>1. \A i \in 1 .. Now : i \in 1 .. Now'
        BY <1>2
      <3>2. \A a : Inbox(a, Now) \subseteq Inbox(a, Now)' /\ Sent(a, Now) \subseteq Sent(a, Now)'
        BY <1>2, <3>1 DEF Inbox, Sent
      <3>3. ASSUME NEW x \in VisibleTo(read.me, Now)
            PROVE  x \in VisibleTo(read.me, Now)'
        <4>1. PICK a \in Scope(read.me) : x \in Inbox(a, Now) \cup Sent(a, Now)
          BY VisibleToIs
        <4>2. x \in Inbox(a, Now)' \cup Sent(a, Now)'
          BY <3>2, <4>1
        <4>3. QED
          BY <1>1, <4>1, <4>2 DEF VisibleTo, Scope
      <3>4. QED
        BY <3>3
    <2>3. Collecting'
      BY <1>1, <1>2, <2>1, <2>2 DEF ThreadsInv, Collecting
    <2>4. Deriving'
      <3>1. ASSUME read.step = "topic"
            PROVE  Topic(read.ids, read.of)' = Topic(read.ids, read.of)
        <4>1. read.ids \in SUBSET (1 .. Now)
          BY <3>1, VisibleToIs DEF ThreadsInv, Deriving
        <4>2. QED
          BY <1>1, <1>2, <4>1
      <3>2. QED
        BY <1>1, <1>2, <2>1, <2>2, <3>1 DEF ThreadsInv, Deriving
    <2>5. Reading' /\ Paging'
      <3>1. CASE read.step \in {"sent", "page"}
        <4>1. read.asked \in Page
          BY <1>1, <3>1, ReadFields DEF Typed
        <4>2. Is \subseteq Is' /\ Was' \subseteq Was
          BY <1>1, <1>3, <2>1, <4>1, SendWidens
        <4>3. Was \subseteq Is /\ Is' \subseteq Entry
          <5>1. Was \subseteq Is
            BY <1>1, <2>1, WasIsIs
          <5>2. Is' \subseteq Entry
            BY <1>1, <1>2, <1>3, <2>1, WasIsIsNext
          <5>3. QED
            BY <5>1, <5>2
        <4>4. \A e : /\ Rank(Was', e) \in Nat /\ Rank(Was, e) \in Nat /\ Rank(Was', e) <= Rank(Was, e)
                     /\ Rank(Is, e) \in Nat /\ Rank(Is', e) \in Nat /\ Rank(Is, e) <= Rank(Is', e)
          BY <4>2, <4>3, RankGrows
        <4>5. read.asked.limit \in Nat /\ read.asked.offset \in Nat
          BY <4>1, WindowIs
        <4>6. Reading'
          BY <1>1, <4>2 DEF ThreadsInv, Reading
        <4>7. ASSUME read.step = "page", NEW e \in read.entries
              PROVE  /\ e \in Is' /\ Rank(Is', e) >= read.asked.offset
                     /\ Rank(Was', e) < read.asked.offset + read.asked.limit
          BY <4>2, <4>4, <4>5, <4>7 DEF ThreadsInv, Paging
        <4>8. ASSUME read.step = "page", NEW e \in Was' \ read.entries
              PROVE  \/ Rank(Was', e) < read.asked.offset
                     \/ Rank(Is', e) >= read.asked.offset + read.asked.limit
          <5>1. \/ Rank(Was, e) < read.asked.offset
                \/ Rank(Is, e) >= read.asked.offset + read.asked.limit
            BY <4>2, <4>8 DEF ThreadsInv, Paging
          <5>2. QED
            BY <4>4, <4>5, <5>1
        <4>9. Paging'
          BY <1>1, <4>7, <4>8 DEF Paging
        <4>10. QED
          BY <4>6, <4>9
      <3>2. CASE read.step \notin {"sent", "page"}
        BY <1>1, <3>2 DEF Reading, Paging
      <3>3. QED
        BY <3>1, <3>2
    <2>6. QED
      BY <1>1, <1>3, <2>1, <2>3, <2>4, <2>5 DEF ThreadsInv
  <1>6. QED
    BY <1>4, <1>5

LEMMA StartInv ==
    ASSUME ThreadsInv, NEW me \in Account,
           \/ \E id \in 1 .. Now : ThreadByRoot(me, id)
           \/ \E peer \in Account, asked \in Page : ReadThread(me, peer, asked)
    PROVE  ThreadsInv'
  <1>1. Now \in Nat /\ Now <= MaxMsg /\ Now \in 0 .. MaxMsg /\ \A i \in 1 .. Now : i \in Id
    BY ThreadsAssumption DEF ThreadsInv, Typed, Now, Id
  <1>2. Scope(me) \in SUBSET Account
    BY ThreadsAssumption DEF Scope
  <1>3. ASSUME NEW id \in 1 .. Now, ThreadByRoot(me, id)
        PROVE  ThreadsInv'
    <2>1. /\ read' = [step |-> "collect", me |-> me, of |-> id, left |-> Scope(me), ids |-> {},
                      out |-> {}, since |-> Now]
          /\ msgs' = msgs /\ Now' = Now
      BY <1>3 DEF ThreadByRoot, Scope, Now
    <2>2. read' \in TopicRead
      BY <1>1, <1>2, <2>1 DEF TopicRead
    <2>3. Typed'
      BY <2>1, <2>2 DEF ThreadsInv, Typed
    <2>4. Collecting'
      BY <2>1 DEF Collecting
    <2>5. Reading' /\ Deriving' /\ Paging'
      BY <2>1 DEF Reading, Deriving, Paging
    <2>6. QED
      BY <1>1, <2>1, <2>3, <2>4, <2>5 DEF ThreadsInv
  <1>4. ASSUME NEW peer \in Account, NEW asked \in Page, ReadThread(me, peer, asked)
        PROVE  ThreadsInv'
    <2>1. /\ read' = [step |-> "inbox", me |-> me, peer |-> peer, asked |-> asked,
                      entries |-> {}, since |-> Now]
          /\ msgs' = msgs /\ Now' = Now
      BY <1>4 DEF ReadThread, Now
    <2>2. read' \in PeerRead
      BY <1>1, <2>1 DEF PeerRead
    <2>3. Typed'
      BY <2>1, <2>2 DEF ThreadsInv, Typed
    <2>4. Collecting'
      BY <2>1 DEF Collecting
    <2>5. Reading' /\ Deriving' /\ Paging'
      BY <2>1 DEF Reading, Deriving, Paging
    <2>6. QED
      BY <1>1, <2>1, <2>3, <2>4, <2>5 DEF ThreadsInv
  <1>5. QED
    BY <1>3, <1>4

\* What was in an account's boxes when the read began is still there.
LEMMA CollectInv ==
    ASSUME ThreadsInv, NEW a \in Account, Collect(a)
    PROVE  ThreadsInv'
  <1> DEFINE found == Inbox(a, Now) \cup Sent(a, Now)
  <1>1. /\ read.step = "collect" /\ a \in read.left /\ msgs' = msgs /\ Now' = Now
        /\ read' = [read EXCEPT !.left = @ \ {a}, !.ids = @ \cup found]
    BY DEF Collect, Now
  <1>2. /\ read.me \in Account /\ read.of \in Id
        /\ read.left \in SUBSET Account /\ read.ids \in SUBSET Id /\ read.out \in SUBSET Id
        /\ read.since \in 0 .. MaxMsg /\ read.since <= Now
        /\ read = [step |-> read.step, me |-> read.me, of |-> read.of, left |-> read.left,
                   ids |-> read.ids, out |-> read.out, since |-> read.since]
    BY <1>1, ReadFields DEF ThreadsInv, Typed
  <1>3. read' = [step |-> "collect", me |-> read.me, of |-> read.of, left |-> read.left \ {a},
                 ids |-> read.ids \cup found, out |-> read.out, since |-> read.since]
    BY <1>1, <1>2
  <1>4. /\ Now \in Nat /\ found \subseteq 1 .. Now /\ \A i \in 1 .. Now : i \in Id
        /\ found \subseteq VisibleTo(read.me, Now)
    <2>1. a \in Scope(read.me)
      BY <1>1 DEF ThreadsInv, Collecting
    <2>2. found \subseteq VisibleTo(read.me, Now)
      BY <2>1, VisibleToIs
    <2>3. QED
      BY <2>2, VisibleToIs, ThreadsAssumption DEF ThreadsInv, Typed, Now, Id
  <1> HIDE DEF found
  <1>5. read' \in TopicRead
    BY <1>2, <1>3, <1>4 DEF TopicRead
  <1>6. Typed'
    BY <1>1, <1>5 DEF ThreadsInv, Typed
  <1>7. Inbox(a, read.since) \cup Sent(a, read.since) \subseteq found
    BY <1>2, <1>4, BoxesGrow DEF found
  <1>8. Collecting'
    <2>1. ASSUME NEW b \in Scope(read.me) \ (read.left \ {a})
          PROVE  Inbox(b, read.since) \cup Sent(b, read.since) \subseteq read.ids \cup found
      BY <1>1, <1>7 DEF ThreadsInv, Collecting
    <2>2. read.ids \cup found \subseteq VisibleTo(read.me, Now)
      BY <1>1, <1>4 DEF ThreadsInv, Collecting
    <2>3. /\ read'.me = read.me /\ read'.of = read.of /\ read'.since = read.since
          /\ read'.left = read.left \ {a} /\ read'.ids = read.ids \cup found
      BY <1>3
    <2>4. \A b, n : /\ Inbox(b, n)' = Inbox(b, n) /\ Sent(b, n)' = Sent(b, n)
                    /\ VisibleTo(b, n)' = VisibleTo(b, n)
      BY <1>1 DEF Inbox, Sent, VisibleTo
    <2>5. QED
      BY <1>1, <2>1, <2>2, <2>3, <2>4 DEF ThreadsInv, Collecting
  <1>9. Reading' /\ Deriving' /\ Paging'
    BY <1>3 DEF Reading, Deriving, Paging
  <1>10. QED
    BY <1>1, <1>2, <1>3, <1>6, <1>8, <1>9 DEF ThreadsInv

LEMMA DeriveInv ==
    ASSUME ThreadsInv, Derive
    PROVE  ThreadsInv'
  <1> DEFINE topic == IF read.of \in read.ids THEN Topic(read.ids, read.of) ELSE {}
  <1>1. /\ read.step = "collect" /\ read.left = {} /\ msgs' = msgs /\ Now' = Now
        /\ read' = [read EXCEPT !.step = "topic", !.out = topic]
    BY DEF Derive, Now
  <1>2. /\ read.me \in Account /\ read.of \in Id
        /\ read.left \in SUBSET Account /\ read.ids \in SUBSET Id
        /\ read.since \in 0 .. MaxMsg /\ read.since <= Now
        /\ read = [step |-> read.step, me |-> read.me, of |-> read.of, left |-> read.left,
                   ids |-> read.ids, out |-> read.out, since |-> read.since]
    BY <1>1, ReadFields DEF ThreadsInv, Typed
  <1>3. topic \in SUBSET Id
    BY <1>2, TopicIs
  <1>4. /\ read'.me = read.me /\ read'.of = read.of /\ read'.since = read.since
        /\ read'.ids = read.ids /\ read'.out = topic /\ read'.step = "topic"
    BY <1>1, <1>2
  <1>5. read' = [step |-> "topic", me |-> read.me, of |-> read.of, left |-> read.left,
                 ids |-> read.ids, out |-> topic, since |-> read.since]
    BY <1>1, <1>2
  <1> HIDE DEF topic
  <1>6. read' \in TopicRead
    BY <1>2, <1>3, <1>5 DEF TopicRead
  <1>7. Typed'
    BY <1>1, <1>6 DEF ThreadsInv, Typed
  <1>8. VisibleTo(read.me, read.since) \subseteq read.ids
    BY <1>1, VisibleToIs DEF ThreadsInv, Collecting
  <1>9. /\ \A b, n : VisibleTo(b, n)' = VisibleTo(b, n)
        /\ \A ids, m : Topic(ids, m)' = Topic(ids, m)
    BY <1>1 DEF Inbox, Sent, VisibleTo, Topic
  <1>10. Deriving'
    BY <1>1, <1>4, <1>8, <1>9 DEF ThreadsInv, Collecting, Deriving, topic
  <1>11. Collecting' /\ Reading' /\ Paging'
    BY <1>4 DEF Collecting, Reading, Paging
  <1>12. QED
    BY <1>1, <1>2, <1>4, <1>7, <1>10, <1>11 DEF ThreadsInv

\* What was on the inbox side and is within the window is in the read.
LEMMA InboxSideInv ==
    ASSUME ThreadsInv, ReadInboxSide
    PROVE  ThreadsInv'
  <1> DEFINE side == FromPeer(Newest(Inbox(read.me, Now), Window))
  <1>1. /\ read.step = "inbox" /\ msgs' = msgs /\ Now' = Now
        /\ read' = [read EXCEPT !.step = "sent", !.entries = side]
    BY DEF ReadInboxSide, Now
  <1>2. /\ read.me \in Account /\ read.peer \in Account /\ read.asked \in Page
        /\ read.since \in 0 .. MaxMsg /\ read.since <= Now /\ Typed
        /\ read = [step |-> read.step, me |-> read.me, peer |-> read.peer, asked |-> read.asked,
                   entries |-> read.entries, since |-> read.since]
    BY <1>1, ReadFields DEF ThreadsInv, Typed
  <1>3. read' = [step |-> "sent", me |-> read.me, peer |-> read.peer, asked |-> read.asked,
                 entries |-> side, since |-> read.since]
    BY <1>1, <1>2
  <1>4. Now \in Nat /\ read.since \in 0 .. Now
    BY <1>2 DEF Typed, Now
  <1>5. side \subseteq Is
    BY DEF Is, Between, FromPeer, Newest
  <1>6. ASSUME NEW e \in Was, e[1] = "in"
        PROVE  e \in side
    <2>1. e \in FromPeer(Inbox(read.me, read.since)) /\ Cardinality(Newer(Inbox(read.me, Now), e[2])) < Window
      BY <1>6 DEF Was, InWindow, Between, ToPeer
    <2>2. Inbox(read.me, read.since) \subseteq Inbox(read.me, Now)
      BY <1>4, BoxesGrow
    <2>3. QED
      BY <2>1, <2>2 DEF FromPeer, Newest
  <1>7. Is' = Is /\ Was' = Was
    BY <1>1, <1>3, SameMail
  <1>8. side \in SUBSET Entry
    BY <1>2, <1>4, <1>5, WasIsIs
  <1> HIDE DEF side
  <1>9. Typed'
    <2>1. read' \in PeerRead
      BY <1>2, <1>3, <1>8 DEF PeerRead
    <2>2. QED
      BY <1>1, <1>2, <2>1 DEF Typed
  <1>10. Collecting' /\ Reading' /\ Deriving' /\ Paging'
    BY <1>3, <1>5, <1>6, <1>7 DEF Collecting, Reading, Deriving, Paging
  <1>11. QED
    BY <1>1, <1>2, <1>3, <1>9, <1>10 DEF ThreadsInv

\* The merged list lies between the two correspondences, and so does its page.
LEMMA SentSideInv ==
    ASSUME ThreadsInv, ReadSentSide
    PROVE  ThreadsInv'
  <1> DEFINE side == ToPeer(Newest(Sent(read.me, Now), Window))
             list == read.entries \cup side
             page == Cut(list, read.asked)
  <1>1. /\ read.step = "sent" /\ msgs' = msgs /\ Now' = Now
        /\ read' = [read EXCEPT !.step = "page", !.entries = page]
    BY DEF ReadSentSide, Now
  <1>2. /\ read.me \in Account /\ read.peer \in Account /\ read.asked \in Page
        /\ read.since \in 0 .. MaxMsg /\ read.since <= Now /\ Typed
        /\ read = [step |-> read.step, me |-> read.me, peer |-> read.peer, asked |-> read.asked,
                   entries |-> read.entries, since |-> read.since]
    BY <1>1, ReadFields DEF ThreadsInv, Typed
  <1>3. read' = [step |-> "page", me |-> read.me, peer |-> read.peer, asked |-> read.asked,
                 entries |-> page, since |-> read.since]
    BY <1>1, <1>2
  <1>4. Now \in Nat /\ read.since \in 0 .. Now
    BY <1>2 DEF Typed, Now
  <1>5. list \subseteq Is
    <2>1. side \subseteq Is
      BY DEF Is, Between, ToPeer, Newest
    <2>2. QED
      BY <1>1, <2>1 DEF ThreadsInv, Reading
  <1>6. Was \subseteq list
    <2> SUFFICES ASSUME NEW e \in Was, e[1] # "in"
                 PROVE  e \in side
      BY <1>1 DEF ThreadsInv, Reading
    <2>1. e \in ToPeer(Sent(read.me, read.since)) /\ Cardinality(Newer(Sent(read.me, Now), e[2])) < Window
      BY DEF Was, InWindow, Between, FromPeer
    <2>2. Sent(read.me, read.since) \subseteq Sent(read.me, Now)
      BY <1>4, BoxesGrow
    <2>3. QED
      BY <2>1, <2>2 DEF ToPeer, Newest
  <1>7. Is \subseteq Entry
    BY <1>2, <1>4, WasIsIs
  <1>8. Is' = Is /\ Was' = Was
    BY <1>1, <1>3, SameMail
  <1> HIDE DEF side, list
  <1>9. page \subseteq list
    BY DEF Cut
  <1>10. \A e : /\ Rank(Was, e) \in Nat /\ Rank(list, e) \in Nat /\ Rank(Is, e) \in Nat
                /\ Rank(Was, e) <= Rank(list, e) /\ Rank(list, e) <= Rank(Is, e)
    <2>1. list \in SUBSET Entry
      BY <1>5, <1>7
    <2>2. QED
      BY <1>5, <1>6, <1>7, <2>1, RankGrows
  <1>11. read.asked.limit \in Nat /\ read.asked.offset \in Nat
    BY <1>2, WindowIs
  <1>12. \A e \in list : e \in page <=> /\ Rank(list, e) >= read.asked.offset
                                        /\ Rank(list, e) < read.asked.offset + read.asked.limit
    BY <1>10, <1>11 DEF Cut, Rank
  <1> HIDE DEF page
  <1>13. ASSUME NEW e \in page
         PROVE  /\ e \in Is /\ Rank(Is, e) >= read.asked.offset
                /\ Rank(Was, e) < read.asked.offset + read.asked.limit
    BY <1>5, <1>9, <1>10, <1>11, <1>12
  <1>14. ASSUME NEW e \in Was \ page
         PROVE  \/ Rank(Was, e) < read.asked.offset
                \/ Rank(Is, e) >= read.asked.offset + read.asked.limit
    BY <1>6, <1>10, <1>11, <1>12
  <1>15. Paging'
    <2>1. read'.entries = page /\ read'.asked = read.asked
      BY <1>3
    <2>2. QED
      BY <1>8, <1>13, <1>14, <2>1 DEF Paging
  <1>16. Typed'
    <2>1. read' \in PeerRead
      BY <1>2, <1>3, <1>5, <1>7, <1>9 DEF PeerRead
    <2>2. QED
      BY <1>1, <1>2, <2>1 DEF Typed
  <1>17. Collecting' /\ Reading' /\ Deriving'
    BY <1>3 DEF Collecting, Reading, Deriving
  <1>18. QED
    BY <1>1, <1>2, <1>3, <1>15, <1>16, <1>17 DEF ThreadsInv

LEMMA RespondInv ==
    ASSUME ThreadsInv, Respond
    PROVE  ThreadsInv'
  <1>1. read' = NoRead /\ msgs' = msgs /\ read'.step = "none"
    BY DEF Respond, NoRead
  <1>2. QED
    BY <1>1 DEF ThreadsInv, Typed, Collecting, Reading, Deriving, Paging, Now

LEMMA ThreadsInvariant == ThreadsSpec => []ThreadsInv
  <1>1. ThreadsInv /\ [ThreadsNext]_threadsVars => ThreadsInv'
    <2> SUFFICES ASSUME ThreadsInv, [ThreadsNext]_threadsVars
                 PROVE  ThreadsInv'
      OBVIOUS
    <2>1. ASSUME NEW from \in Account, NEW to \in Account, NEW cc \in {{}} \cup {{a} : a \in Copied},
                 NEW p \in 0 .. MaxMsg,
                 Send([from |-> from, to |-> to, cc |-> cc, inReplyTo |-> p])
          PROVE  ThreadsInv'
      <3>1. [from |-> from, to |-> to, cc |-> cc, inReplyTo |-> p] \in Mail
        BY ThreadsAssumption DEF Mail
      <3>2. QED
        BY <2>1, <3>1, SendInv
    <2>2. ASSUME NEW me \in Reader, \/ \E id \in 1 .. Now : ThreadByRoot(me, id)
                                    \/ \E peer \in Account, asked \in Page : ReadThread(me, peer, asked)
          PROVE  ThreadsInv'
      BY <2>2, StartInv, ThreadsAssumption
    <2>3. ASSUME NEW a \in Account, Collect(a)
          PROVE  ThreadsInv'
      BY <2>3, CollectInv
    <2>4. CASE UNCHANGED threadsVars
      <3>1. msgs' = msgs /\ read' = read /\ Now' = Now
        BY <2>4 DEF threadsVars, Now
      <3>2. /\ \A a, n : Inbox(a, n)' = Inbox(a, n) /\ Sent(a, n)' = Sent(a, n)
            /\ \A a, n : VisibleTo(a, n)' = VisibleTo(a, n)
            /\ Is' = Is /\ Was' = Was
            /\ \A ids, m : Topic(ids, m)' = Topic(ids, m)
        BY <3>1 DEF Inbox, Sent, VisibleTo, Topic, Is, Was, Between, InWindow, FromPeer, ToPeer, Window
      <3>3. Typed' /\ Collecting'
        BY <3>1, <3>2 DEF ThreadsInv, Typed, Collecting
      <3>4. Reading' /\ Deriving' /\ Paging'
        BY <3>1, <3>2 DEF ThreadsInv, Reading, Deriving, Paging
      <3>5. QED
        BY <3>1, <3>3, <3>4 DEF ThreadsInv
    <2>5. QED
      BY <2>1, <2>2, <2>3, <2>4, DeriveInv, InboxSideInv, SentSideInv, RespondInv DEF ThreadsNext
  <1>2. QED
    BY <1>1, ThreadsInvInit, PTL DEF ThreadsSpec

-----------------------------------------------------------------------------
(* The theorems.                                                           *)

\* Messages and reads keep their types, replies are younger than their parents
\* (Send takes a parent that is stored), and no read, at any of its
\* transactions, has collected what its reader may not see.
THEOREM ThreadsTypeCorrect == ThreadsSpec => []ThreadsTypeOK
  <1>1. ThreadsInv => ThreadsTypeOK
    <2> SUFFICES ASSUME ThreadsInv PROVE ThreadsTypeOK
      OBVIOUS
    <2>1. read # NoRead => read.since <= Now
      BY ReadFields DEF ThreadsInv, Typed
    <2>2. read.step \in {"collect", "topic"} => read.ids \subseteq VisibleTo(read.me, Now)
      BY DEF ThreadsInv, Collecting, Deriving
    <2>3. QED
      BY <2>1, <2>2 DEF ThreadsInv, Typed, ThreadsTypeOK
  <1>2. QED
    BY <1>1, ThreadsInvariant, PTL

\* A topic that is shown lies between the one there was when the read began
\* and the one there is when it ends, and it is one tree (ThreadByRoot).
THEOREM TopicsLieBetween == ThreadsSpec => []TopicBetween
  <1>1. ThreadsInv => TopicBetween
    <2> SUFFICES ASSUME ThreadsInv, read.step = "topic"
                 PROVE  /\ read.of \in VisibleTo(read.me, read.since)
                              => Topic(VisibleTo(read.me, read.since), read.of) \subseteq read.out
                        /\ read.out # {} => read.out \subseteq Topic(VisibleTo(read.me, Now), read.of)
                        /\ \A i \in read.out :
                              msgs[i].inReplyTo \notin read.out <=> \A j \in read.out : i <= j
      BY DEF TopicBetween
    <2>1. /\ VisibleTo(read.me, read.since) \subseteq read.ids
          /\ read.ids \subseteq VisibleTo(read.me, Now)
          /\ read.out = IF read.of \in read.ids THEN Topic(read.ids, read.of) ELSE {}
      BY DEF ThreadsInv, Deriving
    <2>2. read.ids \in SUBSET (1 .. Now) /\ Typed
      BY <2>1, VisibleToIs DEF ThreadsInv
    <2>3. CASE read.of \in read.ids
      <3>1. read.out = Topic(read.ids, read.of)
        BY <2>1, <2>3
      <3>2. read.of \in VisibleTo(read.me, read.since)
               => Topic(VisibleTo(read.me, read.since), read.of) \subseteq read.out
        BY <2>1, <3>1, TopicGrows
      <3>3. read.out \subseteq Topic(VisibleTo(read.me, Now), read.of)
        BY <2>1, <2>3, <3>1, TopicGrows
      <3>4. \A i \in read.out : msgs[i].inReplyTo \notin read.out <=> \A j \in read.out : i <= j
        BY <2>2, <2>3, <3>1, TopicRoot
      <3>5. QED
        BY <3>2, <3>3, <3>4
    <2>4. CASE read.of \notin read.ids
      BY <2>1, <2>4
    <2>5. QED
      BY <2>3, <2>4
  <1>2. QED
    BY <1>1, ThreadsInvariant, PTL

\* Whatever limit, offset and margin, and whatever mail arrives between the
\* reads of the two boxes, a page of a correspondence (ReadThread) lies between
\* its page at the beginning and its page at the end: nothing that was there is
\* missing but for the window of its box, an earlier page or a later one.
THEOREM PagesLieBetween == ThreadsSpec => []PageBetween
  <1>1. ThreadsInv => PageBetween
    BY DEF ThreadsInv, Paging, PageBetween, Is, Was, Rank
  <1>2. QED
    BY <1>1, ThreadsInvariant, PTL

=============================================================================
