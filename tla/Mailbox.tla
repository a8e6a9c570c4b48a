------------------------------ MODULE Mailbox ------------------------------
(***************************************************************************)
(* What the store promises of mail, without indexes, transactions or       *)
(* clients: a message is posted once and never changes; it reaches at one  *)
(* instant the mailboxes it reaches, unread; and each copy is read at most *)
(* once.                                                                   *)
(***************************************************************************)
CONSTANTS
    Owner,      \* mailbox owners
    Id,         \* message ids
    Content,    \* message contents
    Nothing,    \* the content of an id not posted
    Addressees(_)   \* the owners a content is addressed to

VARIABLES
    post,       \* id -> content
    box         \* owner -> id -> state of the owner's copy

Copy == {"absent", "unread", "read"}

TypeOK ==
    /\ post \in [Id -> Content \cup {Nothing}]
    /\ box \in [Owner -> [Id -> Copy]]

Init ==
    /\ post = [m \in Id |-> Nothing]
    /\ box = [o \in Owner |-> [m \in Id |-> "absent"]]

\* The content is posted for good, and only addressees get a copy; an
\* addressee without a mailbox gets none.
Post(m) ==
    /\ post[m] = Nothing
    /\ post'[m] \in Content
    /\ \A n \in Id \ {m} : post'[n] = post[n]
    /\ \A o \in Owner :
          /\ \A n \in Id \ {m} : box'[o][n] = box[o][n]
          /\ box'[o][m] = box[o][m] \/ (box'[o][m] = "unread" /\ o \in Addressees(post'[m]))

\* An owner reads some of the unread copies.
Read(o) ==
    /\ box'[o] # box[o]
    /\ \A m \in Id : box'[o][m] = box[o][m] \/ (box[o][m] = "unread" /\ box'[o][m] = "read")
    /\ \A p \in Owner \ {o} : box'[p] = box[p]
    /\ UNCHANGED post

Next ==
    /\ (\E m \in Id : Post(m)) \/ (\E o \in Owner : Read(o))
    /\ TypeOK'

Spec == Init /\ [][Next]_<<post, box>>
=============================================================================
