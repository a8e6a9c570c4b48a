------------------------------ MODULE Gateway ------------------------------
(***************************************************************************)
(* internal/gateway: the MCP subprocess of one agent session.  It keeps    *)
(* access codes in memory, handles one tool call at a time and forwards it *)
(* to the server, whose side is reduced to the inbox of one account.       *)
(*                                                                         *)
(* The agent watches its inbox with the loop of duty_watch_guide: it calls *)
(* wait_for_new_mail with the last_seen_id of the answer before.           *)
(*                                                                         *)
(* Time is counted down: ttl of a code and left of a wait are what remains *)
(* until ExpiresAt and the deadline, and below zero they have passed.      *)
(***************************************************************************)
EXTENDS Integers, FiniteSets

CONSTANTS
    MsgId,          \* ids of the account's mail; 0 is the empty since_id
    Code,           \* access codes the gateway may draw; none is drawn twice
    CodeTTL,
    CodeMaxCalls,
    PollLimit,      \* the inbox page a poll reads (50 in the code)
    Timeout,        \* timeout of a wait
    FirstCursor,    \* since_ids an agent may begin its watch with
    InOrder,        \* whether ids are committed in their order
    NoCode

ASSUME GatewayAssumption ==
    /\ MsgId \subseteq Nat \ {0} /\ IsFiniteSet(MsgId)
    /\ FirstCursor \subseteq Nat
    /\ {CodeTTL, CodeMaxCalls, PollLimit, Timeout} \subseteq Nat
    /\ InOrder \in BOOLEAN
    /\ NoCode \notin [ttl : Int, used : 0 .. CodeMaxCalls]

VARIABLES
    inbox,      \* the account's inbox on the server
    codes,      \* access code -> its entry, NoCode where there is none
    issued,     \* codes drawn so far
    call,       \* the tool call that is being handled
    last,       \* the agent's since_id
    begun,      \* the agent's watch has begun
    \* History:
    refused,    \* codes that some call was refused for
    posts,      \* access code -> writes that reached the server
    before,     \* mail that the watch found when it began
    returned,   \* mail that the watch gave to the agent
    warned,     \* mail that an answer with possibly_more stands for
    late,       \* mail committed below an id that could be seen already
    passedOver  \* mail that a second baseline moved past

watch == <<last, begun, before, returned, warned, passedOver>>
vars == <<inbox, codes, issued, call, watch, refused, posts, late>>

NoCall == [step |-> "idle"]

Newest(S) == CHOOSE m \in S \cup {0} : \A n \in S : m >= n

-----------------------------------------------------------------------------
(* Access codes.                                                           *)

\* issueCode: the server verified the password.
Authenticate(c) ==
    /\ call = NoCall /\ c \notin issued
    /\ codes' = [codes EXCEPT ![c] = [ttl |-> CodeTTL, used |-> 0]]
    /\ issued' = issued \cup {c}
    /\ UNCHANGED <<inbox, call, watch, refused, posts, late>>

Alive(c) == codes[c] # NoCode /\ codes[c].ttl >= 0

\* ErrInvalidCode: the entry, if there is one, goes.
Refuse(c) ==
    /\ call = NoCall
    /\ codes' = [codes EXCEPT ![c] = NoCode]
    /\ refused' = refused \cup {c}
    /\ UNCHANGED <<inbox, issued, call, watch, posts, late>>

Spend(c) ==
    /\ codes' = [codes EXCEPT ![c].used = @ + 1]
    /\ call' = [step |-> "write", code |-> c]
    /\ UNCHANGED <<inbox, issued, watch, refused, posts, late>>

\* Mutant of ConsumeCode: an exhausted code is refused but stays.
ConsumeKeeping(c) ==
    /\ call = NoCall
    /\ \/ Alive(c) /\ codes[c].used < CodeMaxCalls /\ Spend(c)
       \/ ~Alive(c) /\ Refuse(c)
       \/ /\ Alive(c) /\ codes[c].used >= CodeMaxCalls
          /\ refused' = refused \cup {c}
          /\ UNCHANGED <<inbox, codes, issued, call, watch, posts, late>>

\* send_email, update_profile and subs spend a call before anything else.
ConsumeCode(c) ==
    /\ call = NoCall
    /\ \/ Alive(c) /\ codes[c].used < CodeMaxCalls /\ Spend(c)
       \/ ~(Alive(c) /\ codes[c].used < CodeMaxCalls) /\ Refuse(c)

\* The tools that only read; an exhausted code still serves them.
Read(c) ==
    \/ /\ call = NoCall /\ Alive(c)
       /\ call' = [step |-> "read", code |-> c]
       /\ UNCHANGED <<inbox, codes, issued, watch, refused, posts, late>>
    \/ ~Alive(c) /\ Refuse(c)

\* update_profile or subs: the arguments were good, the server did it.
Written ==
    /\ call.step = "write"
    /\ posts' = [posts EXCEPT ![call.code] = @ + 1]
    /\ call' = NoCall
    /\ UNCHANGED <<inbox, codes, issued, watch, refused, late>>

\* A read is answered; or bad arguments or an error of the HTTP call end any
\* tool call, and the agent's since_id stays as it is.
EndCall ==
    /\ call.step \in {"read", "write", "baseline", "poll"}
    /\ call' = NoCall
    /\ UNCHANGED <<inbox, codes, issued, watch, refused, posts, late>>

-----------------------------------------------------------------------------
(* wait_for_new_mail.                                                      *)

\* The code is checked once, however long the wait is.
StartWait(c) ==
    /\ call = NoCall /\ Alive(c)
    /\ call' = [step |-> IF last = 0 THEN "baseline" ELSE "poll",
                code |-> c, since |-> last, left |-> Timeout]
    /\ begun' = (begun \/ last # 0)
    /\ before' = IF begun \/ last = 0 THEN before ELSE {m \in inbox : m <= last}
    /\ UNCHANGED <<inbox, codes, issued, last, returned, warned, passedOver,
                   refused, posts, late>>

\* Without a since_id, the newest mail there is.
Baseline ==
    /\ call.step = "baseline"
    /\ call' = [call EXCEPT !.step = "poll", !.since = Newest(inbox)]
    /\ begun' = TRUE
    /\ IF begun
       THEN /\ passedOver' = passedOver \cup (inbox \ (before \cup returned))
            /\ UNCHANGED before
       ELSE before' = inbox /\ UNCHANGED passedOver
    /\ UNCHANGED <<inbox, codes, issued, last, returned, warned, refused, posts, late>>

Page == {m \in inbox : Cardinality({n \in inbox : n > m}) < PollLimit}

Fresh == {m \in Page : m > call.since}

Answer(fresh, newLast, more) ==
    /\ call' = [step |-> "answer", code |-> call.code, since |-> call.since,
                fresh |-> fresh, last |-> newLast, more |-> more]
    /\ UNCHANGED <<inbox, codes, issued, watch, refused, posts, late>>

\* Mutant of PollFinds: nothing is said of mail below the page.
PollFindsUnwarned ==
    /\ call.step = "poll" /\ Fresh # {}
    /\ Answer(Fresh, Newest(Page), FALSE)

\* A full page: there may be more.
PollFinds ==
    /\ call.step = "poll" /\ Fresh # {}
    /\ Answer(Fresh, Newest(Page), Cardinality(Page) = PollLimit)

\* The caller's own since_id goes back.
TimeOut ==
    /\ call.step = "poll" /\ Fresh = {} /\ call.left < 0
    /\ Answer({}, call.since, FALSE)

\* The agent: last = resp.last_seen_id, always.
Receive ==
    /\ call.step = "answer"
    /\ last' = call.last
    /\ returned' = returned \cup call.fresh
    /\ warned' = IF call.more THEN warned \cup {m \in MsgId : call.since < m /\ m < call.last}
                              ELSE warned
    /\ call' = NoCall
    /\ UNCHANGED <<inbox, codes, issued, begun, before, passedOver, refused, posts, late>>

-----------------------------------------------------------------------------
\* Send takes an id before it commits the mail, so ids come in any order
\* unless InOrder.  Ids are unique: the one the agent knows does not come again.
Arrive(m) ==
    /\ m \notin inbox \cup {last}
    /\ InOrder => \A n \in inbox \cup {last} : m > n
    /\ inbox' = inbox \cup {m}
    /\ late' = IF \E n \in inbox \cup {last} : n > m THEN late \cup {m} ELSE late
    /\ UNCHANGED <<codes, issued, call, watch, refused, posts>>

Less(n) == IF n < 0 THEN n ELSE n - 1

Tick ==
    /\ (\E c \in Code : Alive(c)) \/ (call.step = "poll" /\ call.left >= 0)
    /\ codes' = [c \in Code |-> IF codes[c] = NoCode THEN NoCode
                                ELSE [codes[c] EXCEPT !.ttl = Less(@)]]
    /\ call' = IF call.step = "poll" THEN [call EXCEPT !.left = Less(@)] ELSE call
    /\ UNCHANGED <<inbox, issued, watch, refused, posts, late>>

\* The process dies with its codes; the agent goes on with another and knows
\* its since_id.
Exit ==
    /\ call # NoCall \/ \E c \in Code : codes[c] # NoCode
    /\ codes' = [c \in Code |-> NoCode]
    /\ call' = NoCall
    /\ UNCHANGED <<inbox, issued, watch, refused, posts, late>>

Init ==
    /\ inbox \in SUBSET MsgId
    /\ codes = [c \in Code |-> NoCode] /\ issued = {}
    /\ call = NoCall
    /\ last \in FirstCursor /\ begun = FALSE
    /\ refused = {} /\ posts = [c \in Code |-> 0]
    /\ before = {} /\ returned = {} /\ warned = {} /\ late = {} /\ passedOver = {}

Next ==
    \/ \E c \in Code : Authenticate(c)
    \/ \E c \in issued : ConsumeCode(c) \/ Read(c) \/ StartWait(c)
    \/ Written \/ EndCall
    \/ Baseline \/ PollFinds \/ TimeOut \/ Receive
    \/ \E m \in MsgId : Arrive(m)
    \/ Tick
    \/ Exit

Spec == Init /\ [][Next]_vars

-----------------------------------------------------------------------------
(* Properties.                                                             *)

\* Every variable stays within its type.
TypeOK ==
    /\ {inbox, before, returned, warned, late, passedOver} \subseteq SUBSET MsgId
    /\ codes \in [Code -> [ttl : Int, used : 0 .. CodeMaxCalls] \cup {NoCode}]
    /\ refused \subseteq issued /\ issued \subseteq Code
    /\ posts \in [Code -> Nat]
    /\ last \in Nat /\ begun \in BOOLEAN
    /\ call.step \in {"idle", "read", "write", "baseline", "poll", "answer"}

\* wait_for_new_mail never gives the agent a mail twice, nor one that was
\* there when the watch began; and it moves past a mail without giving it only
\* if an answer said possibly_more, if the mail was committed below an id that
\* could be seen already, or if the watch took a second baseline.
WatchFaithful ==
    /\ call.step = "answer" => call.fresh \cap (before \cup returned) = {}
    /\ \A m \in inbox \ (before \cup returned \cup warned) :
          begun /\ m <= last => m \in late \cup passedOver

\* No access code serves more writes than its budget, and after a call was
\* refused for its code, the code serves no call any more, not even a read.
RefusalsFinal ==
    /\ \A c \in Code : posts[c] <= CodeMaxCalls
    /\ call # NoCall => call.code \notin refused

\* The description of wait_for_new_mail: passing on last_seen_id is enough "to
\* maintain a continuous watch without missing in-between mail".
NothingMissed ==
    \A m \in inbox \ (before \cup returned \cup warned) : begun => m > last

=============================================================================
