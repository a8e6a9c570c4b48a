---------------------------- MODULE GatewayProofs ----------------------------
(***************************************************************************)
(* TLAPS proofs about the gateway of an agent, modules Gateway and         *)
(* SendEmail together.                                                     *)
(***************************************************************************)
EXTENDS SendEmail, NumberSets

-----------------------------------------------------------------------------
(* The invariant.                                                          *)

FileName == Nat \X Nat

\* The tool call in progress.
CallType ==
    [step : {"read", "write"}, code : Code]
    \cup [step : {"baseline", "poll"}, code : Code, since : Nat, left : Int]
    \cup [step : {"answer"}, code : Code, since : Nat, fresh : SUBSET MsgId, last : Nat,
          more : BOOLEAN]
    \cup [step : {"inline", "upload", "await"}, code : Code, n : Nat, want : Nat,
          ids : SUBSET FileName]
    \cup {NoCall}

RequestType == [n : Nat, code : Code, file : SUBSET FileName, mail : SUBSET SUBSET FileName]

Typed ==
    /\ inbox \in SUBSET MsgId /\ before \in SUBSET MsgId /\ returned \in SUBSET MsgId
    /\ warned \in SUBSET MsgId /\ late \in SUBSET MsgId /\ passedOver \in SUBSET MsgId
    /\ codes \in [Code -> [ttl : Int, used : 0 .. CodeMaxCalls] \cup {NoCode}]
    /\ issued \in SUBSET Code /\ refused \in SUBSET issued
    /\ posts \in [Code -> Nat]
    /\ last \in Nat /\ begun \in BOOLEAN
    /\ call \in CallType
    /\ requests \in SUBSET RequestType /\ IsFiniteSet(requests)
    /\ files \in SUBSET FileName
    /\ sends \in Seq(Nat)

\* A code is entered once it is issued and never again once it is refused; a
\* call runs on a code that is neither unknown nor refused.
CodesKnown ==
    /\ \A c \in Code : codes[c] # NoCode => c \in issued \ refused
    /\ call # NoCall => call.code \in issued \ refused
    /\ \A r \in requests : r.code \in issued
    /\ \A c \in Code \ issued : posts[c] = 0

\* Writes still to come on a code: mails on their way to the server, and the
\* write of the call in progress until its request has left.
MailRequests(c) == {r \in requests : r.code = c /\ r.mail # {}}

Writing ==
    \/ call.step \in {"write", "inline", "upload"}
    \/ call.step = "await" /\ NextRequest.mail = {}

Pending(c) == IF Writing /\ call.code = c THEN 1 ELSE 0

\* What the code has been charged, or may have been if it is gone.
Charged(c) == IF codes[c] = NoCode THEN CodeMaxCalls ELSE codes[c].used

Budget ==
    \A c \in issued : posts[c] + Cardinality(MailRequests(c)) + Pending(c) <= Charged(c)

\* Mail up to x is accounted for.
Covered(x) ==
    \A m \in inbox \ (before \cup returned \cup warned) :
        begun /\ m <= x => m \in late \cup passedOver

\* The watch: nothing it has, and nothing it found, lies above its cursor, and
\* all below the cursor is accounted for.
Watching ==
    /\ before \subseteq inbox /\ returned \subseteq inbox
    /\ ~begun => before = {} /\ returned = {}
    /\ \A m \in returned : m <= last
    /\ last # 0 => \A m \in before : m <= last
    /\ Covered(last)
    /\ call.step = "baseline" => last = 0
    /\ call.step = "poll" =>
          /\ begun /\ call.since \in inbox \cup {0, last}
          /\ \A m \in before \cup returned : m <= call.since
          /\ Covered(call.since)
    /\ call.step = "answer" =>
          /\ begun /\ call.last \in inbox \cup {0, last}
          /\ call.fresh \subseteq inbox \ (before \cup returned)
          /\ \A m \in before \cup returned \cup call.fresh : m <= call.last
          /\ \A m \in inbox \ (before \cup returned \cup warned \cup call.fresh) :
                m <= call.last /\ ~(call.more /\ call.since < m /\ m < call.last)
                   => m \in late \cup passedOver

\* No mail of the n-th send exists or is under way.
Unsent(n) ==
    /\ \A m \in mails : m.n # n
    /\ \A r \in requests : r.n = n => r.mail = {}

\* Mails, requests and answers are of sends that were begun, and a mail or the
\* request for one is whole.
Outgoing ==
    /\ \A m \in mails : /\ m.n \in 1 .. Len(sends)
                        /\ m.files = Attachments(m.n, sends[m.n]) /\ m.files \subseteq files
    /\ \A m, o \in mails : m.n = o.n => m = o
    /\ \A r \in requests :
          /\ r.n \in 1 .. Len(sends)
          /\ r.mail # {} => /\ r.mail = {Attachments(r.n, sends[r.n])}
                            /\ Attachments(r.n, sends[r.n]) \subseteq files
                            /\ r.file = {}
                            /\ \A m \in mails : m.n # r.n
    /\ \A r, s \in requests : r.mail # {} /\ s.mail # {} /\ r.n = s.n => r = s
    /\ \A a \in answers :
          /\ a.n \in 1 .. Len(sends)
          /\ a.result = "failed" => Unsent(a.n)
          /\ a.result = "sent" => \E m \in mails : m.n = a.n

\* The send in progress has uploaded the first of its attachments, and has
\* posted no mail before it asks to.
Uploading ==
    call.step \in {"inline", "upload", "await"} =>
        /\ call.n \in 1 .. Len(sends) /\ call.want = sends[call.n]
        /\ \A a \in answers : a.n # call.n
        /\ IsFiniteSet(call.ids) /\ call.ids \subseteq files
        /\ Cardinality(call.ids) <= call.want
        /\ call.ids = Attachments(call.n, Cardinality(call.ids))
        /\ call.step \in {"inline", "upload"} => Unsent(call.n)
        /\ call.step = "await" /\ NextRequest.mail = {} =>
              Unsent(call.n) /\ (Served => NextRequest.file \subseteq files)
        /\ call.step = "await" /\ NextRequest.mail # {} /\ Served => \E m \in mails : m.n = call.n

GatewayInv == Typed /\ CodesKnown /\ Budget /\ Watching /\ Outgoing /\ Uploading

-----------------------------------------------------------------------------
(* The call in progress and the requests.                                  *)

\* A call has the fields of its step.
LEMMA CallFields ==
    ASSUME call \in CallType
    PROVE  /\ call # NoCall <=> call.step # "idle"
           /\ call # NoCall => call.code \in Code
           /\ call.step \in {"read", "write"} => call = [step |-> call.step, code |-> call.code]
           /\ call.step \in {"baseline", "poll"} =>
                 /\ call = [step |-> call.step, code |-> call.code, since |-> call.since,
                            left |-> call.left]
                 /\ call.since \in Nat /\ call.left \in Int
           /\ call.step = "answer" =>
                 /\ call = [step |-> call.step, code |-> call.code, since |-> call.since,
                            fresh |-> call.fresh, last |-> call.last, more |-> call.more]
                 /\ call.since \in Nat /\ call.fresh \in SUBSET MsgId /\ call.last \in Nat
                 /\ call.more \in BOOLEAN
           /\ call.step \in {"inline", "upload", "await"} =>
                 /\ call = [step |-> call.step, code |-> call.code, n |-> call.n,
                            want |-> call.want, ids |-> call.ids]
                 /\ call.n \in Nat /\ call.want \in Nat /\ call.ids \in SUBSET FileName
           /\ call.step \in {"idle", "read", "write", "baseline", "poll", "answer", "inline",
                              "upload", "await"}
  <1>1. CASE call \in [step : {"read", "write"}, code : Code]
    BY <1>1 DEF NoCall
  <1>2. CASE call \in [step : {"baseline", "poll"}, code : Code, since : Nat, left : Int]
    BY <1>2 DEF NoCall
  <1>3. CASE call \in [step : {"answer"}, code : Code, since : Nat, fresh : SUBSET MsgId,
                       last : Nat, more : BOOLEAN]
    BY <1>3 DEF NoCall
  <1>4. CASE call \in [step : {"inline", "upload", "await"}, code : Code, n : Nat, want : Nat,
                       ids : SUBSET FileName]
    BY <1>4 DEF NoCall
  <1>5. CASE call = NoCall
    BY <1>5 DEF NoCall
  <1>6. QED
    BY <1>1, <1>2, <1>3, <1>4, <1>5 DEF CallType

\* The newest of some mail, or 0.
LEMMA NewestIs ==
    ASSUME NEW S \in SUBSET MsgId
    PROVE  /\ Newest(S) \in S \cup {0} /\ Newest(S) \in Nat
           /\ \A n \in S : Newest(S) >= n
  <1>1. S \in SUBSET Nat /\ IsFiniteSet(S)
    BY FS_Subset, GatewayAssumption
  <1>2. \E m \in S \cup {0} : \A n \in S : m >= n
    <2>1. CASE S = {}
      BY <2>1
    <2>2. CASE S # {}
      <3>1. PICK x \in S : \A y \in S : y <= x
        BY <1>1, <2>2, GreatestNumber
      <3>2. QED
        BY <1>1, <3>1
    <2>3. QED
      BY <2>1, <2>2
  <1>3. Newest(S) \in S \cup {0} /\ \A n \in S : Newest(S) >= n
    BY <1>2 DEF Newest
  <1>4. \A x \in S \cup {0} : x \in Nat
    BY <1>1
  <1>5. QED
    BY <1>3, <1>4

\* The page of a poll: what it leaves out is older, and then the page is full.
LEMMA PageIs ==
    ASSUME inbox \in SUBSET MsgId
    PROVE  /\ Page \in SUBSET inbox
           /\ \A m \in inbox \ Page : Cardinality(Page) = PollLimit /\ \A x \in Page : x > m
  <1>1. inbox \in SUBSET Nat /\ IsFiniteSet(inbox) /\ PollLimit \in Nat
    BY FS_Subset, GatewayAssumption
  <1>2. Page = NewestOf(inbox, PollLimit)
    BY DEF Page, NewestOf, Above
  <1>3. QED
    BY <1>1, <1>2, NewestComplete

\* The next request of a send is one for a file or for the mail.
LEMMA NextRequestIs ==
    ASSUME Typed, Uploading, call.step \in {"upload", "await"}
    PROVE  /\ NextRequest \in RequestType
           /\ NextRequest.n = call.n /\ NextRequest.code = call.code
           /\ Cardinality(call.ids) \in Nat
           /\ NextRequest.mail = {} => /\ Cardinality(call.ids) < call.want
                                       /\ NextRequest.file = {<<call.n, Cardinality(call.ids) + 1>>}
           /\ NextRequest.mail # {} => /\ Cardinality(call.ids) = call.want
                                       /\ NextRequest.mail = {call.ids} /\ NextRequest.file = {}
  <1>1. call.code \in Code /\ call.n \in Nat /\ call.want \in Nat /\ call.ids \in SUBSET FileName
    BY CallFields DEF Typed
  <1>2. Cardinality(call.ids) \in Nat /\ Cardinality(call.ids) <= call.want
    BY FS_CardinalityType DEF Uploading
  <1>3. CASE Cardinality(call.ids) < call.want
    <2>1. NextRequest = [n |-> call.n, code |-> call.code,
                         file |-> {<<call.n, Cardinality(call.ids) + 1>>}, mail |-> {}]
      BY <1>3 DEF NextRequest
    <2>2. {<<call.n, Cardinality(call.ids) + 1>>} \in SUBSET FileName
      BY <1>1, <1>2 DEF FileName
    <2>3. QED
      BY <1>1, <1>2, <1>3, <2>1, <2>2 DEF RequestType
  <1>4. CASE ~(Cardinality(call.ids) < call.want)
    <2>1. NextRequest = [n |-> call.n, code |-> call.code, file |-> {}, mail |-> {call.ids}]
      BY <1>4 DEF NextRequest
    <2>2. QED
      BY <1>1, <1>2, <1>4, <2>1 DEF RequestType
  <1>5. QED
    BY <1>3, <1>4

\* A request carries one mail or none.
LEMMA MailCount ==
    ASSUME Outgoing, NEW r \in requests
    PROVE  Cardinality(r.mail) = IF r.mail = {} THEN 0 ELSE 1
  <1>1. CASE r.mail = {}
    BY <1>1, FS_EmptySet
  <1>2. CASE r.mail # {}
    <2>1. PICK ids : r.mail = {ids}
      BY <1>2, Zenon DEF Outgoing
    <2>2. Cardinality({ids}) = 1
      BY FS_Singleton, Zenon
    <2>3. QED
      BY <1>2, <2>1, <2>2
  <1>3. QED
    BY <1>1, <1>2

\* A wait goes on with its code.
LEMMA WaitSteps ==
    ASSUME call \in CallType, Baseline \/ PollFinds \/ TimeOut
    PROVE  /\ call # NoCall /\ call.step \in {"baseline", "poll"}
           /\ call'.code = call.code /\ call'.step \in {"poll", "answer"}
           /\ UNCHANGED <<inbox, codes, issued, last, returned, warned, refused, posts, late>>
  <1>1. CASE Baseline
    <2>1. call # NoCall /\ call = [step |-> call.step, code |-> call.code, since |-> call.since,
                                  left |-> call.left]
      BY <1>1, CallFields DEF Baseline
    <2>2. call' = [step |-> "poll", code |-> call.code, since |-> Newest(inbox), left |-> call.left]
      BY <1>1, <2>1 DEF Baseline
    <2>3. QED
      BY <1>1, <2>1, <2>2 DEF Baseline
  <1>2. ASSUME NEW fresh, NEW newLast, NEW more, call.step = "poll", Answer(fresh, newLast, more)
        PROVE  /\ call # NoCall /\ call.step \in {"baseline", "poll"}
               /\ call'.code = call.code /\ call'.step \in {"poll", "answer"}
               /\ UNCHANGED <<inbox, codes, issued, last, returned, warned, refused, posts, late>>
    BY <1>2, CallFields DEF Answer, watch
  <1>3. CASE PollFinds \/ TimeOut
    <2>1. \E fresh, newLast, more : call.step = "poll" /\ Answer(fresh, newLast, more)
      BY <1>3, Zenon DEF PollFinds, TimeOut
    <2>2. QED
      BY <1>2, <2>1
  <1>4. QED
    BY <1>1, <1>3

-----------------------------------------------------------------------------
(* Types.                                                                  *)

LEMMA TypedInit == SendInit => Typed
  <1> SUFFICES ASSUME SendInit PROVE Typed
    OBVIOUS
  <1>1. call \in CallType
    BY DEF SendInit, Init, CallType
  <1>2. codes \in [Code -> [ttl : Int, used : 0 .. CodeMaxCalls] \cup {NoCode}] /\ posts \in [Code -> Nat]
    BY DEF SendInit, Init
  <1>3. last \in Nat /\ begun \in BOOLEAN
    BY GatewayAssumption DEF SendInit, Init
  <1>4. requests \in SUBSET RequestType /\ IsFiniteSet(requests) /\ files \in SUBSET FileName
        /\ sends \in Seq(Nat)
    BY FS_EmptySet DEF SendInit, Init
  <1>5. QED
    BY <1>1, <1>2, <1>3, <1>4 DEF SendInit, Init, Typed

LEMMA TypedNext ==
    ASSUME Typed, Outgoing, Uploading, [SendNext]_<<vars, outgoing>>
    PROVE  Typed'
  <1> USE DEF Typed, watch
  <1> DEFINE Entry == [ttl : Int, used : 0 .. CodeMaxCalls]
  <1>1. call.step \in {"idle", "read", "write", "baseline", "poll", "answer", "inline", "upload",
                       "await"}
    BY CallFields
  <1>2. ASSUME Next, UNCHANGED outgoing
        PROVE  Typed'
    <2> USE <1>2 DEF outgoing
    <2>1. NoCall \in CallType
      BY DEF CallType
    <2>2. ASSUME NEW c \in Code, Authenticate(c)
          PROVE  Typed'
      BY <2>2, GatewayAssumption DEF Authenticate
    <2>3. ASSUME NEW c \in issued, Refuse(c)
          PROVE  Typed'
      BY <2>3 DEF Refuse
    <2>4. ASSUME NEW c \in issued, Alive(c), codes[c].used < CodeMaxCalls, Spend(c)
          PROVE  Typed'
      <3>1. codes[c] \in Entry /\ CodeMaxCalls \in Nat
        BY <2>4, GatewayAssumption DEF Alive
      <3>2. [codes[c] EXCEPT !.used = @ + 1] \in Entry
        <4>1. codes[c].used + 1 \in 0 .. CodeMaxCalls
          BY <3>1, <2>4
        <4>2. QED
          BY <3>1, <4>1
      <3>3. codes' = [codes EXCEPT ![c] = [codes[c] EXCEPT !.used = @ + 1]]
        BY <2>4 DEF Spend
      <3>4. codes' \in [Code -> Entry \cup {NoCode}]
        BY <3>2, <3>3
      <3>5. call' \in CallType
        BY <2>4 DEF Spend, CallType
      <3>6. QED
        BY <3>4, <3>5, <2>4 DEF Spend
    <2>5. ASSUME NEW c \in issued, Read(c), ~Refuse(c)
          PROVE  Typed'
      BY <2>5 DEF Read, CallType
    <2>6. ASSUME NEW c \in issued, StartWait(c)
          PROVE  Typed'
      <3>1. call' \in CallType
        BY <2>6, GatewayAssumption DEF StartWait, CallType
      <3>2. before' \in SUBSET MsgId
        BY <2>6 DEF StartWait
      <3>3. QED
        BY <2>6, <3>1, <3>2 DEF StartWait
    <2>7. CASE Written
      <3>1. call.code \in Code
        BY <2>7, CallFields DEF Written
      <3>2. QED
        BY <2>1, <2>7, <3>1 DEF Written
    <2>8. CASE EndCall
      BY <2>1, <2>8 DEF EndCall
    <2>9. CASE Baseline
      <3>1. call = [step |-> call.step, code |-> call.code, since |-> call.since, left |-> call.left]
            /\ call.code \in Code /\ call.left \in Int /\ Newest(inbox) \in Nat
        BY <2>9, CallFields, NewestIs DEF Baseline, NoCall
      <3>2. call' = [step |-> "poll", code |-> call.code, since |-> Newest(inbox), left |-> call.left]
        BY <2>9, <3>1 DEF Baseline
      <3>3. call' \in CallType
        BY <3>1, <3>2 DEF CallType
      <3>4. QED
        BY <2>9, <3>3 DEF Baseline
    <2>10. CASE PollFinds \/ TimeOut
      <3>1. call.code \in Code /\ call.since \in Nat /\ Fresh \in SUBSET MsgId /\ {} \in SUBSET MsgId
        BY <2>10, CallFields, PageIs DEF PollFinds, TimeOut, NoCall, Fresh
      <3>2. Newest(Page) \in Nat
        BY NewestIs, PageIs
      <3>3. call' \in CallType
        <4> DEFINE Full == Cardinality(Page) = PollLimit
        <4>1. Full \in BOOLEAN
          OBVIOUS
        <4> HIDE DEF Full
        <4>2. CASE PollFinds
          <5>1. Answer(Fresh, Newest(Page), Full)
            BY <4>2 DEF PollFinds, Full
          <5>2. QED
            BY <5>1, <3>1, <3>2, <4>1 DEF Answer, CallType
        <4>3. CASE TimeOut
          BY <4>3, <3>1 DEF TimeOut, Answer, CallType
        <4>4. QED
          BY <2>10, <4>2, <4>3
      <3>4. QED
        BY <2>10, <3>3 DEF PollFinds, TimeOut, Answer
    <2>11. CASE Receive
      <3>1. call.last \in Nat /\ call.fresh \in SUBSET MsgId
        BY <2>11, CallFields DEF Receive
      <3>2. QED
        BY <2>1, <2>11, <3>1 DEF Receive
    <2>12. ASSUME NEW m \in MsgId, Arrive(m)
           PROVE  Typed'
      BY <2>12 DEF Arrive
    <2>13. CASE Tick
      <3>1. \A n \in Int : Less(n) \in Int
        BY DEF Less
      <3>2. codes' \in [Code -> Entry \cup {NoCode}]
        <4>1. ASSUME NEW c \in Code, codes[c] # NoCode
              PROVE  [codes[c] EXCEPT !.ttl = Less(@)] \in Entry
          BY <4>1, <3>1
        <4>2. QED
          BY <2>13, <4>1 DEF Tick
      <3>3. call' \in CallType
        <4>1. CASE call.step = "poll"
          <5>1. call = [step |-> call.step, code |-> call.code, since |-> call.since, left |-> call.left]
                /\ call.code \in Code /\ call.since \in Nat /\ call.left \in Int
            BY <4>1, CallFields DEF NoCall
          <5>2. call' = [step |-> call.step, code |-> call.code, since |-> call.since,
                         left |-> Less(call.left)]
            BY <2>13, <4>1, <5>1 DEF Tick
          <5>3. QED
            BY <3>1, <4>1, <5>1, <5>2 DEF CallType
        <4>2. CASE call.step # "poll"
          BY <2>13, <4>2 DEF Tick
        <4>3. QED
          BY <4>1, <4>2
      <3>4. QED
        BY <2>13, <3>2, <3>3 DEF Tick
    <2>14. CASE Exit
      BY <2>1, <2>14 DEF Exit
    <2>15. QED
      BY <1>2, <2>2, <2>3, <2>4, <2>5, <2>6, <2>7, <2>8, <2>9, <2>10, <2>11, <2>12, <2>13, <2>14
         DEF Next, ConsumeCode, Read
  <1>3. ASSUME NEW k \in 0 .. MaxAttached + 1, StartSend(k)
        PROVE  Typed'
    <2>1. call.code \in Code /\ k \in Nat
      BY <1>3, CallFields, SendEmailAssumption DEF StartSend, InSend, NoCall
    <2>2. sends' \in Seq(Nat) /\ Len(sends') \in Nat
      BY <1>3, <2>1 DEF StartSend
    <2>3. call' \in CallType
      BY <1>3, <2>1, <2>2 DEF StartSend, CallType
    <2>4. QED
      BY <1>3, <2>2, <2>3 DEF StartSend
  <1>4. ASSUME Inline \/ Request \/ Response \/ GiveUp
        PROVE  call' \in CallType
    <2>1. call = [step |-> call.step, code |-> call.code, n |-> call.n, want |-> call.want,
                  ids |-> call.ids]
          /\ call.code \in Code /\ call.n \in Nat /\ call.want \in Nat /\ call.ids \in SUBSET FileName
      BY <1>4, CallFields DEF Inline, Request, Response, GiveUp, InSend, NoCall
    <2>2. CASE call' = NoCall
      BY <2>2 DEF CallType
    <2>3. ASSUME NEW step \in {"upload", "await"}, call' = [call EXCEPT !.step = step]
          PROVE  call' \in CallType
      <3>1. call' = [step |-> step, code |-> call.code, n |-> call.n, want |-> call.want,
                     ids |-> call.ids]
        BY <2>1, <2>3
      <3>2. QED
        BY <2>1, <3>1 DEF CallType
    <2>4. ASSUME InSend("await"),
                 call' = [call EXCEPT !.step = "upload", !.ids = @ \cup NextRequest.file]
          PROVE  call' \in CallType
      <3>1. NextRequest.file \in SUBSET FileName
        BY <2>4, NextRequestIs DEF InSend, RequestType
      <3>2. call' = [step |-> "upload", code |-> call.code, n |-> call.n, want |-> call.want,
                     ids |-> call.ids \cup NextRequest.file]
        BY <2>1, <2>4
      <3>3. QED
        BY <2>1, <3>1, <3>2 DEF CallType
    <2>5. QED
      BY <1>4, <2>2, <2>3, <2>4 DEF Inline, Request, Response, GiveUp, Tell
  <1>5. CASE Inline \/ Response \/ GiveUp
    BY <1>4, <1>5 DEF Inline, Response, GiveUp
  <1>6. CASE Request
    <2>1. NextRequest \in RequestType
      BY <1>6, NextRequestIs DEF Request, InSend
    <2>2. requests' \in SUBSET RequestType /\ IsFiniteSet(requests')
      BY <1>6, <2>1, FS_AddElement DEF Request
    <2>3. QED
      BY <1>4, <1>6, <2>2 DEF Request
  <1>7. ASSUME NEW r \in requests, Serve(r)
        PROVE  Typed'
    <2>1. r.code \in Code /\ r.file \in SUBSET FileName
      BY DEF RequestType
    <2>2. requests' \in SUBSET RequestType /\ IsFiniteSet(requests')
      BY <1>7, FS_RemoveElement DEF Serve
    <2>3. files' \in SUBSET FileName
      BY <1>7, <2>1 DEF Serve
    <2>4. posts' \in [Code -> Nat]
      <3>1. Cardinality(r.mail) \in Nat
        BY MailCount
      <3>2. QED
        BY <1>7, <2>1, <3>1 DEF Serve
    <2>5. QED
      BY <1>7, <2>2, <2>3, <2>4 DEF Serve
  <1>8. CASE UNCHANGED <<vars, outgoing>>
    BY <1>8 DEF vars, outgoing
  <1>9. QED
    BY <1>2, <1>3, <1>5, <1>6, <1>7, <1>8 DEF SendNext

-----------------------------------------------------------------------------
(* Access codes.                                                           *)

LEMMA CodesKnownInit == SendInit => CodesKnown
  BY DEF SendInit, Init, CodesKnown

LEMMA CodesKnownNext ==
    ASSUME Typed, CodesKnown, Uploading, [SendNext]_<<vars, outgoing>>
    PROVE  CodesKnown'
  <1> USE DEF watch
  <1>1. ASSUME Next, UNCHANGED outgoing
        PROVE  CodesKnown'
    <2> USE <1>1 DEF outgoing
    <2>1. ASSUME NEW c \in Code, Authenticate(c)
          PROVE  CodesKnown'
      BY <2>1 DEF Authenticate, CodesKnown, Typed
    <2>2. ASSUME NEW c \in issued, Refuse(c)
          PROVE  CodesKnown'
      BY <2>2 DEF Refuse, CodesKnown, Typed
    <2>3. ASSUME NEW c \in issued, Alive(c), Spend(c)
          PROVE  CodesKnown'
      <3>1. c \in issued \ refused
        BY <2>3 DEF Alive, CodesKnown, Typed
      <3>2. \A d \in Code : codes'[d] # NoCode => codes[d] # NoCode
        BY <2>3 DEF Spend, Alive, Typed
      <3>3. call'.code = c
        BY <2>3 DEF Spend
      <3>4. QED
        BY <2>3, <3>1, <3>2, <3>3 DEF Spend, CodesKnown, Typed
    <2>4. ASSUME NEW c \in issued, Alive(c), Read(c), ~Refuse(c)
          PROVE  CodesKnown'
      BY <2>4 DEF Read, Alive, CodesKnown, Typed
    <2>5. ASSUME NEW c \in issued, StartWait(c)
          PROVE  CodesKnown'
      BY <2>5 DEF StartWait, Alive, CodesKnown, Typed
    <2>6. CASE Written
      <3>1. call # NoCall /\ call.code \in issued /\ call.code \in Code
        BY <2>6, CallFields DEF Written, CodesKnown, Typed
      <3>2. \A c \in Code \ issued : posts'[c] = 0
        BY <2>6, <3>1 DEF Written, CodesKnown, Typed
      <3>3. QED
        BY <2>6, <3>2 DEF Written, CodesKnown
    <2>7. CASE EndCall \/ Receive
      BY <2>7 DEF EndCall, Receive, CodesKnown
    <2>8. CASE Baseline \/ PollFinds \/ TimeOut
      BY <2>8, WaitSteps DEF CodesKnown, Typed
    <2>9. ASSUME NEW m \in MsgId, Arrive(m)
          PROVE  CodesKnown'
      BY <2>9 DEF Arrive, CodesKnown
    <2>10. CASE Tick
      <3>1. call' = call \/ (call # NoCall /\ call'.code = call.code)
        BY <2>10, CallFields DEF Tick, NoCall, Typed
      <3>2. \A c \in Code : codes'[c] # NoCode => codes[c] # NoCode
        BY <2>10 DEF Tick
      <3>3. QED
        BY <2>10, <3>1, <3>2 DEF Tick, CodesKnown
    <2>11. CASE Exit
      BY <2>11 DEF Exit, CodesKnown
    <2>12. QED
      BY <1>1, <2>1, <2>2, <2>3, <2>4, <2>5, <2>6, <2>7, <2>8, <2>9, <2>10, <2>11
         DEF Next, ConsumeCode, Read
  <1>2. ASSUME NEW k \in 0 .. MaxAttached + 1, StartSend(k)
        PROVE  CodesKnown'
    BY <1>2 DEF StartSend, InSend, CodesKnown, NoCall
  <1>3. CASE Inline \/ Request \/ Response \/ GiveUp
    <2>1. call # NoCall /\ call.step \in {"inline", "upload", "await"}
      BY <1>3 DEF Inline, Request, Response, GiveUp, InSend, NoCall
    <2>2. call' = NoCall \/ call'.code = call.code
      <3>1. call = [step |-> call.step, code |-> call.code, n |-> call.n, want |-> call.want,
                    ids |-> call.ids]
        BY <2>1, CallFields DEF Typed
      <3>2. QED
        BY <1>3, <3>1 DEF Inline, Request, Response, GiveUp, Tell
    <2>3. \A r \in requests' : r.code \in issued
      <3>1. CASE Request
        BY <3>1, <2>1, NextRequestIs DEF Request, InSend, CodesKnown
      <3>2. CASE ~Request
        BY <1>3, <3>2 DEF Inline, Response, GiveUp, CodesKnown
      <3>3. QED
        BY <3>1, <3>2
    <2>4. UNCHANGED <<codes, issued, refused, posts>>
      BY <1>3 DEF Inline, Request, Response, GiveUp
    <2>5. QED
      BY <2>1, <2>2, <2>3, <2>4 DEF CodesKnown
  <1>4. ASSUME NEW r \in requests, Serve(r)
        PROVE  CodesKnown'
    <2>1. r.code \in issued
      BY DEF CodesKnown
    <2>2. \A c \in Code \ issued : posts'[c] = 0
      BY <1>4, <2>1 DEF Serve, CodesKnown, Typed
    <2>3. QED
      BY <1>4, <2>2 DEF Serve, CodesKnown
  <1>5. CASE UNCHANGED <<vars, outgoing>>
    BY <1>5 DEF vars, outgoing, CodesKnown
  <1>6. QED
    BY <1>1, <1>2, <1>3, <1>4, <1>5 DEF SendNext

-----------------------------------------------------------------------------
(* The budget of a code.                                                   *)

LEMMA BudgetTypes ==
    ASSUME Typed, NEW c \in Code
    PROVE  /\ posts[c] \in Nat /\ Pending(c) \in {0, 1} /\ Charged(c) \in 0 .. CodeMaxCalls
           /\ MailRequests(c) \in SUBSET requests /\ IsFiniteSet(MailRequests(c))
           /\ Cardinality(MailRequests(c)) \in Nat
  <1>1. MailRequests(c) \in SUBSET requests
    BY DEF MailRequests
  <1>2. IsFiniteSet(MailRequests(c)) /\ Cardinality(MailRequests(c)) \in Nat
    BY <1>1, FS_Subset, FS_CardinalityType DEF Typed
  <1>3. Charged(c) \in 0 .. CodeMaxCalls
    BY GatewayAssumption DEF Typed, Charged
  <1>4. QED
    BY <1>1, <1>2, <1>3 DEF Typed, Pending

LEMMA BudgetInit == SendInit => Budget
  BY DEF SendInit, Init, Budget

\* A step that charges no less and opens no write.
LEMMA BudgetKept ==
    ASSUME Typed, Typed', Budget, UNCHANGED <<issued, posts, requests>>,
           \A c \in issued : Pending(c)' <= Pending(c) /\ Charged(c) <= Charged(c)'
    PROVE  Budget'
  <1> SUFFICES ASSUME NEW c \in issued
               PROVE  posts[c] + Cardinality(MailRequests(c)) + Pending(c)' <= Charged(c)'
    BY DEF Budget, MailRequests
  <1>1. c \in Code
    BY DEF Typed
  <1>2. Pending(c)' \in {0, 1} /\ Charged(c)' \in 0 .. CodeMaxCalls
    BY <1>1, GatewayAssumption DEF Pending, Charged, Typed
  <1>3. QED
    BY <1>1, <1>2, BudgetTypes, GatewayAssumption DEF Budget

LEMMA BudgetNext ==
    ASSUME Typed, Typed', CodesKnown, Budget, Outgoing, Uploading, [SendNext]_<<vars, outgoing>>
    PROVE  Budget'
  <1> USE DEF watch
  <1> DEFINE Same == UNCHANGED <<issued, posts, requests>>
             Idle == call'.step \in {"idle", "read", "baseline", "poll", "answer"}
  <1>1. \A c \in issued : /\ c \in Code /\ posts[c] \in Nat /\ Pending(c) \in {0, 1}
                          /\ Charged(c) \in 0 .. CodeMaxCalls /\ Charged(c) \in Nat
                          /\ IsFiniteSet(MailRequests(c)) /\ Cardinality(MailRequests(c)) \in Nat
    <2>1. \A c \in issued : c \in Code
      BY DEF Typed
    <2>2. QED
      BY <2>1, BudgetTypes, GatewayAssumption
  <1>2. ASSUME Same, Idle, \A c \in issued : Charged(c) <= Charged(c)'
        PROVE  Budget'
    <2>1. \A c \in issued : Pending(c)' = 0
      BY <1>2 DEF Pending, Writing
    <2>2. \A c \in issued : Pending(c)' <= Pending(c)
      BY <2>1, <1>1
    <2>3. QED
      BY <1>2, <2>2, BudgetKept
  <1>3. ASSUME UNCHANGED codes
        PROVE  \A c \in issued : Charged(c) <= Charged(c)'
    BY <1>3, <1>1 DEF Charged
  <1>4. ASSUME NEW c \in issued, NEW d \in Code, codes' = [codes EXCEPT ![d] = NoCode]
        PROVE  Charged(c) <= Charged(c)'
    <2>1. Charged(c) \in 0 .. CodeMaxCalls /\ c \in Code
      BY <1>1
    <2>2. Charged(c)' = CodeMaxCalls \/ Charged(c)' = Charged(c)
      BY <1>4, <2>1 DEF Charged, Typed
    <2>3. QED
      BY <2>1, <2>2, GatewayAssumption
  <1>5. ASSUME Next, UNCHANGED outgoing
        PROVE  Budget'
    <2> USE <1>5 DEF outgoing
    <2>1. ASSUME NEW c \in Code, Authenticate(c)
          PROVE  Budget'
      <3> SUFFICES ASSUME NEW d \in issued'
                   PROVE  (posts[d] + Cardinality(MailRequests(d)) + Pending(d) <= Charged(d))'
        BY DEF Budget
      <3>1. Pending(d)' = 0 /\ MailRequests(d)' = MailRequests(d) /\ posts' = posts
        BY <2>1 DEF Authenticate, Pending, Writing, MailRequests, NoCall
      <3>2. CASE d = c
        <4>1. MailRequests(c) = {} /\ posts[c] = 0
          BY <2>1 DEF Authenticate, MailRequests, CodesKnown
        <4>2. Charged(c)' \in 0 .. CodeMaxCalls
          BY GatewayAssumption DEF Charged, Typed
        <4>3. QED
          BY <3>1, <3>2, <4>1, <4>2, FS_EmptySet
      <3>3. CASE d # c
        <4>1. d \in issued /\ d \in Code /\ Charged(d)' = Charged(d)
          BY <2>1, <3>3 DEF Authenticate, Charged, Typed
        <4>2. QED
          BY <3>1, <4>1, BudgetTypes, GatewayAssumption DEF Budget
      <3>4. QED
        BY <3>2, <3>3
    <2>2. ASSUME NEW c \in issued, Refuse(c)
          PROVE  Budget'
      BY <1>2, <1>4, <2>2 DEF Refuse, Typed, NoCall
    <2>3. ASSUME NEW c \in issued, call = NoCall, Alive(c), codes[c].used < CodeMaxCalls, Spend(c)
          PROVE  Budget'
      <3> SUFFICES ASSUME NEW d \in issued
                   PROVE  (posts[d] + Cardinality(MailRequests(d)) + Pending(d) <= Charged(d))'
        BY <2>3 DEF Budget, Spend
      <3>1. Pending(d) = 0 /\ MailRequests(d)' = MailRequests(d) /\ posts' = posts
        BY <2>3 DEF Spend, Pending, Writing, MailRequests, NoCall
      <3>2. c \in Code /\ d \in Code
        BY DEF Typed
      <3>3. CASE d = c
        <4>1. Pending(c)' \in {0, 1}
          BY DEF Pending
        <4>2. codes[c].used \in 0 .. CodeMaxCalls /\ codes[c] # NoCode
          BY <2>3, <3>2 DEF Alive, Typed
        <4>3. codes'[c].used = codes[c].used + 1
          BY <2>3, <3>2, <4>2 DEF Spend, Typed
        <4>4. Charged(c) = codes[c].used
          BY <4>2 DEF Charged
        <4>5. codes'[c] # NoCode
          <5>1. codes[c] \in [ttl : Int, used : 0 .. CodeMaxCalls] /\ CodeMaxCalls \in Nat
            BY <3>2, <4>2, GatewayAssumption DEF Typed
          <5>2. codes[c].used + 1 \in 0 .. CodeMaxCalls
            BY <2>3, <5>1
          <5>3. [codes[c] EXCEPT !.used = @ + 1] \in [ttl : Int, used : 0 .. CodeMaxCalls]
            BY <5>1, <5>2
          <5>4. codes'[c] = [codes[c] EXCEPT !.used = @ + 1]
            BY <2>3, <3>2 DEF Spend, Typed
          <5>5. QED
            BY <5>3, <5>4, GatewayAssumption
        <4>6. Charged(c)' = codes[c].used + 1
          BY <4>3, <4>5 DEF Charged
        <4>7. QED
          BY <3>1, <3>2, <3>3, <4>1, <4>2, <4>4, <4>6, BudgetTypes DEF Budget
      <3>4. CASE d # c
        <4>1. Pending(d)' = 0
          BY <2>3, <3>4 DEF Spend, Pending
        <4>2. Charged(d)' = Charged(d)
          BY <2>3, <3>2, <3>4 DEF Spend, Charged, Typed
        <4>3. QED
          BY <3>1, <3>2, <4>1, <4>2, BudgetTypes DEF Budget
      <3>5. QED
        BY <3>3, <3>4
    <2>4. ASSUME NEW c \in issued, Alive(c), Read(c), ~Refuse(c)
          PROVE  Budget'
      BY <1>2, <1>3, <2>4 DEF Read
    <2>5. ASSUME NEW c \in issued, StartWait(c)
          PROVE  Budget'
      BY <1>2, <1>3, <2>5 DEF StartWait
    <2>6. CASE Written
      <3> SUFFICES ASSUME NEW d \in issued
                   PROVE  (posts[d] + Cardinality(MailRequests(d)) + Pending(d) <= Charged(d))'
        BY <2>6 DEF Budget, Written
      <3>1. Pending(d)' = 0 /\ MailRequests(d)' = MailRequests(d) /\ Charged(d)' = Charged(d)
        BY <2>6 DEF Written, Pending, Writing, MailRequests, Charged, NoCall
      <3>2. d \in Code /\ posts[d] \in Nat /\ Cardinality(MailRequests(d)) \in Nat
        BY BudgetTypes DEF Typed
      <3>3. Charged(d) \in 0 .. CodeMaxCalls
        BY <3>2, BudgetTypes
      <3>4. CASE call.code = d
        <4>1. Pending(d) = 1 /\ posts'[d] = posts[d] + 1
          BY <2>6, <3>2, <3>4 DEF Written, Pending, Writing, Typed
        <4>2. QED
          BY <3>1, <3>2, <3>3, <4>1, GatewayAssumption DEF Budget
      <3>5. CASE call.code # d
        <4>1. Pending(d) = 0 /\ posts'[d] = posts[d]
          BY <2>6, <3>2, <3>5 DEF Written, Pending, Writing, Typed
        <4>2. QED
          BY <3>1, <3>2, <3>3, <4>1, GatewayAssumption DEF Budget
      <3>6. QED
        BY <3>4, <3>5
    <2>7. CASE EndCall \/ Receive
      <3>1. Same /\ Idle /\ UNCHANGED codes
        BY <2>7 DEF EndCall, Receive, NoCall
      <3>2. QED
        BY <1>2, <1>3, <3>1
    <2>8. CASE Baseline \/ PollFinds \/ TimeOut
      <3>1. Same /\ Idle /\ UNCHANGED codes
        BY <2>8, WaitSteps DEF Typed
      <3>2. QED
        BY <1>2, <1>3, <3>1
    <2>9. ASSUME NEW m \in MsgId, Arrive(m)
          PROVE  Budget'
      BY <2>9, BudgetKept, <1>3, BudgetTypes DEF Arrive, Pending, Writing, NextRequest, Typed
    <2>10. CASE Tick
      <3>1. \A c \in Code : Charged(c)' = Charged(c)
        <4>1. ASSUME NEW c \in Code, codes[c] # NoCode
              PROVE  Charged(c)' = Charged(c)
          <5>1. codes[c] \in [ttl : Int, used : 0 .. CodeMaxCalls] /\ Less(codes[c].ttl) \in Int
            BY <4>1 DEF Typed, Less
          <5>2. codes'[c] = [codes[c] EXCEPT !.ttl = Less(codes[c].ttl)]
            BY <2>10, <4>1 DEF Tick
          <5>3. codes'[c] \in [ttl : Int, used : 0 .. CodeMaxCalls] /\ codes'[c].used = codes[c].used
            BY <5>1, <5>2
          <5>4. codes'[c] # NoCode
            BY <5>3, GatewayAssumption
          <5>5. QED
            BY <4>1, <5>3, <5>4 DEF Charged
        <4>2. ASSUME NEW c \in Code, codes[c] = NoCode
              PROVE  Charged(c)' = Charged(c)
          BY <2>10, <4>2 DEF Tick, Charged
        <4>3. QED
          BY <4>1, <4>2
      <3>2. \A c \in issued : c \in Code /\ Charged(c) <= Charged(c)'
        BY <3>1, BudgetTypes DEF Typed
      <3>3. CASE call.step = "poll"
        <4>1. call'.step = "poll"
          BY <2>10, <3>3, CallFields DEF Tick, Typed
        <4>2. QED
          BY <1>2, <2>10, <3>2, <4>1 DEF Tick
      <3>4. CASE call.step # "poll"
        <4>1. call' = call
          BY <2>10, <3>4 DEF Tick
        <4>2. \A c \in issued : Pending(c)' = Pending(c)
          BY <4>1 DEF Pending, Writing, NextRequest
        <4>3. QED
          BY <2>10, <3>2, <4>2, BudgetTypes, BudgetKept DEF Tick
      <3>5. QED
        BY <3>3, <3>4
    <2>11. CASE Exit
      <3>1. \A c \in issued : Charged(c)' = CodeMaxCalls /\ c \in Code
        BY <2>11 DEF Exit, Charged, Typed
      <3>2. \A c \in issued : Charged(c) <= Charged(c)'
        BY <3>1, BudgetTypes, GatewayAssumption
      <3>3. QED
        BY <1>2, <2>11, <3>2 DEF Exit, NoCall
    <2>12. QED
      BY <1>5, <2>1, <2>2, <2>3, <2>4, <2>5, <2>6, <2>7, <2>8, <2>9, <2>10, <2>11
         DEF Next, ConsumeCode, Read
  <1>6. ASSUME NEW k \in 0 .. MaxAttached + 1, StartSend(k)
        PROVE  Budget'
    <2>1. \A c \in issued : Pending(c)' = Pending(c)
      BY <1>6 DEF StartSend, InSend, Pending, Writing
    <2>2. QED
      BY <1>1, <1>3, <1>6, <2>1, BudgetKept DEF StartSend
  <1>7. CASE Inline \/ Response \/ GiveUp
    <2>1. call.step \in {"inline", "await"}
          /\ call = [step |-> call.step, code |-> call.code, n |-> call.n, want |-> call.want,
                     ids |-> call.ids]
      BY <1>7, CallFields DEF Inline, Response, GiveUp, InSend, Typed
    <2>2. call'.step = "idle" \/ (Writing /\ call'.code = call.code)
      <3>1. CASE call' = NoCall
        BY <3>1 DEF NoCall
      <3>2. CASE Inline /\ call' = [call EXCEPT !.step = "upload"]
        BY <2>1, <3>2 DEF Inline, InSend, Writing
      <3>3. CASE /\ InSend("await") /\ NextRequest.mail = {}
                 /\ call' = [call EXCEPT !.step = "upload", !.ids = @ \cup NextRequest.file]
        BY <2>1, <3>3 DEF InSend, Writing
      <3>4. QED
        BY <1>7, <3>1, <3>2, <3>3 DEF Inline, Response, GiveUp, Tell
    <2>3. Same /\ UNCHANGED codes
      BY <1>7 DEF Inline, Response, GiveUp
    <2>4. ASSUME Writing, call'.code = call.code
          PROVE  \A c \in issued : Pending(c)' <= Pending(c)
      BY <2>4 DEF Pending
    <2>5. QED
      BY <1>2, <1>3, <2>2, <2>3, <2>4, BudgetKept
  <1>8. CASE Request
    <2> SUFFICES ASSUME NEW d \in issued
                 PROVE  (posts[d] + Cardinality(MailRequests(d)) + Pending(d) <= Charged(d))'
      BY <1>8 DEF Budget, Request
    <2>1. d \in Code /\ posts' = posts /\ Charged(d)' = Charged(d)
      BY <1>8 DEF Request, Charged, Typed
    <2>2. /\ call.step = "upload" /\ requests' = requests \cup {NextRequest}
          /\ call' = [step |-> "await", code |-> call.code, n |-> call.n, want |-> call.want,
                      ids |-> call.ids]
      BY <1>8, CallFields DEF Request, InSend, Typed
    <2>3. NextRequest' = NextRequest /\ NextRequest.code = call.code
      BY <2>2, NextRequestIs DEF NextRequest
    <2>4. CASE NextRequest.mail = {} \/ call.code # d
      <3>1. MailRequests(d)' = MailRequests(d)
        BY <2>2, <2>3, <2>4 DEF MailRequests
      <3>2. Pending(d)' = Pending(d)
        BY <2>2, <2>3, <2>4 DEF Pending, Writing
      <3>3. QED
        BY <2>1, <3>1, <3>2 DEF Budget
    <2>5. CASE NextRequest.mail # {} /\ call.code = d
      <3>1. MailRequests(d)' = MailRequests(d) \cup {NextRequest}
        BY <2>2, <2>3, <2>5 DEF MailRequests
      <3>2. Pending(d) = 1 /\ Pending(d)' = 0
        BY <2>2, <2>3, <2>5 DEF Pending, Writing
      <3>3. Cardinality(MailRequests(d) \cup {NextRequest})
              \in {Cardinality(MailRequests(d)), Cardinality(MailRequests(d)) + 1}
        BY <1>1, FS_AddElement
      <3>4. QED
        BY <1>1, <2>1, <3>1, <3>2, <3>3 DEF Budget
    <2>6. QED
      BY <2>4, <2>5
  <1>9. ASSUME NEW r \in requests, Serve(r)
        PROVE  Budget'
    <2> SUFFICES ASSUME NEW d \in issued
                 PROVE  (posts[d] + Cardinality(MailRequests(d)) + Pending(d) <= Charged(d))'
      BY <1>9 DEF Budget, Serve
    <2>1. d \in Code /\ Charged(d)' = Charged(d) /\ Pending(d)' = Pending(d)
      BY <1>9 DEF Serve, Charged, Typed, Pending, Writing, NextRequest
    <2>2. requests' = requests \ {r} /\ posts' = [posts EXCEPT ![r.code] = @ + Cardinality(r.mail)]
      BY <1>9 DEF Serve
    <2>3. CASE r.mail = {} \/ r.code # d
      <3>1. MailRequests(d)' = MailRequests(d)
        BY <2>2, <2>3 DEF MailRequests
      <3>2. posts'[d] = posts[d]
        <4>1. CASE r.code # d
          BY <2>1, <2>2, <4>1 DEF Typed
        <4>2. CASE r.code = d
          <5>1. Cardinality(r.mail) = 0
            BY <2>3, <4>2, MailCount
          <5>2. posts'[d] = posts[d] + Cardinality(r.mail)
            BY <2>1, <2>2, <4>2 DEF Typed
          <5>3. QED
            BY <1>1, <5>1, <5>2
        <4>3. QED
          BY <4>1, <4>2
      <3>3. QED
        BY <2>1, <3>1, <3>2 DEF Budget
    <2>4. CASE r.mail # {} /\ r.code = d
      <3>1. MailRequests(d)' = MailRequests(d) \ {r} /\ r \in MailRequests(d)
        BY <2>2, <2>4 DEF MailRequests
      <3>2. Cardinality(MailRequests(d)') = Cardinality(MailRequests(d)) - 1
        BY <2>1, <3>1, BudgetTypes, FS_RemoveElement
      <3>3. posts'[d] = posts[d] + 1
        BY <2>1, <2>2, <2>4, MailCount DEF Typed
      <3>4. QED
        BY <2>1, <3>2, <3>3, BudgetTypes DEF Budget
    <2>5. QED
      BY <2>3, <2>4
  <1>10. CASE UNCHANGED <<vars, outgoing>>
    <2>1. Same /\ UNCHANGED <<codes, call>>
      BY <1>10 DEF vars, outgoing
    <2>2. \A c \in issued : Pending(c)' = Pending(c)
      BY <2>1 DEF Pending, Writing, NextRequest
    <2>3. QED
      BY <1>1, <1>3, <2>1, <2>2, BudgetKept
  <1>11. QED
    BY <1>5, <1>6, <1>7, <1>8, <1>9, <1>10 DEF SendNext

-----------------------------------------------------------------------------
(* The watch.                                                              *)

LEMMA WatchingInit == SendInit => Watching
  BY DEF SendInit, Init, Watching, Covered, NoCall

LEMMA WatchingNext ==
    ASSUME Typed, Typed', Watching, [SendNext]_<<vars, outgoing>>
    PROVE  Watching'
  <1> USE DEF watch
  <1>1. inbox \in SUBSET Nat /\ 0 \notin inbox /\ last \in Nat /\ \A m \in inbox : m \in Nat
    BY GatewayAssumption DEF Typed
  <1>2. ASSUME UNCHANGED <<inbox, watch, late>>,
               call' = call \/ call'.step \notin {"baseline", "poll", "answer"}
        PROVE  Watching'
    <2>1. CASE call' = call
      BY <1>2, <2>1 DEF Watching, Covered
    <2>2. CASE call'.step \notin {"baseline", "poll", "answer"}
      BY <1>2, <2>2 DEF Watching, Covered
    <2>3. QED
      BY <1>2, <2>1, <2>2
  <1>3. ASSUME Next, UNCHANGED outgoing
        PROVE  Watching'
    <2> USE <1>3 DEF outgoing
    <2>1. ASSUME NEW c \in Code, Authenticate(c) \/ Refuse(c) \/ Spend(c) \/ (Read(c) /\ ~Refuse(c))
          PROVE  Watching'
      <3>1. UNCHANGED <<inbox, watch, late>>
        BY <2>1 DEF Authenticate, Refuse, Spend, Read
      <3>2. call' = call \/ call'.step \in {"write", "read"}
        BY <2>1 DEF Authenticate, Refuse, Spend, Read
      <3>3. QED
        BY <1>2, <3>1, <3>2
    <2>2. ASSUME NEW c \in issued, StartWait(c), last = 0
          PROVE  Watching'
      <3>1. call'.step = "baseline" /\ UNCHANGED <<inbox, watch, late>>
        BY <2>2 DEF StartWait, Typed
      <3>2. QED
        BY <2>2, <3>1 DEF Watching, Covered
    <2>3. ASSUME NEW c \in issued, StartWait(c), last # 0
          PROVE  Watching'
      <3>1. /\ call'.step = "poll" /\ call'.since = last /\ begun'
            /\ UNCHANGED <<inbox, last, returned, warned, passedOver, late>>
        BY <2>3 DEF StartWait
      <3>2. CASE begun
        <4>1. before' = before
          BY <2>3, <3>2 DEF StartWait
        <4>2. QED
          BY <2>3, <3>1, <3>2, <4>1 DEF Watching, Covered
      <3>3. CASE ~begun
        <4>1. before' = {m \in inbox : m <= last}
          BY <2>3, <3>3 DEF StartWait
        <4>2. QED
          BY <1>1, <2>3, <3>1, <3>3, <4>1 DEF Watching, Covered
      <3>4. QED
        BY <3>2, <3>3
    <2>4. CASE Written \/ EndCall \/ Exit
      BY <1>2, <2>4 DEF Written, EndCall, Exit, NoCall
    <2>5. CASE Baseline
      <3>1. call = [step |-> call.step, code |-> call.code, since |-> call.since, left |-> call.left]
        BY <2>5, CallFields DEF Baseline, Typed
      <3>2. /\ call'.step = "poll" /\ call'.since = Newest(inbox) /\ begun' /\ last = 0
            /\ UNCHANGED <<inbox, last, returned, warned, late>>
        BY <2>5, <3>1 DEF Baseline, Watching
      <3>3. inbox \subseteq before' \cup returned' \cup passedOver' /\ before' \subseteq inbox
        BY <2>5 DEF Baseline, Watching
      <3>4. Newest(inbox) \in inbox \cup {0} /\ \A m \in inbox : m <= Newest(inbox)
        BY <1>1, NewestIs DEF Typed
      <3>5. QED
        BY <3>2, <3>3, <3>4 DEF Watching, Covered
    <2>6. CASE PollFinds
      <3>1. /\ call.step = "poll" /\ Fresh # {}
            /\ call'.step = "answer" /\ call'.since = call.since /\ call'.fresh = Fresh
            /\ call'.last = Newest(Page)
            /\ UNCHANGED <<inbox, watch, late>>
        BY <2>6 DEF PollFinds, Answer
      <3>2. Cardinality(Page) = PollLimit => call'.more
        BY <2>6 DEF PollFinds, Answer
      <3>3. call.since \in Nat /\ Page \in SUBSET inbox
        BY <3>1, CallFields, PageIs DEF Typed
      <3>4. Newest(Page) \in Page \cup {0} /\ \A m \in Page : m <= Newest(Page)
        BY <1>1, <3>3, NewestIs DEF Typed
      <3>5. Fresh = {m \in Page : m > call.since}
        BY DEF Fresh
      <3>6. Newest(Page) \in Page /\ call.since < Newest(Page)
        <4>1. PICK m \in Page : m > call.since
          BY <3>1, <3>5
        <4>2. m \in Nat /\ m <= Newest(Page) /\ Newest(Page) \in Nat
          <5>1. m \in inbox /\ m <= Newest(Page)
            BY <3>3, <3>4, <4>1
          <5>2. Newest(Page) \in Nat
            BY <3>3, NewestIs DEF Typed
          <5>3. QED
            BY <1>1, <5>1, <5>2
        <4>3. QED
          BY <3>3, <3>4, <4>1, <4>2
      <3>7. before \subseteq inbox /\ returned \subseteq inbox
            /\ \A m \in before \cup returned : m \in Nat /\ m <= call.since
        BY <1>1, <3>1 DEF Watching
      <3>8. Fresh \subseteq inbox \ (before \cup returned)
            /\ \A m \in before \cup returned \cup Fresh : m <= Newest(Page)
        <4>1. Newest(Page) \in Nat
          BY <1>1, <3>3, <3>6
        <4>2. ASSUME NEW m \in Fresh
              PROVE  m \in inbox \ (before \cup returned) /\ m <= Newest(Page)
          BY <1>1, <3>3, <3>4, <3>5, <3>7
        <4>3. ASSUME NEW m \in before \cup returned
              PROVE  m <= Newest(Page)
          BY <3>3, <3>6, <3>7, <4>1
        <4>4. QED
          BY <4>2, <4>3
      <3>9. ASSUME NEW m \in inbox \ (before \cup returned \cup warned \cup Fresh), m <= Newest(Page),
                   ~(call'.more /\ call.since < m /\ m < Newest(Page))
            PROVE  m \in late \cup passedOver
        <4>1. CASE m <= call.since
          BY <3>1, <3>9, <4>1 DEF Watching, Covered
        <4>2. CASE m > call.since
          <5>1. m \notin Page
            BY <3>5, <3>9, <4>2
          <5>2. call'.more /\ m < Newest(Page)
            BY <3>2, <3>6, <3>9, <5>1, PageIs DEF Typed
          <5>3. QED
            BY <3>9, <4>2, <5>2
        <4>3. QED
          BY <1>1, <3>3, <4>1, <4>2
      <3>10. QED
        BY <3>1, <3>3, <3>6, <3>8, <3>9 DEF Watching, Covered
    <2>7. CASE TimeOut
      <3>1. /\ call.step = "poll" /\ call'.step = "answer" /\ call'.since = call.since
            /\ call'.fresh = {} /\ call'.last = call.since
            /\ UNCHANGED <<inbox, watch, late>>
        BY <2>7 DEF TimeOut, Answer
      <3>2. QED
        BY <3>1 DEF Watching, Covered
    <2>8. CASE Receive
      <3>1. /\ call.step = "answer" /\ last' = call.last /\ returned' = returned \cup call.fresh
            /\ UNCHANGED <<inbox, begun, before, passedOver, late>>
            /\ call'.step = "idle"
        BY <2>8 DEF Receive, NoCall
      <3>2. \A m \in MsgId : m \in warned' <=>
               m \in warned \/ (call.more /\ call.since < m /\ m < call.last)
        <4>1. CASE call.more
          BY <2>8, <4>1 DEF Receive, Typed
        <4>2. CASE ~call.more
          BY <2>8, <4>2 DEF Receive
        <4>3. QED
          BY <4>1, <4>2
      <3>3. inbox \subseteq MsgId
        BY DEF Typed
      <3>4. \A m \in inbox \ (before \cup returned' \cup warned') :
               m <= call.last => m \in late \cup passedOver
        BY <3>1, <3>2, <3>3 DEF Watching
      <3>5. QED
        BY <3>1, <3>4 DEF Watching, Covered
    <2>9. ASSUME NEW m \in MsgId, Arrive(m)
          PROVE  Watching'
      <3>1. /\ m \notin inbox \cup {0, last} /\ inbox' = inbox \cup {m}
            /\ late \subseteq late' /\ \A n \in inbox \cup {0, last} : m <= n => m \in late'
            /\ UNCHANGED <<call, watch>>
        <4>1. m \in Nat /\ m # 0
          BY GatewayAssumption
        <4>2. m \notin inbox \cup {0, last} /\ inbox' = inbox \cup {m} /\ UNCHANGED <<call, watch>>
          BY <2>9, <4>1 DEF Arrive
        <4>3. ASSUME NEW n \in inbox \cup {0, last}, m <= n
              PROVE  n \in inbox \cup {last} /\ n > m
          BY <1>1, <4>1, <4>2, <4>3
        <4>4. late \subseteq late' /\ ((\E n \in inbox \cup {last} : n > m) => m \in late')
          BY <2>9 DEF Arrive
        <4>5. QED
          BY <4>2, <4>3, <4>4
      <3>2. ASSUME NEW x \in inbox \cup {0, last}, Covered(x)
            PROVE  \A n \in inbox' \ (before \cup returned \cup warned) :
                      begun /\ n <= x => n \in late' \cup passedOver
        BY <3>1, <3>2 DEF Covered
      <3>3. Covered(last)'
        BY <3>1, <3>2 DEF Covered, Watching
      <3>4. call.step = "poll" => Covered(call.since)'
        BY <3>1, <3>2 DEF Covered, Watching
      <3>5. call.step = "answer" =>
               \A n \in inbox' \ (before \cup returned \cup warned \cup call.fresh) :
                  n <= call.last /\ ~(call.more /\ call.since < n /\ n < call.last)
                     => n \in late' \cup passedOver
        BY <3>1 DEF Watching
      <3>6. QED
        BY <3>1, <3>3, <3>4, <3>5 DEF Watching
    <2>10. CASE Tick
      <3>1. CASE call.step = "poll"
        <4>1. call'.step = "poll" /\ call'.since = call.since /\ UNCHANGED <<inbox, watch, late>>
          BY <2>10, <3>1, CallFields DEF Tick, Typed
        <4>2. QED
          BY <3>1, <4>1 DEF Watching, Covered
      <3>2. CASE call.step # "poll"
        BY <1>2, <2>10, <3>2 DEF Tick
      <3>3. QED
        BY <3>1, <3>2
    <2>11. QED
      BY <1>3, <2>1, <2>2, <2>3, <2>4, <2>5, <2>6, <2>7, <2>8, <2>9, <2>10
         DEF Next, ConsumeCode, Read, Typed
  <1>4. ASSUME NEW k \in 0 .. MaxAttached + 1, StartSend(k)
        PROVE  Watching'
    BY <1>2, <1>4 DEF StartSend
  <1>5. CASE Inline \/ Request \/ Response \/ GiveUp
    <2>1. call = [step |-> call.step, code |-> call.code, n |-> call.n, want |-> call.want,
                  ids |-> call.ids]
      BY <1>5, CallFields DEF Inline, Request, Response, GiveUp, InSend, Typed
    <2>2. call'.step \in {"idle", "upload", "await"}
      <3>1. \/ call' = NoCall \/ call' = [call EXCEPT !.step = "upload"]
            \/ call' = [call EXCEPT !.step = "await"]
            \/ call' = [call EXCEPT !.step = "upload", !.ids = @ \cup NextRequest.file]
        BY <1>5 DEF Inline, Request, Response, GiveUp, Tell
      <3>2. CASE call' = NoCall
        BY <3>2 DEF NoCall
      <3>3. ASSUME NEW step \in {"upload", "await"}, call' = [call EXCEPT !.step = step]
            PROVE  call'.step = step
        BY <2>1, <3>3
      <3>4. CASE call' = [call EXCEPT !.step = "upload", !.ids = @ \cup NextRequest.file]
        BY <2>1, <3>4
      <3>5. QED
        BY <3>1, <3>2, <3>3, <3>4
    <2>3. UNCHANGED <<inbox, watch, late>>
      BY <1>5 DEF Inline, Request, Response, GiveUp
    <2>4. QED
      BY <1>2, <2>2, <2>3
  <1>6. ASSUME NEW r \in requests, Serve(r)
        PROVE  Watching'
    BY <1>2, <1>6 DEF Serve
  <1>7. CASE UNCHANGED <<vars, outgoing>>
    BY <1>2, <1>7 DEF vars, outgoing
  <1>8. QED
    BY <1>3, <1>4, <1>5, <1>6, <1>7 DEF SendNext

-----------------------------------------------------------------------------
(* Mails, requests and the send in progress.                               *)

LEMMA AttachmentsGrow ==
    ASSUME NEW n, NEW k \in Nat
    PROVE  /\ Attachments(n, 0) = {}
           /\ <<n, k + 1>> \notin Attachments(n, k)
           /\ Attachments(n, k) \cup {<<n, k + 1>>} = Attachments(n, k + 1)
  <1>1. 1 .. 0 = {} /\ k + 1 \notin 1 .. k /\ (1 .. k) \cup {k + 1} = 1 .. (k + 1)
    OBVIOUS
  <1>2. QED
    BY <1>1 DEF Attachments

\* What a step of the gateway's other tools does to a send: it goes on, or the
\* call is none or another.
LEMMA OtherCalls ==
    ASSUME Typed, Next
    PROVE  call' = call \/ call'.step \notin {"inline", "upload", "await"}
  <1>1. ASSUME NEW c \in Code, Authenticate(c) \/ Refuse(c) \/ Spend(c) \/ Read(c) \/ StartWait(c)
        PROVE  call' = call \/ call'.step \notin {"inline", "upload", "await"}
    BY <1>1 DEF Authenticate, Refuse, Spend, Read, StartWait
  <1>2. CASE Written \/ EndCall \/ Receive \/ Exit
    BY <1>2 DEF Written, EndCall, Receive, Exit, NoCall
  <1>3. CASE Baseline \/ PollFinds \/ TimeOut
    BY <1>3, WaitSteps DEF Typed
  <1>4. CASE Tick
    BY <1>4, CallFields DEF Tick, Typed
  <1>5. ASSUME NEW m \in MsgId, Arrive(m)
        PROVE  call' = call
    BY <1>5 DEF Arrive
  <1>6. QED
    BY <1>1, <1>2, <1>3, <1>4, <1>5 DEF Next, ConsumeCode, Typed

LEMMA OutgoingInit == SendInit => Outgoing /\ Uploading
  BY DEF SendInit, Init, Outgoing, Uploading, NoCall

\* The mail that a request makes.
LEMMA ServeMails ==
    ASSUME Outgoing, NEW r \in requests, Serve(r)
    PROVE  /\ requests' = requests \ {r} /\ files' = files \cup r.file
           /\ UNCHANGED <<sends, answers, call>>
           /\ r.mail = {} => mails' = mails
           /\ r.mail # {} => \E m : /\ mails' = mails \cup {m} /\ m.n = r.n
                                    /\ m.files = Attachments(r.n, sends[r.n])
  <1>1. CASE r.mail = {}
    BY <1>1 DEF Serve
  <1>2. CASE r.mail # {}
    <2> DEFINE m == [id |-> Cardinality(mails) + 1, n |-> r.n, files |-> Attachments(r.n, sends[r.n])]
    <2>1. r.mail = {Attachments(r.n, sends[r.n])}
      BY <1>2 DEF Outgoing
    <2>2. mails' = mails \cup {m}
      BY <2>1 DEF Serve
    <2>3. m.n = r.n /\ m.files = Attachments(r.n, sends[r.n])
      OBVIOUS
    <2> HIDE DEF m
    <2>4. QED
      BY <1>2, <2>2, <2>3 DEF Serve
  <1>3. QED
    BY <1>1, <1>2

LEMMA OutgoingNext ==
    ASSUME Typed, Outgoing, Uploading, [SendNext]_<<vars, outgoing>>
    PROVE  Outgoing'
  <1>1. ASSUME UNCHANGED outgoing
        PROVE  Outgoing'
    BY <1>1 DEF outgoing, Outgoing, Unsent
  <1>2. ASSUME NEW k \in 0 .. MaxAttached + 1, StartSend(k)
        PROVE  Outgoing'
    <2>1. /\ Len(sends') = Len(sends) + 1 /\ Len(sends) \in Nat
          /\ \A n \in 1 .. Len(sends) : n \in 1 .. Len(sends') /\ sends'[n] = sends[n]
          /\ UNCHANGED <<requests, files, mails, answers>>
      BY <1>2 DEF StartSend, Typed
    <2>2. QED
      BY <2>1 DEF Outgoing, Unsent
  <1>3. ASSUME NEW result, call.step \in {"inline", "upload", "await"}, Tell(result),
               UNCHANGED <<requests, files, mails, sends>>,
               result = "failed" => Unsent(call.n),
               result = "sent" => \E m \in mails : m.n = call.n
        PROVE  Outgoing'
    <2>1. call.n \in 1 .. Len(sends)
      BY <1>3 DEF Uploading
    <2>2. \A a \in answers' : a \in answers \/ (a.n = call.n /\ a.result = result)
      BY <1>3 DEF Tell
    <2>3. QED
      BY <1>3, <2>1, <2>2 DEF Outgoing, Unsent
  <1>4. CASE Inline
    <2>1. CASE UNCHANGED answers
      BY <1>1, <1>4, <2>1 DEF Inline, outgoing
    <2>2. CASE Tell("failed")
      <3>1. Unsent(call.n)
        BY <1>4 DEF Inline, InSend, Uploading
      <3>2. QED
        BY <1>3, <1>4, <2>2, <3>1 DEF Inline, InSend
    <2>3. QED
      BY <1>4, <2>1, <2>2 DEF Inline
  <1>5. CASE Request
    <2>1. /\ call.step = "upload" /\ requests' = requests \cup {NextRequest}
          /\ UNCHANGED <<files, mails, answers, sends>>
      BY <1>5 DEF Request, InSend
    <2>2. /\ call.n \in 1 .. Len(sends) /\ call.want = sends[call.n] /\ Unsent(call.n)
          /\ \A a \in answers : a.n # call.n
          /\ call.ids \subseteq files /\ call.ids = Attachments(call.n, Cardinality(call.ids))
      BY <2>1 DEF Uploading
    <2>3. NextRequest.n = call.n /\ (NextRequest.mail # {} =>
                 /\ NextRequest.file = {}
                 /\ NextRequest.mail = {Attachments(call.n, sends[call.n])}
                 /\ Attachments(call.n, sends[call.n]) \subseteq files)
      BY <2>1, <2>2, NextRequestIs
    <2>4. ASSUME NEW n, n # call.n
          PROVE  Unsent(n) => Unsent(n)'
      BY <2>1, <2>3, <2>4 DEF Unsent
    <2>5. ASSUME NEW r \in requests'
          PROVE  /\ r.n \in 1 .. Len(sends)
                 /\ r.mail # {} => /\ r.mail = {Attachments(r.n, sends[r.n])}
                                   /\ Attachments(r.n, sends[r.n]) \subseteq files
                                   /\ r.file = {}
                                   /\ \A m \in mails : m.n # r.n
      <3>1. CASE r \in requests
        BY <3>1 DEF Outgoing
      <3>2. CASE r = NextRequest
        BY <2>2, <2>3, <3>2 DEF Unsent
      <3>3. QED
        BY <2>1, <3>1, <3>2
    <2>6. \A r, s \in requests' : r.mail # {} /\ s.mail # {} /\ r.n = s.n => r = s
      BY <2>1, <2>2, <2>3 DEF Outgoing, Unsent
    <2>7. \A a \in answers : a.result = "failed" => Unsent(a.n)'
      BY <2>2, <2>4 DEF Outgoing
    <2>8. QED
      BY <2>1, <2>5, <2>6, <2>7 DEF Outgoing
  <1>6. CASE Response
    <2>1. CASE UNCHANGED answers
      BY <1>1, <1>6, <2>1 DEF Response, outgoing
    <2>2. CASE NextRequest.mail # {} /\ Tell("sent")
      <3>1. \E m \in mails : m.n = call.n
        BY <1>6, <2>2 DEF Response, InSend, Uploading
      <3>2. QED
        BY <1>3, <1>6, <2>2, <3>1 DEF Response, InSend
    <2>3. QED
      BY <1>6, <2>1, <2>2 DEF Response
  <1>7. CASE GiveUp
    <2>1. CASE NextRequest.mail = {}
      <3>1. Unsent(call.n) /\ Tell("failed")
        BY <1>7, <2>1 DEF GiveUp, InSend, Uploading
      <3>2. QED
        BY <1>3, <1>7, <3>1 DEF GiveUp, InSend
    <2>2. CASE NextRequest.mail # {}
      <3>1. Tell("unknown")
        BY <1>7, <2>2 DEF GiveUp
      <3>2. QED
        BY <1>3, <1>7, <3>1 DEF GiveUp, InSend
    <2>3. QED
      BY <2>1, <2>2
  <1>8. ASSUME NEW r \in requests, Serve(r)
        PROVE  Outgoing'
    <2>1. /\ requests' = requests \ {r} /\ files \subseteq files' /\ UNCHANGED <<sends, answers>>
      BY <1>8, ServeMails
    <2>2. CASE r.mail = {}
      <3>1. mails' = mails
        BY <1>8, <2>2, ServeMails
      <3>2. QED
        BY <2>1, <3>1 DEF Outgoing, Unsent
    <2>3. CASE r.mail # {}
      <3>1. PICK o : /\ mails' = mails \cup {o} /\ o.n = r.n
                     /\ o.files = Attachments(r.n, sends[r.n])
        BY <1>8, <2>3, ServeMails
      <3>2. /\ r.n \in 1 .. Len(sends) /\ Attachments(r.n, sends[r.n]) \subseteq files
            /\ \A m \in mails : m.n # r.n
            /\ \A q \in requests' : q.mail # {} => q.n # r.n
        BY <2>1, <2>3 DEF Outgoing
      <3>3. \A a \in answers : a.result = "failed" => Unsent(a.n)'
        BY <2>1, <2>3, <3>1 DEF Outgoing, Unsent
      <3>4. \A m \in mails' : /\ m.n \in 1 .. Len(sends)
                              /\ m.files = Attachments(m.n, sends[m.n]) /\ m.files \subseteq files'
        BY <2>1, <3>1, <3>2 DEF Outgoing
      <3>5. \A m, q \in mails' : m.n = q.n => m = q
        BY <3>1, <3>2 DEF Outgoing
      <3>6. \A q \in requests' :
               /\ q.n \in 1 .. Len(sends)
               /\ q.mail # {} => /\ q.mail = {Attachments(q.n, sends[q.n])}
                                 /\ Attachments(q.n, sends[q.n]) \subseteq files'
                                 /\ q.file = {}
                                 /\ \A m \in mails' : m.n # q.n
        BY <2>1, <3>1, <3>2 DEF Outgoing
      <3>7. QED
        BY <2>1, <3>1, <3>3, <3>4, <3>5, <3>6 DEF Outgoing
    <2>4. QED
      BY <2>2, <2>3
  <1>9. CASE UNCHANGED <<vars, outgoing>>
    BY <1>1, <1>9
  <1>10. QED
    BY <1>1, <1>2, <1>4, <1>5, <1>6, <1>7, <1>8, <1>9 DEF SendNext

LEMMA UploadingNext ==
    ASSUME Typed, Outgoing, Uploading, [SendNext]_<<vars, outgoing>>
    PROVE  Uploading'
  <1>1. ASSUME UNCHANGED outgoing, call' = call \/ call'.step \notin {"inline", "upload", "await"}
        PROVE  Uploading'
    BY <1>1 DEF outgoing, Uploading, Unsent, Served, NextRequest
  <1>2. CASE Next /\ UNCHANGED outgoing
    BY <1>1, <1>2, OtherCalls
  <1>3. ASSUME NEW k \in 0 .. MaxAttached + 1, StartSend(k)
        PROVE  Uploading'
    <2>1. k \in Nat
      BY SendEmailAssumption
    <2>2. /\ Len(sends') = Len(sends) + 1 /\ Len(sends) \in Nat /\ sends'[Len(sends')] = k
          /\ UNCHANGED <<requests, files, mails, answers>>
      BY <1>3, <2>1 DEF StartSend, Typed
    <2>3. /\ call'.step = "inline" /\ call'.n = Len(sends') /\ call'.want = k /\ call'.ids = {}
      BY <1>3 DEF StartSend
    <2>4. /\ \A a \in answers : a.n # Len(sends')
          /\ \A m \in mails : m.n # Len(sends')
          /\ \A r \in requests : r.n # Len(sends')
      BY <2>2 DEF Outgoing
    <2>5. Attachments(Len(sends'), 0) = {}
      BY AttachmentsGrow
    <2>6. QED
      BY <2>1, <2>2, <2>3, <2>4, <2>5, FS_EmptySet DEF Uploading, Unsent
  <1>4. ASSUME call.step \in {"inline", "upload", "await"}
        PROVE  call = [step |-> call.step, code |-> call.code, n |-> call.n, want |-> call.want,
                       ids |-> call.ids]
    BY <1>4, CallFields DEF Typed
  <1>5. CASE call' = NoCall
    BY <1>5 DEF Uploading, NoCall
  <1>6. CASE Inline /\ call' # NoCall
    <2>1. /\ call.step = "inline" /\ call' = [call EXCEPT !.step = "upload"]
          /\ UNCHANGED <<requests, files, mails, answers, sends>>
      BY <1>6 DEF Inline, InSend, Tell
    <2>2. call'.step = "upload" /\ call'.n = call.n /\ call'.want = call.want /\ call'.ids = call.ids
      BY <1>4, <2>1
    <2>3. QED
      BY <2>1, <2>2 DEF Uploading, Unsent
  <1>7. CASE Request
    <2>1. /\ call.step = "upload" /\ requests' = requests \cup {NextRequest}
          /\ call' = [call EXCEPT !.step = "await"]
          /\ UNCHANGED <<files, mails, answers, sends>>
      BY <1>7 DEF Request, InSend
    <2>2. /\ call'.step = "await" /\ call'.code = call.code /\ call'.n = call.n
          /\ call'.want = call.want /\ call'.ids = call.ids
      BY <1>4, <2>1
    <2>3. NextRequest' = NextRequest
      BY <2>2 DEF NextRequest
    <2>4. ~Served'
      BY <2>1, <2>3 DEF Served
    <2>5. NextRequest.mail = {} => Unsent(call.n)'
      BY <2>1, <2>2 DEF Uploading, Unsent
    <2>6. QED
      BY <2>1, <2>2, <2>3, <2>4, <2>5 DEF Uploading
  <1>8. CASE Response /\ call' # NoCall
    <2>1. /\ call.step = "await" /\ Served /\ NextRequest.mail = {}
          /\ call' = [call EXCEPT !.step = "upload", !.ids = @ \cup NextRequest.file]
          /\ UNCHANGED <<requests, files, mails, answers, sends>>
      BY <1>8 DEF Response, InSend, Tell
    <2> DEFINE k == Cardinality(call.ids)
    <2>2. k \in Nat /\ k < call.want /\ NextRequest.file = {<<call.n, k + 1>>}
      BY <2>1, NextRequestIs
    <2>3. /\ call'.step = "upload" /\ call'.n = call.n /\ call'.want = call.want
          /\ call'.ids = call.ids \cup {<<call.n, k + 1>>}
      BY <1>4, <2>1, <2>2
    <2>4. /\ IsFiniteSet(call.ids) /\ call.ids \subseteq files /\ call.ids = Attachments(call.n, k)
          /\ Unsent(call.n) /\ NextRequest.file \subseteq files
      BY <2>1 DEF Uploading
    <2>5. call'.ids = Attachments(call.n, k + 1) /\ <<call.n, k + 1>> \notin call.ids
      BY <2>2, <2>3, <2>4, AttachmentsGrow
    <2>6. IsFiniteSet(call'.ids) /\ Cardinality(call'.ids) = k + 1
      <3> DEFINE a == <<call.n, k + 1>>
      <3>1. IsFiniteSet(call.ids) /\ a \notin call.ids /\ call'.ids = call.ids \cup {a}
        BY <2>3, <2>4, <2>5
      <3> HIDE DEF a
      <3>2. QED
        BY <3>1, FS_AddElement
    <2>7. call.want \in Nat /\ k + 1 <= call.want
      BY <2>1, <2>2, CallFields DEF Typed
    <2>8. call'.ids \subseteq files /\ Unsent(call.n)'
      BY <2>1, <2>2, <2>3, <2>4 DEF Unsent
    <2> HIDE DEF k
    <2>9. QED
      BY <2>1, <2>3, <2>5, <2>6, <2>7, <2>8 DEF Uploading
  <1>9. CASE GiveUp
    BY <1>5, <1>9 DEF GiveUp, Tell
  <1>10. ASSUME NEW r \in requests, Serve(r), call.step \in {"inline", "upload", "await"}
         PROVE  Uploading'
    <2>1. /\ requests' = requests \ {r} /\ files' = files \cup r.file
          /\ UNCHANGED <<sends, answers, call>>
      BY <1>10, ServeMails
    <2>2. NextRequest' = NextRequest
      BY <2>1 DEF NextRequest
    <2>3. mails \subseteq mails' /\ (r.mail # {} => \E m \in mails' : m.n = r.n)
          /\ \A m \in mails' : m \in mails \/ (r.mail # {} /\ m.n = r.n)
      BY <1>10, ServeMails
    <2>4. Unsent(call.n) => Unsent(call.n)'
      BY <2>1, <2>3 DEF Unsent
    <2>5. ASSUME call.step = "await", NextRequest.mail = {}, Served'
          PROVE  NextRequest.file \subseteq files'
      <3>1. Served \/ r = NextRequest
        BY <2>1, <2>2, <2>5 DEF Served
      <3>2. QED
        BY <2>1, <2>5, <3>1 DEF Uploading
    <2>6. ASSUME call.step = "await", NextRequest.mail # {}, Served'
          PROVE  \E m \in mails' : m.n = call.n
      <3>1. Served \/ r = NextRequest
        BY <2>1, <2>2, <2>6 DEF Served
      <3>2. NextRequest.n = call.n
        BY <2>6, NextRequestIs
      <3>3. QED
        BY <2>3, <2>6, <3>1, <3>2 DEF Uploading
    <2>7. QED
      BY <1>10, <2>1, <2>2, <2>4, <2>5, <2>6 DEF Uploading
  <1>11. ASSUME NEW r \in requests, Serve(r), call.step \notin {"inline", "upload", "await"}
         PROVE  Uploading'
    BY <1>11, ServeMails DEF Uploading
  <1>12. CASE UNCHANGED <<vars, outgoing>>
    BY <1>1, <1>12 DEF vars
  <1>13. QED
    BY <1>2, <1>3, <1>5, <1>6, <1>7, <1>8, <1>9, <1>10, <1>11, <1>12 DEF SendNext

-----------------------------------------------------------------------------
(* The theorems.                                                           *)

LEMMA GatewayInvariant == SendSpec => []GatewayInv
  <1>1. SendInit => GatewayInv
    BY TypedInit, CodesKnownInit, BudgetInit, WatchingInit, OutgoingInit DEF GatewayInv
  <1>2. GatewayInv /\ [SendNext]_<<vars, outgoing>> => GatewayInv'
    BY TypedNext, CodesKnownNext, BudgetNext, WatchingNext, OutgoingNext, UploadingNext
       DEF GatewayInv
  <1>3. QED
    BY <1>1, <1>2, PTL DEF SendSpec

\* Whatever calls, answers, ticks and ends of the process come in between, no
\* access code serves more writes than its budget, mails that arrive after the
\* gateway gave up on them included; and a code that was refused once is never
\* served again (ConsumeCode, CheckCode).
THEOREM RefusedStaysRefused == SendSpec => []RefusalsFinal
  <1>1. GatewayInv => RefusalsFinal
    <2> SUFFICES ASSUME GatewayInv PROVE RefusalsFinal
      OBVIOUS
    <2> USE DEF GatewayInv
    <2>1. ASSUME NEW c \in Code
          PROVE  posts[c] <= CodeMaxCalls
      <3>1. CASE c \in issued
        <4>1. posts[c] + Cardinality(MailRequests(c)) + Pending(c) <= Charged(c)
          BY <3>1 DEF Budget
        <4>2. QED
          BY <4>1, BudgetTypes, GatewayAssumption
      <3>2. CASE c \notin issued
        BY <3>2, GatewayAssumption DEF CodesKnown
      <3>3. QED
        BY <3>1, <3>2
    <2>2. QED
      BY <2>1 DEF RefusalsFinal, CodesKnown
  <1>2. QED
    BY <1>1, GatewayInvariant, PTL

\* The watch of wait_for_new_mail: no mail twice, and none passed over but what
\* an answer with possibly_more, a late commit or a second baseline accounts for.
THEOREM WatchStaysFaithful == SendSpec => []WatchFaithful
  <1>1. GatewayInv => WatchFaithful
    BY DEF GatewayInv, Watching, Covered, WatchFaithful
  <1>2. QED
    BY <1>1, GatewayInvariant, PTL

\* "A mid-way failure sends nothing": toolSend delivers its mail whole and once
\* or not at all, and says so, however its requests are lost, late or given up on.
THEOREM SendsStayWhole == SendSpec => []SendWhole
  <1>1. GatewayInv => SendWhole
    BY DEF GatewayInv, Outgoing, Unsent, SendWhole
  <1>2. QED
    BY <1>1, GatewayInvariant, PTL

=============================================================================
