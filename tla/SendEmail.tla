----------------------------- MODULE SendEmail ------------------------------
(***************************************************************************)
(* The tool send_email of the gateway (toolSend of internal/gateway) and   *)
(* the HTTP client it uses (internal/httpclient), next to the other tools. *)
(*                                                                         *)
(* The client makes one request for one call, waits for its answer and     *)
(* never retries.  A request it has given up on may still be under way:    *)
(* the server may serve it later, or never.  The attachments of the n-th   *)
(* send are the files <<n, 1>>, <<n, 2>>, ...                              *)
(***************************************************************************)
EXTENDS Gateway, Sequences

CONSTANTS
    MaxAttached     \* attachments of one mail (5 in the code)

ASSUME SendEmailAssumption == MaxAttached \in Nat

VARIABLES
    requests,   \* requests on their way to the server
    files,      \* files on the server
    mails,      \* mails that the server delivered
    answers,    \* history: what the agent was told of each send
    sends       \* history: the attachments asked for by each send begun

outgoing == <<requests, files, mails, answers, sends>>

InSend(step) == call.step = step

Attachments(n, k) == {<<n, i>> : i \in 1 .. k}

\* The send of call is over.
Tell(result) ==
    /\ answers' = answers \cup {[n |-> call.n, result |-> result]}
    /\ call' = NoCall

-----------------------------------------------------------------------------
(* toolSend, after consumeCode.                                            *)

\* The arguments are there and the original to forward, if any, was fetched
\* (EndCall otherwise); k attachments.
StartSend(k) ==
    /\ InSend("write")
    /\ sends' = Append(sends, k)
    /\ call' = [step |-> "inline", code |-> call.code, n |-> Len(sends'), want |-> k, ids |-> {}]
    /\ UNCHANGED <<inbox, codes, issued, watch, refused, posts, late, requests, files, mails, answers>>

\* attachFiles read and bounded every file; more than MaxAttached attachments
\* end the call as a bad file does.
Inline ==
    /\ InSend("inline")
    /\ \/ call.want <= MaxAttached /\ call' = [call EXCEPT !.step = "upload"] /\ UNCHANGED answers
       \/ Tell("failed")
    /\ UNCHANGED <<inbox, codes, issued, watch, refused, posts, late, requests, files, mails, sends>>

\* The request for the next attachment, or with all of them for the mail.
NextRequest ==
    LET done == Cardinality(call.ids) IN
    IF done < call.want
    THEN [n |-> call.n, code |-> call.code, file |-> {<<call.n, done + 1>>}, mail |-> {}]
    ELSE [n |-> call.n, code |-> call.code, file |-> {}, mail |-> {call.ids}]

\* do: the request leaves.
Request ==
    /\ InSend("upload")
    /\ requests' = requests \cup {NextRequest}
    /\ call' = [call EXCEPT !.step = "await"]
    /\ UNCHANGED <<inbox, codes, issued, watch, refused, posts, late, files, mails, answers, sends>>

\* The server: handleFileUpload keeps a file, handleSend delivers a mail,
\* whether anybody waits for the answer or not.
Serve(r) ==
    /\ r \in requests
    /\ requests' = requests \ {r}
    /\ files' = files \cup r.file
    /\ mails' = mails \cup {[id |-> Cardinality(mails) + 1, n |-> r.n, files |-> ids] : ids \in r.mail}
    /\ posts' = [posts EXCEPT ![r.code] = @ + Cardinality(r.mail)]
    /\ UNCHANGED <<inbox, codes, issued, call, watch, refused, late, answers, sends>>

Served == NextRequest \notin requests

\* The answer to the request, of which the call keeps the file's id, or that
\* the agent is told.
Response ==
    /\ InSend("await") /\ Served
    /\ \/ /\ NextRequest.mail = {}
          /\ call' = [call EXCEPT !.step = "upload", !.ids = @ \cup NextRequest.file]
          /\ UNCHANGED answers
       \/ NextRequest.mail # {} /\ Tell("sent")
    /\ UNCHANGED <<inbox, codes, issued, watch, refused, posts, late, requests, files, mails, sends>>

\* Mutant of GiveUp: a failed upload leaves the attachment out.
GiveUpOnFile ==
    /\ InSend("await")
    /\ IF NextRequest.mail = {}
       THEN call' = [call EXCEPT !.step = "upload", !.want = @ - 1] /\ UNCHANGED answers
       ELSE Tell("unknown")
    /\ UNCHANGED <<inbox, codes, issued, watch, refused, posts, late, requests, files, mails, sends>>

\* 30 seconds without an answer, a broken connection or an error status: the
\* call ends, whether the server has served the request, will, or will not.
GiveUp ==
    /\ InSend("await")
    /\ Tell(IF NextRequest.mail = {} THEN "failed" ELSE "unknown")
    /\ UNCHANGED <<inbox, codes, issued, watch, refused, posts, late, requests, files, mails, sends>>

-----------------------------------------------------------------------------
SendInit ==
    /\ Init
    /\ requests = {} /\ files = {} /\ mails = {} /\ answers = {} /\ sends = <<>>

SendNext ==
    \/ Next /\ UNCHANGED outgoing
    \/ \E k \in 0 .. MaxAttached + 1 : StartSend(k)
    \/ Inline \/ Request \/ Response \/ GiveUp
    \/ \E r \in requests : Serve(r)

SendSpec == SendInit /\ [][SendNext]_<<vars, outgoing>>

-----------------------------------------------------------------------------
(* Properties.                                                             *)

\* "A mid-way failure sends nothing": whatever requests are lost, late or
\* given up on, and wherever the gateway dies, a send delivers no mail or one
\* with all its attachments, which are on the server; a send that the agent
\* was told had failed before the mail was posted never delivers one; and one
\* that it was told was sent has delivered one.
SendWhole ==
    /\ \A m, o \in mails : m.n = o.n => m = o
    /\ \A m \in mails : m.files \subseteq files /\ m.files = Attachments(m.n, sends[m.n])
    /\ \A a \in answers :
          /\ a.result = "failed" => \A m \in mails : m.n # a.n
          /\ a.result = "sent" => \E m \in mails : m.n = a.n

\* tools.go: "a bad attachment never burns the access-code budget": a call
\* that fails for its inline files gives back what it spent.
BadFileSpendsNothing ==
    [][InSend("inline") /\ call' = NoCall /\ codes'[call.code] # NoCode =>
          codes'[call.code].used < codes[call.code].used]_<<vars, outgoing>>

=============================================================================
