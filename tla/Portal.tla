------------------------------- MODULE Portal -------------------------------
(***************************************************************************)
(* What the server shows to anyone: the directory of the accounts that     *)
(* opted in and the showcase of public mail, with the requests that change *)
(* them (handleProfileSelf, handleSend, handleRegister and                 *)
(* handleRegisterTeam of internal/server/handlers_api.go,                  *)
(* handleRegisterSubordinate of handlers_subs.go, over store/account.go    *)
(* and store/showcase.go) and the admin who switches, disables and removes *)
(* meanwhile (handlers_admin.go).                                          *)
(*                                                                         *)
(* Every transaction of a request is one action: what a request read is    *)
(* old when it writes, and a crash may come in between.  Delivery itself   *)
(* is the business of module MailStore; here a send works or does not.     *)
(***************************************************************************)
EXTENDS Settings

CONSTANTS
    Account,
    Registered,     \* the accounts that exist at first
    Worker,         \* requests that run at a time
    Signature,
    Preference,     \* the keys of the whitelist
    ProfilePost,    \* bodies of POST /api/profile/self
    ShowcaseCap,
    MaxRequests,    \* bound on the requests of one execution
    MaxIds,         \* bound on the ids of one millisecond
    MaxTime,        \* bound on the milliseconds an execution takes
    Keep,           \* a field the body omits
    Unknown,        \* preferences the whitelist does not have
    Idle            \* no request

\* The fields of an account that this module is about.
Profile == [visible : BOOLEAN, signature : Signature, prefs : SUBSET Preference, disabled : BOOLEAN]

\* An omitted field of a body is nil, and a preference is turned on or off.
ProfileBody == [visible : BOOLEAN \cup {Keep}, signature : Signature \cup {Keep},
                prefs : (UNION {[S -> BOOLEAN] : S \in SUBSET Preference}) \cup {Keep, Unknown}]

\* What a request holds between its transactions.
Read == [step : {"read"}, account : Account, body : ProfilePost]
Save == [step : {"permit", "update", "prefs"}, account : Account, body : ProfilePost,
         listed : BOOLEAN, visible : BOOLEAN, signature : Signature]
Mail == [step : {"send", "tee"}, mail : Nat, public : BOOLEAN]
Copy == [step : {"put"}, mail : Nat, id : Nat]
Register == [step : {"registration", "random", "create"}, account : Account, chose : BOOLEAN]
Found == [step : {"provision", "team"}, account : Account]

Running == Read \cup Save \cup Mail \cup Copy \cup Register \cup Found

ASSUME PortalAssumption ==
    /\ {"registration", "random_register", "directory_listed"} \subseteq SwitchKey
    /\ Registered \subseteq Account /\ ShowcaseCap \in Nat \ {0}
    /\ MaxRequests \in Nat /\ MaxIds \in Nat /\ MaxTime \in Nat
    /\ "" \in Signature /\ ProfilePost \subseteq ProfileBody
    /\ Keep \notin BOOLEAN /\ Keep \notin Signature /\ Idle \notin Running

VARIABLES
    accounts,       \* the accounts bucket: existing account -> record
    requests,       \* worker -> the request it runs
    made,           \* requests made
    clock,          \* milliseconds
    showcase,       \* the showcase bucket: public copies
    sent,           \* history: mails that were delivered and asked to be public
    shown,          \* history: all public copies that were stored
    removed,        \* history: those the admin removed
    during          \* history: worker -> what was so while its request ran

history == <<sent, shown, removed>>
vars == <<settingsVars, accounts, requests, made, clock, showcase, history, during>>

NewAccount == [visible |-> FALSE, signature |-> "", prefs |-> {}, disabled |-> FALSE]

On(switch) == InForce(meta, switch)

Goto(w, step) == requests' = [requests EXCEPT ![w].step = step]
Answer(w) == requests' = [requests EXCEPT ![w] = Idle]

At(w, step) == requests[w] # Idle /\ requests[w].step = step

-----------------------------------------------------------------------------
(* Requests.                                                               *)

Receive(w, request) ==
    /\ requests[w] = Idle /\ made < MaxRequests
    /\ requests' = [requests EXCEPT ![w] = request]
    /\ made' = made + 1
    /\ UNCHANGED <<accounts, clock, showcase, history, settingsVars>>

\* requireAccount: an existing account that is not disabled.
Authenticated(a) == a \in DOMAIN accounts /\ ~accounts[a].disabled

PostProfile(w, a, body) ==
    /\ Authenticated(a)
    /\ Receive(w, [step |-> "read", account |-> a, body |-> body])

\* What is saved of an omitted field is what was read here.
ReadProfile(w) ==
    /\ At(w, "read")
    /\ LET r == requests[w] cur == accounts[r.account] IN
       requests' = [requests EXCEPT ![w] =
           [step |-> IF r.body.visible = TRUE THEN "permit" ELSE "update",
            account |-> r.account, body |-> r.body, listed |-> cur.visible,
            visible |-> IF r.body.visible = Keep THEN cur.visible ELSE r.body.visible,
            signature |-> IF r.body.signature = Keep THEN cur.signature ELSE r.body.signature]]
    /\ UNCHANGED <<accounts, made, clock, showcase, history, settingsVars>>

\* Mutant of PermitListing: the switch is for accounts that are listed.
PermitRelisting(w) ==
    /\ At(w, "permit")
    /\ IF On("directory_listed") \/ ~requests[w].listed THEN Goto(w, "update") ELSE Answer(w)
    /\ UNCHANGED <<accounts, made, clock, showcase, history, settingsVars>>

\* Only opting in is refused while the switch is off.
PermitListing(w) ==
    /\ At(w, "permit")
    /\ IF On("directory_listed") \/ requests[w].listed THEN Goto(w, "update") ELSE Answer(w)
    /\ UNCHANGED <<accounts, made, clock, showcase, history, settingsVars>>

\* Mutant of UpdateProfile: a listed account is an enabled one.
UpdateProfileEnabling(w) ==
    /\ At(w, "update")
    /\ LET r == requests[w] IN
       accounts' = [accounts EXCEPT ![r.account] =
                       [@ EXCEPT !.visible = r.visible, !.signature = r.signature,
                                 !.disabled = @ /\ ~r.visible]]
    /\ IF requests[w].body.prefs = Keep THEN Answer(w) ELSE Goto(w, "prefs")
    /\ UNCHANGED <<made, clock, showcase, history, settingsVars>>

\* The record is read again, and only these two fields of it change.
UpdateProfile(w) ==
    /\ At(w, "update")
    /\ LET r == requests[w] IN
       accounts' = [accounts EXCEPT ![r.account] =
                       [@ EXCEPT !.visible = r.visible, !.signature = r.signature]]
    /\ IF requests[w].body.prefs = Keep THEN Answer(w) ELSE Goto(w, "prefs")
    /\ UNCHANGED <<made, clock, showcase, history, settingsVars>>

\* An unknown key refuses the request, whose profile is saved already.
UpdatePrefs(w) ==
    /\ At(w, "prefs")
    /\ LET r == requests[w] new == r.body.prefs IN
       accounts' = IF new = Unknown THEN accounts
                   ELSE [accounts EXCEPT ![r.account].prefs =
                            (@ \cup {k \in DOMAIN new : new[k]}) \ {k \in DOMAIN new : ~new[k]}]
    /\ Answer(w)
    /\ UNCHANGED <<made, clock, showcase, history, settingsVars>>

PostSend(w, a, public) ==
    /\ Authenticated(a)
    /\ Receive(w, [step |-> "send", mail |-> made, public |-> public])

\* Mutant of Send: a public mail is shown whether it was delivered or not.
SendRegardless(w) ==
    /\ At(w, "send")
    /\ \E ok \in BOOLEAN :
          /\ sent' = IF ok /\ requests[w].public THEN sent \cup {requests[w].mail} ELSE sent
          /\ IF requests[w].public THEN Goto(w, "tee") ELSE Answer(w)
    /\ UNCHANGED <<accounts, made, clock, showcase, shown, removed, settingsVars>>

\* Store.Send, and what follows: a public mail that was delivered is shown,
\* another one or an error ends the request.
Send(w) ==
    /\ At(w, "send")
    /\ \/ requests[w].public /\ Goto(w, "tee") /\ sent' = sent \cup {requests[w].mail}
       \/ Answer(w) /\ UNCHANGED sent
    /\ UNCHANGED <<accounts, made, clock, showcase, shown, removed, settingsVars>>

\* Ids sort by their millisecond, and in any order within it.
NewIds ==
    LET taken == {e.id : e \in shown} \cup {requests[w].id : w \in {v \in Worker : At(v, "put")}}
    IN  {id \in clock * MaxIds .. (clock + 1) * MaxIds - 1 : id \notin taken}

\* TeeShowcase takes the id of the copy before its transaction.
TakeId(w) ==
    /\ At(w, "tee")
    /\ \E id \in NewIds :
          requests' = [requests EXCEPT ![w] = [step |-> "put", mail |-> requests[w].mail, id |-> id]]
    /\ UNCHANGED <<accounts, made, clock, showcase, history, settingsVars>>

Newer(entries, e) == {f \in entries : f.id > e.id}

\* Of the copies and the new one, the oldest beyond the cap go.
TeeShowcase(w) ==
    /\ At(w, "put")
    /\ LET entry == [id |-> requests[w].id, mail |-> requests[w].mail]
           all == showcase \cup {entry} IN
       /\ showcase' = {e \in all : Cardinality(Newer(all, e)) < ShowcaseCap}
       /\ shown' = shown \cup {entry}
    /\ Answer(w)
    /\ UNCHANGED <<accounts, made, clock, sent, removed, settingsVars>>

PostRegister(w, a, choosesPassword) ==
    Receive(w, [step |-> "registration", account |-> a, chose |-> choosesPassword])

\* The first transaction asks whether registration is on ...
AllowRegistration(w) ==
    /\ At(w, "registration")
    /\ IF ~On("registration") THEN Answer(w)
       ELSE Goto(w, IF requests[w].chose THEN "create" ELSE "random")
    /\ UNCHANGED <<accounts, made, clock, showcase, history, settingsVars>>

\* ... another one whether a password may be left out ...
AllowRandom(w) ==
    /\ At(w, "random")
    /\ IF On("random_register") THEN Goto(w, "create") ELSE Answer(w)
    /\ UNCHANGED <<accounts, made, clock, showcase, history, settingsVars>>

\* The accounts with those of new that there are not yet.
With(new) ==
    [a \in DOMAIN accounts \cup new |-> IF a \in DOMAIN accounts THEN accounts[a] ELSE NewAccount]

\* ... and the last one creates the account unless there is one.
CreateAccount(w) ==
    /\ At(w, "create")
    /\ accounts' = With({requests[w].account})
    /\ Answer(w)
    /\ UNCHANGED <<made, clock, showcase, history, settingsVars>>

\* Neither of the other two registrations asks for a switch.
PostSubordinate(w, superior) ==
    /\ Authenticated(superior)
    /\ Receive(w, [step |-> "provision", account |-> superior])

\* The name in the body, or one that is drawn until it is free, if any is; the
\* edge that a further transaction writes is not part of this module.
RegisterSubordinate(w) ==
    /\ At(w, "provision")
    /\ UNCHANGED accounts \/ \E a \in Account : accounts' = With({a})
    /\ Answer(w)
    /\ UNCHANGED <<made, clock, showcase, history, settingsVars>>

PostTeam(w, owner) == Receive(w, [step |-> "team", account |-> owner])

\* Owner and members come into being together, a member under a name that is
\* free; or nobody does, if the owner's is taken or none is left for a member.
RegisterTeam(w) ==
    LET owner == requests[w].account
        free == Account \ (DOMAIN accounts \cup {owner}) IN
    /\ At(w, "team")
    /\ \/ UNCHANGED accounts
       \/ /\ owner \notin DOMAIN accounts
          /\ \E members \in (SUBSET free) \ {{}} : accounts' = With({owner} \cup members)
    /\ Answer(w)
    /\ UNCHANGED <<made, clock, showcase, history, settingsVars>>

-----------------------------------------------------------------------------
(* The admin, time and the end of the process.                             *)

ByAdmin == posts < MaxPosts /\ posts' = posts + 1 /\ UNCHANGED <<meta, post>>

SetAccountDisabled(a, disabled) ==
    /\ a \in DOMAIN accounts /\ ByAdmin
    /\ accounts' = [accounts EXCEPT ![a].disabled = disabled]
    /\ UNCHANGED <<requests, made, clock, showcase, history>>

RemoveCopies(entries) ==
    /\ ByAdmin
    /\ showcase' = showcase \ entries
    /\ removed' = removed \cup entries
    /\ UNCHANGED <<accounts, requests, made, clock, sent, shown>>

ClearShowcase == RemoveCopies(showcase)

DeleteShowcaseEntry(e) == e \in showcase /\ RemoveCopies({e})

Switch == NextSettings /\ UNCHANGED <<accounts, requests, made, clock, showcase, history>>

Pass ==
    /\ clock < MaxTime /\ clock' = clock + 1
    /\ UNCHANGED <<accounts, requests, made, showcase, history, settingsVars>>

\* Whatever was going on is gone; the buckets stay.
Crash ==
    /\ requests' = [w \in Worker |-> Idle]
    /\ UNCHANGED <<accounts, made, clock, showcase, history, settingsVars>>

-----------------------------------------------------------------------------
Init ==
    /\ InitSettings
    /\ accounts = [a \in Registered |-> NewAccount]
    /\ requests = [w \in Worker |-> Idle]
    /\ made = 0 /\ clock = 0
    /\ showcase = {} /\ sent = {} /\ shown = {} /\ removed = {}
    /\ during = [w \in Worker |-> [listed |-> FALSE, on |-> {}]]

Request(w) ==
    \/ \E a \in Account, body \in ProfilePost : PostProfile(w, a, body)
    \/ ReadProfile(w) \/ PermitListing(w) \/ UpdateProfile(w) \/ UpdatePrefs(w)
    \/ \E a \in Account, public \in BOOLEAN : PostSend(w, a, public)
    \/ Send(w) \/ TakeId(w) \/ TeeShowcase(w)
    \/ \E a \in Account, choosesPassword \in BOOLEAN : PostRegister(w, a, choosesPassword)
    \/ AllowRegistration(w) \/ AllowRandom(w) \/ CreateAccount(w)
    \/ \E a \in Account : PostSubordinate(w, a) \/ PostTeam(w, a)
    \/ RegisterSubordinate(w) \/ RegisterTeam(w)

Admin ==
    \/ \E a \in Account, disabled \in BOOLEAN : SetAccountDisabled(a, disabled)
    \/ ClearShowcase
    \/ \E e \in showcase : DeleteShowcaseEntry(e)
    \/ Switch

\* What holds at some time from the start of a request to its end, of the
\* account and the switches it is about.
Remember ==
    LET concerns(w) == requests'[w] \in Read \cup Save \cup Register \cup Found
        listed(w) == LET a == requests'[w].account IN a \in DOMAIN accounts' /\ accounts'[a].visible
        asked(w) == IF requests'[w] \in Read \cup Save THEN {"directory_listed"}
                    ELSE {"registration", "random_register"}
        on(w) == {s \in asked(w) : InForce(meta', s)}
    IN  during' = [w \in Worker |->
                      IF ~concerns(w) THEN [listed |-> FALSE, on |-> {}]
                      ELSE [listed |-> during[w].listed \/ listed(w), on |-> during[w].on \cup on(w)]]

Next == ((\E w \in Worker : Request(w)) \/ Admin \/ Pass \/ Crash) /\ Remember

Spec == Init /\ [][Next]_vars

-----------------------------------------------------------------------------
(* Properties.                                                             *)

TypeOK ==
    /\ DOMAIN accounts \subseteq Account /\ accounts \in [DOMAIN accounts -> Profile]
    /\ requests \in [Worker -> Running \cup {Idle}]
    /\ made \in 0 .. MaxRequests /\ clock \in 0 .. MaxTime
    /\ showcase \subseteq shown /\ shown \subseteq [id : Nat, mail : Nat]
    /\ sent \subseteq Nat
    /\ during \in [Worker -> [listed : BOOLEAN, on : SUBSET SwitchKey]]

\* ListVisibleAccounts, which answers query=directory.
Directory == {a \in DOMAIN accounts : accounts[a].visible /\ ~accounts[a].disabled}

Finishes(w) == requests[w] # Idle /\ requests'[w] # requests[w]

\* What needs a permission happens only if the permission was there at some
\* time in the course of the request.  An account comes into the directory by
\* the admin enabling it again, or by a save of its profile while it had been
\* listed, or while it asked for it and the switch was on.  An account comes
\* into being alone by handleRegister, if registration was on and, without a
\* password, the retired path was on too; or alone as a subordinate of an
\* account that there was already; or with a team, whose owner is new and is
\* joined by a member.  The last two ask for no switch: see
\* RegistrationAllowed.
PermittedInCourse ==
    [][/\ \A a \in Directory' \ Directory :
             \/ a \in DOMAIN accounts /\ accounts[a].visible
             \/ \E w \in Worker :
                   /\ Finishes(w) /\ At(w, "update") /\ requests[w].account = a
                   /\ \/ during[w].listed
                      \/ requests[w].body.visible = TRUE /\ "directory_listed" \in during[w].on
       /\ LET new == DOMAIN accounts' \ DOMAIN accounts IN
          new # {} =>
             \E w \in Worker :
                /\ Finishes(w)
                /\ \/ /\ At(w, "create") /\ new = {requests[w].account}
                      /\ "registration" \in during[w].on
                      /\ requests[w].chose \/ "random_register" \in during[w].on
                   \/ /\ At(w, "provision") /\ Cardinality(new) = 1
                      /\ requests[w].account \in DOMAIN accounts
                   \/ /\ At(w, "team") /\ new # {requests[w].account}
                      /\ requests[w].account \in new]_vars

\* Profile, preferences and the disabled flag share a record and have writers
\* of their own: a step changes the fields of one writer only, and no request
\* of an account changes whether an account is disabled.
FieldsApart ==
    [][\A a \in DOMAIN accounts :
          LET changed == {f \in {"visible", "signature", "prefs", "disabled"} :
                             accounts'[a][f] # accounts[a][f]}
          IN  /\ changed \subseteq {"visible", "signature"} \/ Cardinality(changed) <= 1
              /\ "disabled" \in changed => UNCHANGED requests]_vars

\* The showcase keeps within its cap and loses a copy only to the admin or to
\* as many newer ones as it has room for; each copy is of a mail that was
\* delivered and that its sender wanted public, and no mail has two.
ShowcaseFaithful ==
    /\ Cardinality(showcase) <= ShowcaseCap
    /\ \A e \in shown \ (showcase \cup removed) : Cardinality(Newer(shown, e)) >= ShowcaseCap
    /\ \A e \in showcase : e.mail \in sent
    /\ \A e, f \in showcase : e.mail = f.mail => e = f

\* store.go: "whether public account registration is allowed": what anyone may
\* ask for without an account creates none unless registration was on at some
\* time in the course of the request.
RegistrationAllowed ==
    [][DOMAIN accounts' # DOMAIN accounts =>
          \E w \in Worker :
             Finishes(w) /\ (At(w, "provision") \/ "registration" \in during[w].on)]_vars

\* handlers_admin.go: "no new false->true transitions are allowed" while the
\* switch is off.
SwitchFinal ==
    [][~On("directory_listed") =>
          \A a \in DOMAIN accounts : accounts'[a].visible => accounts[a].visible]_vars

\* handlers_api.go: "nil = keep current (omitting must NOT reset)": a save
\* changes no field that its body omits.
OmittedKept ==
    [][\A w \in Worker :
          At(w, "update") /\ Finishes(w) =>
              LET r == requests[w] IN
              /\ r.body.visible = Keep => accounts'[r.account].visible = accounts[r.account].visible
              /\ r.body.signature = Keep =>
                    accounts'[r.account].signature = accounts[r.account].signature]_vars

=============================================================================
