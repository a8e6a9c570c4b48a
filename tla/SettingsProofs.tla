--------------------------- MODULE SettingsProofs ---------------------------
(***************************************************************************)
(* TLAPS proofs about the users of the settings: the directory,            *)
(* registration and the showcase, module Portal, and the rate limiters,    *)
(* module RateLimits, for any accounts, clients, requests at a time,       *)
(* switches, limits and bodies.                                            *)
(***************************************************************************)
EXTENDS Portal, RateLimits, NumberSets

-----------------------------------------------------------------------------
(* The invariant.                                                          *)

\* What a request that asked for something knows is so, or was in its course.
CourseOf(w) ==
    /\ requests[w] \in Read \cup Save => requests[w].account \in DOMAIN accounts
    /\ At(w, "permit") =>
          /\ requests[w].body.visible = TRUE
          /\ requests[w].listed => during[w].listed
    /\ At(w, "update") /\ requests[w].visible =>
          \/ during[w].listed
          \/ requests[w].body.visible = TRUE /\ "directory_listed" \in during[w].on
    /\ At(w, "prefs") => requests[w].body.prefs # Keep
    /\ At(w, "random") \/ At(w, "create") => "registration" \in during[w].on
    /\ At(w, "create") => requests[w].chose \/ "random_register" \in during[w].on
    /\ At(w, "provision") => requests[w].account \in DOMAIN accounts

InCourse == \A w \in Worker : CourseOf(w)

Mailing(w) == requests[w] \in Mail \cup Copy

\* Numbers of mails and ids of copies are used once.
Unique ==
    /\ \A e \in shown : e.mail < made
    /\ \A e, f \in shown : e.mail = f.mail \/ e.id = f.id => e = f
    /\ \A w \in Worker : Mailing(w) =>
          /\ requests[w].mail < made
          /\ \A e \in shown : e.mail # requests[w].mail
          /\ \A v \in Worker : Mailing(v) /\ requests[v].mail = requests[w].mail => v = w
    /\ \A w \in Worker : At(w, "put") =>
          /\ \A e \in shown : e.id # requests[w].id
          /\ \A v \in Worker : At(v, "put") /\ requests[v].id = requests[w].id => v = w

\* Only what was delivered is copied.
Wanted ==
    /\ \A w \in Worker : At(w, "tee") \/ At(w, "put") =>
          requests[w].mail \in sent
    /\ \A e \in shown : e.mail \in sent

Capped ==
    /\ IsFiniteSet(shown)
    /\ Cardinality(showcase) <= ShowcaseCap
    /\ \A e \in shown \ (showcase \cup removed) : Cardinality(Newer(shown, e)) >= ShowcaseCap

PortalInv == TypeOK /\ InCourse /\ Unique /\ Wanted /\ Capped

-----------------------------------------------------------------------------
(* Requests and records.                                                   *)

LEMMA BoundsTyped == MaxRequests \in Nat /\ MaxIds \in Nat /\ MaxTime \in Nat /\ ShowcaseCap \in Nat
  BY PortalAssumption

\* The step of a request tells of which kind it is.
LEMMA StepIs ==
    ASSUME NEW r \in Running
    PROVE  /\ r # Idle
           /\ r.step = "read" => r \in Read
           /\ r.step \in {"permit", "update", "prefs"} => r \in Save
           /\ r.step \in {"send", "tee"} => r \in Mail
           /\ r.step = "put" => r \in Copy
           /\ r.step \in {"registration", "random", "create"} => r \in Register
           /\ r.step \in {"provision", "team"} => r \in Found
  BY PortalAssumption DEF Running, Read, Save, Mail, Copy, Register, Found

\* The kinds have no request in common.
LEMMA KindsApart ==
    /\ \A r \in Read : r.step = "read"
    /\ \A r \in Save : r.step \in {"permit", "update", "prefs"}
    /\ \A r \in Mail : r.step \in {"send", "tee"}
    /\ \A r \in Copy : r.step = "put"
    /\ \A r \in Register : r.step \in {"registration", "random", "create"}
    /\ \A r \in Found : r.step \in {"provision", "team"}
    /\ Idle \notin Running
  BY PortalAssumption DEF Read, Save, Mail, Copy, Register, Found

\* Who is at a step is of its kind.
LEMMA AtIs ==
    ASSUME TypeOK, NEW w \in Worker
    PROVE  /\ At(w, "read") => requests[w] \in Read
           /\ At(w, "permit") \/ At(w, "update") \/ At(w, "prefs") => requests[w] \in Save
           /\ At(w, "send") \/ At(w, "tee") => requests[w] \in Mail
           /\ At(w, "put") => requests[w] \in Copy
           /\ At(w, "registration") \/ At(w, "random") \/ At(w, "create") => requests[w] \in Register
           /\ At(w, "provision") \/ At(w, "team") => requests[w] \in Found
  <1>1. At(w, requests[w].step) => requests[w] \in Running
    BY DEF TypeOK, At
  <1>2. QED
    BY <1>1, StepIs DEF At

LEMMA SaveWith ==
    ASSUME NEW r \in Save, NEW step \in {"permit", "update", "prefs"}
    PROVE  LET new == [r EXCEPT !.step = step] IN
           /\ new \in Save /\ new.step = step
           /\ new.account = r.account /\ new.body = r.body /\ new.listed = r.listed
           /\ new.visible = r.visible /\ new.signature = r.signature
  BY DEF Save

LEMMA MailWith ==
    ASSUME NEW r \in Mail, NEW step \in {"send", "tee"}
    PROVE  LET new == [r EXCEPT !.step = step] IN
           new \in Mail /\ new.step = step /\ new.mail = r.mail /\ new.public = r.public
  BY DEF Mail

LEMMA RegisterWith ==
    ASSUME NEW r \in Register, NEW step \in {"registration", "random", "create"}
    PROVE  LET new == [r EXCEPT !.step = step] IN
           new \in Register /\ new.step = step /\ new.account = r.account /\ new.chose = r.chose
  BY DEF Register

LEMMA PrefsWith ==
    ASSUME NEW p \in Profile, NEW prefs \in SUBSET Preference
    PROVE  LET new == [p EXCEPT !.prefs = prefs] IN
           /\ new \in Profile /\ new.visible = p.visible /\ new.signature = p.signature
           /\ new.prefs = prefs /\ new.disabled = p.disabled
  BY DEF Profile

LEMMA DisabledWith ==
    ASSUME NEW p \in Profile, NEW d \in BOOLEAN
    PROVE  LET new == [p EXCEPT !.disabled = d] IN
           /\ new \in Profile /\ new.visible = p.visible /\ new.signature = p.signature
           /\ new.prefs = p.prefs /\ new.disabled = d
  BY DEF Profile

LEMMA NewAccountIs ==
    /\ NewAccount \in Profile /\ ~NewAccount.visible
  BY PortalAssumption DEF NewAccount, Profile

\* A step of the request of w leaves new of it, and the others alone.
Turns(w, new) == requests' = [requests EXCEPT ![w] = new]

LEMMA TurnsIs ==
    ASSUME TypeOK, NEW w \in Worker, NEW new \in Running \cup {Idle}, Turns(w, new)
    PROVE  /\ requests' \in [Worker -> Running \cup {Idle}]
           /\ requests'[w] = new
           /\ \A v \in Worker : v # w => requests'[v] = requests[v]
  BY DEF Turns, TypeOK

\* The requests whose course is remembered.
Concerned == Read \cup Save \cup Register \cup Found

\* What is remembered of it.
LEMMA DuringIs ==
    ASSUME TypeOK, Remember, NEW w \in Worker
    PROVE  /\ during'[w] \in [listed : BOOLEAN, on : SUBSET SwitchKey]
           /\ requests'[w] \in Concerned =>
                 /\ during[w].listed => during'[w].listed
                 /\ requests'[w].account \in DOMAIN accounts' /\ accounts'[requests'[w].account].visible
                       => during'[w].listed
                 /\ during[w].on \subseteq during'[w].on
           /\ requests'[w] \in Save /\ InForce(meta', "directory_listed") =>
                 "directory_listed" \in during'[w].on
           /\ requests'[w] \in Register =>
                 \A s \in {"registration", "random_register"} :
                     InForce(meta', s) => s \in during'[w].on
  <1> DEFINE r == requests'[w]
             concerns == r \in Concerned
             listed == r.account \in DOMAIN accounts' /\ accounts'[r.account].visible
             asked == IF r \in Read \cup Save THEN {"directory_listed"} ELSE {"registration", "random_register"}
             on == {s \in asked : InForce(meta', s)}
  <1>1. during'[w] = IF ~concerns THEN [listed |-> FALSE, on |-> {}]
                     ELSE [listed |-> during[w].listed \/ listed, on |-> during[w].on \cup on]
    BY DEF Remember, Concerned
  <1>2. /\ r \in Save => concerns /\ asked = {"directory_listed"}
        /\ r \in Register => concerns /\ asked = {"registration", "random_register"}
    BY KindsApart DEF Concerned
  <1>3. during[w] \in [listed : BOOLEAN, on : SUBSET SwitchKey]
    BY DEF TypeOK
  <1>4. on \in SUBSET SwitchKey /\ \A s \in asked : InForce(meta', s) => s \in on
    BY PortalAssumption
  <1> DEFINE flag == during[w].listed \/ listed
  <1>5. flag \in BOOLEAN /\ (during[w].listed => flag) /\ (listed => flag)
    OBVIOUS
  <1>6. during'[w] = IF ~concerns THEN [listed |-> FALSE, on |-> {}]
                     ELSE [listed |-> flag, on |-> during[w].on \cup on]
    BY <1>1
  <1> HIDE DEF on, asked, concerns, listed, flag
  <1>7. /\ during'[w] \in [listed : BOOLEAN, on : SUBSET SwitchKey]
        /\ concerns => (flag => during'[w].listed) /\ during'[w].on = during[w].on \cup on
    <2> DEFINE both == during[w].on \cup on
    <2>1. both \in SUBSET SwitchKey
      BY <1>3, <1>4
    <2>2. concerns => during'[w] = [listed |-> flag, on |-> both]
      BY <1>6
    <2>3. ~concerns => during'[w] = [listed |-> FALSE, on |-> {}]
      BY <1>6
    <2> HIDE DEF both
    <2>4. CASE concerns
      BY <1>5, <2>1, <2>2, <2>4 DEF both
    <2>5. CASE ~concerns
      <3>1. during'[w] = [listed |-> FALSE, on |-> {}]
        BY <2>3, <2>5
      <3>2. QED
        BY <2>5, <3>1
    <2>6. QED
      BY <2>4, <2>5
  <1>8. concerns =>
            /\ during[w].listed => during'[w].listed
            /\ listed => during'[w].listed
            /\ during[w].on \subseteq during'[w].on
            /\ \A s \in asked : InForce(meta', s) => s \in during'[w].on
    BY <1>4, <1>5, <1>7
  <1>9. /\ r \in Save /\ InForce(meta', "directory_listed") => "directory_listed" \in during'[w].on
        /\ r \in Register => \A s \in {"registration", "random_register"} :
                                  InForce(meta', s) => s \in during'[w].on
    BY <1>2, <1>8
  <1>10. QED
    BY <1>7, <1>8, <1>9 DEF concerns, listed

LEMMA DuringTyped ==
    ASSUME TypeOK, Remember
    PROVE  during' \in [Worker -> [listed : BOOLEAN, on : SUBSET SwitchKey]]
  <1>1. \A w \in Worker : during'[w] \in [listed : BOOLEAN, on : SUBSET SwitchKey]
    BY DuringIs
  <1>2. during' = [w \in Worker |-> during'[w]]
    BY DEF Remember
  <1>3. QED
    BY <1>1, <1>2

-----------------------------------------------------------------------------
(* What a step keeps.                                                      *)

\* Of the course of a request that does not move.
LEMMA CourseKept ==
    ASSUME TypeOK, InCourse, Remember, NEW v \in Worker, requests'[v] = requests[v],
           DOMAIN accounts \subseteq DOMAIN accounts'
    PROVE  CourseOf(v)'
  <1>1. CourseOf(v)
    BY DEF InCourse
  <1>2. requests[v] \in Concerned =>
            (during[v].listed => during'[v].listed) /\ during[v].on \subseteq during'[v].on
    BY DuringIs
  <1>3. \A s : At(v, s)' <=> At(v, s)
    BY DEF At
  <1>4. QED
    BY <1>1, <1>2, <1>3, AtIs DEF CourseOf, Concerned

\* An idle request has no course, and neither has one that sends.
LEMMA CourseNone ==
    ASSUME NEW v \in Worker, requests'[v] \in Mail \cup Copy \cup {Idle}
    PROVE  CourseOf(v)'
  BY KindsApart DEF CourseOf, At, Running

Public == Unique /\ Wanted /\ Capped

\* Of the showcase, if no request for it moves.
LEMMA PublicKept ==
    ASSUME TypeOK, Public, requests' \in [Worker -> Running \cup {Idle}],
           UNCHANGED <<shown, showcase, removed, sent>>, made' \in Nat, made <= made',
           \A v \in Worker : requests'[v] \in Mail \cup Copy => requests'[v] = requests[v]
    PROVE  Public'
  <1>1. \A v \in Worker : Mailing(v)' => Mailing(v) /\ requests'[v] = requests[v]
    BY DEF Mailing
  <1>2. \A v \in Worker : At(v, "tee")' \/ At(v, "put")' => Mailing(v)' /\ requests'[v] = requests[v]
    BY StepIs DEF At, Mailing
  <1>3. \A v \in Worker : (At(v, "tee")' => At(v, "tee")) /\ (At(v, "put")' => At(v, "put"))
    BY <1>2 DEF At
  <1>4. made \in Nat /\ \A e \in shown : e.mail \in Nat
    BY DEF TypeOK
  <1>5. \A v \in Worker : Mailing(v) => requests[v].mail \in Nat
    BY DEF Mailing, Mail, Copy
  <1>6. Unique'
    BY <1>1, <1>2, <1>3, <1>4, <1>5 DEF Public, Unique
  <1>7. Wanted'
    BY <1>2, <1>3 DEF Public, Wanted
  <1>8. Capped'
    BY DEF Public, Capped, Newer
  <1>9. QED
    BY <1>6, <1>7, <1>8 DEF Public

-----------------------------------------------------------------------------
(* The steps of a request that does not send.                              *)

\* Such a step, if it leaves the course of its request right.
LEMMA MoveKeeps ==
    ASSUME PortalInv, Remember, NEW w \in Worker,
           NEW new \in Concerned \cup {Idle}, Turns(w, new),
           DOMAIN accounts \subseteq DOMAIN accounts', DOMAIN accounts' \subseteq Account,
           accounts' \in [DOMAIN accounts' -> Profile],
           made' \in 0 .. MaxRequests, made <= made',
           UNCHANGED <<clock, showcase, sent, shown, removed>>,
           new # Idle => CourseOf(w)'
    PROVE  PortalInv'
  <1>1. TypeOK /\ InCourse /\ Public /\ new \in Running \cup {Idle}
    BY DEF PortalInv, Public, Running, Concerned
  <1>2. /\ requests' \in [Worker -> Running \cup {Idle}] /\ requests'[w] = new
        /\ \A v \in Worker : v # w => requests'[v] = requests[v]
    BY <1>1, TurnsIs
  <1>3. TypeOK'
    <2>1. during' \in [Worker -> [listed : BOOLEAN, on : SUBSET SwitchKey]]
      BY <1>1, DuringTyped
    <2>2. QED
      BY <1>1, <1>2, <2>1 DEF TypeOK
  <1>4. InCourse'
    <2>1. CourseOf(w)'
      BY <1>2, CourseNone
    <2>2. ASSUME NEW v \in Worker, v # w
          PROVE  CourseOf(v)'
      BY <1>1, <1>2, <2>2, CourseKept
    <2>3. QED
      BY <2>1, <2>2 DEF InCourse
  <1>5. Public'
    <2>1. new \notin Mail \cup Copy
      BY KindsApart DEF Running, Concerned
    <2>2. \A v \in Worker : requests'[v] \in Mail \cup Copy => requests'[v] = requests[v]
      BY <1>2, <2>1
    <2>3. made' \in Nat
      BY BoundsTyped
    <2>4. QED
      BY <1>1, <1>2, <2>2, <2>3, PublicKept
  <1>6. QED
    BY <1>3, <1>4, <1>5 DEF PortalInv, Public

\* The same where the accounts and the number of requests stay.
LEMMA QuietKeeps ==
    ASSUME PortalInv, Remember, NEW w \in Worker,
           NEW new \in Concerned \cup {Idle}, Turns(w, new),
           UNCHANGED <<accounts, made, clock, showcase, sent, shown, removed>>,
           new # Idle => CourseOf(w)'
    PROVE  PortalInv'
  <1>1. /\ DOMAIN accounts \subseteq Account /\ accounts \in [DOMAIN accounts -> Profile]
        /\ made \in 0 .. MaxRequests /\ made <= made
    BY BoundsTyped DEF PortalInv, TypeOK
  <1>2. QED
    BY <1>1, MoveKeeps

LEMMA PostProfileKeeps ==
    ASSUME PortalInv, Remember, NEW w \in Worker, NEW a \in Account, NEW body \in ProfilePost,
           PostProfile(w, a, body)
    PROVE  PortalInv'
  <1> DEFINE new == [step |-> "read", account |-> a, body |-> body]
  <1>1. /\ Turns(w, new) /\ a \in DOMAIN accounts /\ made < MaxRequests /\ made' = made + 1
        /\ UNCHANGED <<accounts, clock, showcase, sent, shown, removed>>
    BY DEF PostProfile, Receive, Turns, Authenticated, history
  <1>2. new \in Read /\ new.step = "read" /\ new.account = a
    BY DEF Read
  <1>3. made' \in 0 .. MaxRequests /\ made <= made'
    BY <1>1, BoundsTyped DEF PortalInv, TypeOK
  <1> HIDE DEF new
  <1>4. TypeOK /\ requests'[w] = new
    BY <1>1, <1>2, TurnsIs DEF PortalInv, Running
  <1>5. CourseOf(w)'
    BY <1>1, <1>2, <1>4 DEF CourseOf, At
  <1>6. DOMAIN accounts \subseteq Account /\ accounts \in [DOMAIN accounts -> Profile]
    BY <1>4 DEF TypeOK
  <1>7. QED
    BY <1>1, <1>2, <1>3, <1>5, <1>6, MoveKeeps DEF Concerned

LEMMA ReadProfileKeeps ==
    ASSUME PortalInv, Remember, NEW w \in Worker, ReadProfile(w)
    PROVE  PortalInv'
  <1> DEFINE r == requests[w]
             cur == accounts[r.account]
             next == IF r.body.visible = TRUE THEN "permit" ELSE "update"
             visible == IF r.body.visible = Keep THEN cur.visible ELSE r.body.visible
             signature == IF r.body.signature = Keep THEN cur.signature ELSE r.body.signature
             new == [step |-> next, account |-> r.account, body |-> r.body, listed |-> cur.visible,
                     visible |-> visible, signature |-> signature]
  <1>1. /\ TypeOK /\ At(w, "read") /\ Turns(w, new)
        /\ UNCHANGED <<accounts, made, clock, showcase, sent, shown, removed>>
    BY DEF PortalInv, ReadProfile, Turns, history
  <1>2. r \in Read
    BY <1>1, AtIs
  <1>3. r.account \in DOMAIN accounts /\ cur \in Profile
    BY <1>1, <1>2 DEF PortalInv, InCourse, CourseOf, TypeOK
  <1>4. r.body \in ProfileBody /\ r.body \in ProfilePost /\ r.account \in Account
    BY <1>2, PortalAssumption DEF Read
  <1>5. visible \in BOOLEAN /\ signature \in Signature /\ cur.visible \in BOOLEAN
    BY <1>3, <1>4 DEF ProfileBody, Profile
  <1>6. visible => r.body.visible = TRUE \/ cur.visible
    BY <1>4 DEF ProfileBody
  <1> DEFINE before == cur.visible
  <1>7. new \in Save /\ new.step = next /\ new.account = r.account /\ new.body = r.body
        /\ (new.listed => before) /\ (new.visible => visible)
    <2> HIDE DEF visible, signature, before
    <2>1. new = [step |-> next, account |-> r.account, body |-> r.body, listed |-> before,
                 visible |-> visible, signature |-> signature]
      BY DEF before
    <2>2. before \in BOOLEAN /\ visible \in BOOLEAN /\ signature \in Signature
      BY <1>5 DEF before
    <2>3. next \in {"permit", "update", "prefs"}
      OBVIOUS
    <2> HIDE DEF new, next
    <2>4. QED
      BY <1>4, <2>1, <2>2, <2>3 DEF Save
  <1> HIDE DEF new, visible
  <1>8. requests'[w] = new /\ new \in Running
    BY <1>1, <1>7, TurnsIs DEF Running
  <1>9. before => during'[w].listed
    BY <1>1, <1>3, <1>7, <1>8, DuringIs DEF Concerned
  <1>10. CourseOf(w)'
    BY <1>1, <1>3, <1>6, <1>7, <1>8, <1>9 DEF CourseOf, At
  <1>11. QED
    BY <1>1, <1>7, <1>10, QuietKeeps DEF Concerned

LEMMA PermitListingKeeps ==
    ASSUME PortalInv, Remember, NEW w \in Worker, PermitListing(w)
    PROVE  PortalInv'
  <1> DEFINE r == requests[w]
             new == [r EXCEPT !.step = "update"]
  <1>1. /\ TypeOK /\ At(w, "permit") /\ CourseOf(w)
        /\ UNCHANGED <<accounts, made, clock, showcase, sent, shown, removed, meta>>
    BY DEF PortalInv, PermitListing, history, InCourse, settingsVars
  <1>2. r \in Save
    BY <1>1, AtIs
  <1>3. CASE (On("directory_listed") \/ r.listed) /\ Turns(w, new)
    <2>1. new \in Save /\ new.step = "update" /\ new.account = r.account /\ new.body = r.body
          /\ new.visible = r.visible
      BY <1>2, SaveWith
    <2> HIDE DEF new
    <2>2. requests'[w] = new /\ new \in Running
      BY <1>1, <1>3, <2>1, TurnsIs DEF Running
    <2>3. /\ during[w].listed => during'[w].listed
          /\ InForce(meta', "directory_listed") => "directory_listed" \in during'[w].on
      BY <1>1, <2>1, <2>2, DuringIs DEF Concerned
    <2>4. r.body.visible = TRUE /\ (r.listed => during[w].listed) /\ r.account \in DOMAIN accounts
      BY <1>1, <1>2 DEF CourseOf
    <2>5. during'[w].listed \/ "directory_listed" \in during'[w].on
      BY <1>1, <1>3, <2>3, <2>4 DEF On
    <2>6. CourseOf(w)'
      BY <1>1, <2>1, <2>2, <2>4, <2>5 DEF CourseOf, At
    <2>7. QED
      BY <1>1, <1>3, <2>1, <2>6, QuietKeeps DEF Concerned
  <1>4. CASE Turns(w, Idle)
    BY <1>1, <1>4, QuietKeeps DEF Concerned
  <1>5. QED
    BY <1>3, <1>4 DEF PermitListing, Goto, Answer, Turns

\* What replaces one account.
LEMMA AccountsWith ==
    ASSUME TypeOK, NEW a \in DOMAIN accounts, NEW p \in Profile, accounts' = [accounts EXCEPT ![a] = p]
    PROVE  /\ DOMAIN accounts' = DOMAIN accounts /\ DOMAIN accounts \subseteq Account
           /\ accounts' \in [DOMAIN accounts' -> Profile]
           /\ accounts'[a] = p /\ \A b \in DOMAIN accounts : b # a => accounts'[b] = accounts[b]
  BY DEF TypeOK

LEMMA UpdateProfileIs ==
    ASSUME TypeOK, InCourse, NEW w \in Worker, UpdateProfile(w)
    PROVE  LET r == requests[w]
               a == r.account
           IN  /\ r \in Save /\ a \in DOMAIN accounts
               /\ DOMAIN accounts' = DOMAIN accounts /\ DOMAIN accounts \subseteq Account
               /\ accounts' \in [DOMAIN accounts' -> Profile]
               /\ \A b \in DOMAIN accounts : b # a => accounts'[b] = accounts[b]
               /\ accounts'[a].visible = r.visible
               /\ accounts'[a].prefs = accounts[a].prefs
               /\ accounts'[a].disabled = accounts[a].disabled
  <1> DEFINE r == requests[w]
             a == r.account
             old == accounts[a]
             v == r.visible
             s == r.signature
             p == [old EXCEPT !.visible = v, !.signature = s]
  <1>1. At(w, "update") /\ CourseOf(w)
    BY DEF UpdateProfile, InCourse
  <1>2. r \in Save
    BY <1>1, AtIs
  <1>3. a \in DOMAIN accounts /\ r.visible \in BOOLEAN /\ r.signature \in Signature
    BY <1>1, <1>2 DEF CourseOf, Save
  <1>4. old \in Profile
    BY <1>3 DEF TypeOK
  <1>5. p \in Profile /\ p.visible = v /\ p.prefs = old.prefs /\ p.disabled = old.disabled
    <2> HIDE DEF old, v, s
    <2>1. v \in BOOLEAN /\ s \in Signature
      BY <1>3 DEF v, s
    <2>2. QED
      BY <1>4, <2>1 DEF Profile
  <1>6. accounts' = [accounts EXCEPT ![a] = p]
    BY DEF UpdateProfile
  <1> HIDE DEF p
  <1>7. QED
    BY <1>2, <1>3, <1>5, <1>6, AccountsWith

LEMMA UpdateProfileKeeps ==
    ASSUME PortalInv, Remember, NEW w \in Worker, UpdateProfile(w)
    PROVE  PortalInv'
  <1> DEFINE r == requests[w]
             new == [r EXCEPT !.step = "prefs"]
  <1>1. /\ TypeOK /\ InCourse
        /\ UNCHANGED <<made, clock, showcase, sent, shown, removed>>
    BY DEF PortalInv, UpdateProfile, history
  <1>2. /\ r \in Save /\ r.account \in DOMAIN accounts
        /\ DOMAIN accounts \subseteq DOMAIN accounts' /\ DOMAIN accounts' \subseteq Account
        /\ accounts' \in [DOMAIN accounts' -> Profile]
    BY <1>1, UpdateProfileIs
  <1>3. made' \in 0 .. MaxRequests /\ made <= made'
    BY <1>1, BoundsTyped DEF TypeOK
  <1>4. CASE r.body.prefs # Keep /\ Turns(w, new)
    <2>1. new \in Save /\ new.step = "prefs" /\ new.account = r.account /\ new.body = r.body
      BY <1>2, SaveWith
    <2> HIDE DEF new
    <2>2. requests'[w] = new
      BY <1>1, <1>4, <2>1, TurnsIs DEF Running
    <2>3. CourseOf(w)'
      BY <1>2, <1>4, <2>1, <2>2 DEF CourseOf, At
    <2>4. QED
      BY <1>1, <1>2, <1>3, <1>4, <2>1, <2>3, MoveKeeps DEF Concerned
  <1>5. CASE Turns(w, Idle)
    BY <1>1, <1>2, <1>3, <1>5, MoveKeeps DEF Concerned
  <1>6. QED
    BY <1>4, <1>5 DEF UpdateProfile, Goto, Answer, Turns

LEMMA UpdatePrefsIs ==
    ASSUME TypeOK, InCourse, NEW w \in Worker, UpdatePrefs(w)
    PROVE  /\ DOMAIN accounts' = DOMAIN accounts /\ DOMAIN accounts \subseteq Account
           /\ accounts' \in [DOMAIN accounts' -> Profile]
           /\ \A b \in DOMAIN accounts :
                 /\ accounts'[b].visible = accounts[b].visible
                 /\ accounts'[b].signature = accounts[b].signature
                 /\ accounts'[b].disabled = accounts[b].disabled
  <1> DEFINE r == requests[w]
             a == r.account
             new == r.body.prefs
             prefs == (accounts[a].prefs \cup {k \in DOMAIN new : new[k]}) \ {k \in DOMAIN new : ~new[k]}
             p == [accounts[a] EXCEPT !.prefs = prefs]
  <1>1. At(w, "prefs") /\ CourseOf(w)
    BY DEF UpdatePrefs, InCourse
  <1>2. r \in Save
    BY <1>1, AtIs
  <1>3. a \in DOMAIN accounts /\ new # Keep /\ r.body \in ProfilePost
    BY <1>1, <1>2 DEF CourseOf, Save
  <1>4. accounts[a] \in Profile
    BY <1>3 DEF TypeOK
  <1>5. CASE new = Unknown
    <2>1. accounts' = accounts
      BY <1>5 DEF UpdatePrefs
    <2>2. QED
      BY <2>1 DEF TypeOK
  <1>6. CASE new # Unknown
    <2>1. r.body \in ProfileBody
      BY <1>3, PortalAssumption
    <2>2. DOMAIN new \subseteq Preference
      BY <1>3, <1>6, <2>1 DEF ProfileBody
    <2>3. prefs \in SUBSET Preference
      BY <1>4, <2>2 DEF Profile
    <2>4. /\ p \in Profile /\ p.visible = accounts[a].visible
          /\ p.signature = accounts[a].signature /\ p.disabled = accounts[a].disabled
      <3> HIDE DEF prefs
      <3>1. QED
        BY <1>4, <2>3, PrefsWith
    <2>5. accounts' = [accounts EXCEPT ![a] = p]
      BY <1>6 DEF UpdatePrefs
    <2> HIDE DEF p
    <2>6. QED
      BY <1>3, <2>4, <2>5, AccountsWith
  <1>7. QED
    BY <1>5, <1>6

LEMMA UpdatePrefsKeeps ==
    ASSUME PortalInv, Remember, NEW w \in Worker, UpdatePrefs(w)
    PROVE  PortalInv'
  <1>1. /\ TypeOK /\ InCourse /\ Turns(w, Idle)
        /\ UNCHANGED <<made, clock, showcase, sent, shown, removed>>
    BY DEF PortalInv, UpdatePrefs, history, Answer, Turns
  <1>2. /\ DOMAIN accounts \subseteq DOMAIN accounts' /\ DOMAIN accounts' \subseteq Account
        /\ accounts' \in [DOMAIN accounts' -> Profile]
    BY <1>1, UpdatePrefsIs
  <1>3. made' \in 0 .. MaxRequests /\ made <= made'
    BY <1>1, BoundsTyped DEF TypeOK
  <1>4. QED
    BY <1>1, <1>2, <1>3, MoveKeeps DEF Concerned

LEMMA PostRegisterKeeps ==
    ASSUME PortalInv, Remember, NEW w \in Worker, NEW a \in Account, NEW chose \in BOOLEAN,
           PostRegister(w, a, chose)
    PROVE  PortalInv'
  <1> DEFINE new == [step |-> "registration", account |-> a, chose |-> chose]
  <1>1. /\ Turns(w, new) /\ made < MaxRequests /\ made' = made + 1
        /\ UNCHANGED <<accounts, clock, showcase, sent, shown, removed>>
    BY DEF PostRegister, Receive, Turns, history
  <1>2. new \in Register /\ new.step = "registration"
    BY DEF Register
  <1>3. TypeOK /\ made' \in 0 .. MaxRequests /\ made <= made'
    BY <1>1, BoundsTyped DEF PortalInv, TypeOK
  <1> HIDE DEF new
  <1>4. requests'[w] = new
    BY <1>1, <1>2, <1>3, TurnsIs DEF Running
  <1>5. CourseOf(w)'
    BY <1>2, <1>4, KindsApart DEF CourseOf, At
  <1>6. DOMAIN accounts \subseteq Account /\ accounts \in [DOMAIN accounts -> Profile]
    BY <1>3 DEF TypeOK
  <1>7. QED
    BY <1>1, <1>2, <1>3, <1>5, <1>6, MoveKeeps DEF Concerned

LEMMA AllowRegistrationKeeps ==
    ASSUME PortalInv, Remember, NEW w \in Worker, AllowRegistration(w)
    PROVE  PortalInv'
  <1> DEFINE r == requests[w]
             next == IF r.chose THEN "create" ELSE "random"
             new == [r EXCEPT !.step = next]
  <1>1. /\ TypeOK /\ At(w, "registration")
        /\ UNCHANGED <<accounts, made, clock, showcase, sent, shown, removed, meta>>
    BY DEF PortalInv, AllowRegistration, history, settingsVars
  <1>2. r \in Register
    BY <1>1, AtIs
  <1>3. CASE On("registration") /\ Turns(w, new)
    <2>1. new \in Register /\ new.step = next /\ new.chose = r.chose
      <3>1. next \in {"registration", "random", "create"}
        OBVIOUS
      <3> HIDE DEF next
      <3>2. QED
        BY <1>2, <3>1, RegisterWith
    <2> HIDE DEF new
    <2>2. requests'[w] = new
      BY <1>1, <1>3, <2>1, TurnsIs DEF Running
    <2>3. "registration" \in during'[w].on
      BY <1>1, <1>3, <2>1, <2>2, DuringIs, PortalAssumption DEF On, Concerned
    <2>4. CourseOf(w)'
      BY <2>1, <2>2, <2>3, KindsApart DEF CourseOf, At
    <2>5. QED
      BY <1>1, <1>3, <2>1, <2>4, QuietKeeps DEF Concerned
  <1>4. CASE Turns(w, Idle)
    BY <1>1, <1>4, QuietKeeps DEF Concerned
  <1>5. QED
    BY <1>3, <1>4 DEF AllowRegistration, Goto, Answer, Turns

LEMMA AllowRandomKeeps ==
    ASSUME PortalInv, Remember, NEW w \in Worker, AllowRandom(w)
    PROVE  PortalInv'
  <1> DEFINE r == requests[w]
             new == [r EXCEPT !.step = "create"]
  <1>1. /\ TypeOK /\ At(w, "random") /\ CourseOf(w)
        /\ UNCHANGED <<accounts, made, clock, showcase, sent, shown, removed, meta>>
    BY DEF PortalInv, AllowRandom, history, InCourse, settingsVars
  <1>2. r \in Register
    BY <1>1, AtIs
  <1>3. CASE On("random_register") /\ Turns(w, new)
    <2>1. new \in Register /\ new.step = "create" /\ new.chose = r.chose
      BY <1>2, RegisterWith
    <2> HIDE DEF new
    <2>2. requests'[w] = new
      BY <1>1, <1>3, <2>1, TurnsIs DEF Running
    <2>3. "registration" \in during'[w].on /\ "random_register" \in during'[w].on
      BY <1>1, <1>3, <2>1, <2>2, DuringIs, PortalAssumption DEF On, CourseOf, Concerned
    <2>4. CourseOf(w)'
      BY <2>1, <2>2, <2>3, KindsApart DEF CourseOf, At
    <2>5. QED
      BY <1>1, <1>3, <2>1, <2>4, QuietKeeps DEF Concerned
  <1>4. CASE Turns(w, Idle)
    BY <1>1, <1>4, QuietKeeps DEF Concerned
  <1>5. QED
    BY <1>3, <1>4 DEF AllowRandom, Goto, Answer, Turns

LEMMA PostFoundKeeps ==
    ASSUME PortalInv, Remember, NEW w \in Worker, NEW a \in Account,
           PostSubordinate(w, a) \/ PostTeam(w, a)
    PROVE  PortalInv'
  <1>1. PICK new \in Found : /\ Turns(w, new) /\ new.account = a
                             /\ new.step = "provision" => a \in DOMAIN accounts
    <2>1. CASE PostSubordinate(w, a)
      <3> DEFINE new == [step |-> "provision", account |-> a]
      <3>1. new \in Found /\ Turns(w, new) /\ a \in DOMAIN accounts
        BY <2>1 DEF PostSubordinate, Receive, Turns, Authenticated, Found
      <3>2. QED
        BY <3>1
    <2>2. CASE PostTeam(w, a)
      <3> DEFINE new == [step |-> "team", account |-> a]
      <3>1. new \in Found /\ Turns(w, new)
        BY <2>2 DEF PostTeam, Receive, Turns, Found
      <3>2. QED
        BY <3>1
    <2>3. QED
      BY <2>1, <2>2
  <1>2. made < MaxRequests /\ made' = made + 1 /\ UNCHANGED <<accounts, clock, showcase, sent, shown, removed>>
    BY DEF PostSubordinate, PostTeam, Receive, history
  <1>3. TypeOK /\ made' \in 0 .. MaxRequests /\ made <= made'
    BY <1>2, BoundsTyped DEF PortalInv, TypeOK
  <1>4. requests'[w] = new
    BY <1>1, <1>3, TurnsIs DEF Running
  <1>5. CourseOf(w)'
    BY <1>1, <1>2, <1>4, KindsApart DEF CourseOf, At
  <1>6. DOMAIN accounts \subseteq Account /\ accounts \in [DOMAIN accounts -> Profile]
    BY <1>3 DEF TypeOK
  <1>7. QED
    BY <1>1, <1>2, <1>3, <1>5, <1>6, MoveKeeps DEF Concerned

LEMMA WithIs ==
    ASSUME TypeOK, NEW new \in SUBSET Account, accounts' = With(new)
    PROVE  /\ DOMAIN accounts' = DOMAIN accounts \cup new /\ DOMAIN accounts' \subseteq Account
           /\ accounts' \in [DOMAIN accounts' -> Profile]
           /\ \A b \in DOMAIN accounts : accounts'[b] = accounts[b]
           /\ \A b \in DOMAIN accounts' \ DOMAIN accounts : ~accounts'[b].visible
  <1>1. /\ DOMAIN accounts' = DOMAIN accounts \cup new
        /\ accounts' = [a \in DOMAIN accounts' |-> accounts'[a]]
        /\ \A a \in DOMAIN accounts' :
               accounts'[a] = IF a \in DOMAIN accounts THEN accounts[a] ELSE NewAccount
    BY DEF With
  <1>2. DOMAIN accounts \subseteq Account /\ \A b \in DOMAIN accounts : accounts[b] \in Profile
    BY DEF TypeOK
  <1>3. \A a \in DOMAIN accounts' : accounts'[a] \in Profile
    BY <1>1, <1>2, NewAccountIs
  <1>4. accounts' \in [DOMAIN accounts' -> Profile]
    BY <1>1, <1>3
  <1>5. QED
    BY <1>1, <1>2, <1>4, NewAccountIs

\* The steps in which accounts come into being, and what they do.
Creating(w) == CreateAccount(w) \/ RegisterSubordinate(w) \/ RegisterTeam(w)

LEMMA CreatingIs ==
    ASSUME TypeOK, NEW w \in Worker, Creating(w)
    PROVE  /\ Turns(w, Idle) /\ requests'[w] = Idle /\ requests[w] # Idle
           /\ UNCHANGED <<made, clock, showcase, sent, shown, removed>>
           /\ DOMAIN accounts \subseteq DOMAIN accounts' /\ DOMAIN accounts' \subseteq Account
           /\ accounts' \in [DOMAIN accounts' -> Profile]
           /\ \A b \in DOMAIN accounts : accounts'[b] = accounts[b]
           /\ \A b \in DOMAIN accounts' \ DOMAIN accounts : ~accounts'[b].visible
  <1>1. /\ Turns(w, Idle) /\ requests[w] # Idle
        /\ UNCHANGED <<made, clock, showcase, sent, shown, removed>>
    BY DEF Creating, CreateAccount, RegisterSubordinate, RegisterTeam, history, Answer, Turns, At
  <1>2. requests'[w] = Idle
    BY <1>1, TurnsIs
  <1>3. accounts' = accounts \/ \E new \in SUBSET Account : accounts' = With(new)
    <2>1. CASE CreateAccount(w)
      <3>1. requests[w].account \in Account
        BY <2>1, AtIs DEF CreateAccount, Register
      <3>2. QED
        BY <2>1, <3>1 DEF CreateAccount
    <2>2. CASE RegisterSubordinate(w)
      BY <2>2 DEF RegisterSubordinate
    <2>3. CASE RegisterTeam(w)
      <3>1. requests[w].account \in Account
        BY <2>3, AtIs DEF RegisterTeam, Found
      <3>2. QED
        BY <2>3, <3>1 DEF RegisterTeam
    <2>4. QED
      BY <2>1, <2>2, <2>3 DEF Creating
  <1>4. CASE accounts' = accounts
    BY <1>1, <1>2, <1>4 DEF TypeOK
  <1>5. CASE \E new \in SUBSET Account : accounts' = With(new)
    BY <1>1, <1>2, <1>5, WithIs
  <1>6. QED
    BY <1>3, <1>4, <1>5

LEMMA CreatingKeeps ==
    ASSUME PortalInv, Remember, NEW w \in Worker, Creating(w)
    PROVE  PortalInv'
  <1>1. TypeOK
    BY DEF PortalInv
  <1>2. made' \in 0 .. MaxRequests /\ made <= made'
    BY <1>1, CreatingIs, BoundsTyped DEF TypeOK
  <1>3. QED
    BY <1>1, <1>2, CreatingIs, MoveKeeps

-----------------------------------------------------------------------------
(* The steps of a request that sends.                                      *)

LEMMA MailTyped ==
    ASSUME PortalInv, Remember, NEW w \in Worker, NEW new \in Mail \cup Copy \cup {Idle}, Turns(w, new),
           UNCHANGED accounts
    PROVE  /\ requests' \in [Worker -> Running \cup {Idle}] /\ requests'[w] = new
           /\ \A v \in Worker : v # w => requests'[v] = requests[v]
           /\ during' \in [Worker -> [listed : BOOLEAN, on : SUBSET SwitchKey]]
           /\ InCourse'
  <1>1. TypeOK /\ InCourse /\ new \in Running \cup {Idle}
    BY DEF PortalInv, Running
  <1>2. /\ requests' \in [Worker -> Running \cup {Idle}] /\ requests'[w] = new
        /\ \A v \in Worker : v # w => requests'[v] = requests[v]
    BY <1>1, TurnsIs
  <1>3. during' \in [Worker -> [listed : BOOLEAN, on : SUBSET SwitchKey]]
    BY <1>1, DuringTyped
  <1>4. CourseOf(w)'
    BY <1>2, CourseNone
  <1>5. ASSUME NEW v \in Worker, v # w
        PROVE  CourseOf(v)'
    BY <1>1, <1>2, <1>5, CourseKept
  <1>6. QED
    BY <1>2, <1>3, <1>4, <1>5 DEF InCourse

\* Numbers and ids in use are naturals.
LEMMA NumbersTyped ==
    ASSUME TypeOK
    PROVE  /\ made \in Nat /\ made <= MaxRequests /\ clock \in Nat
           /\ \A e \in shown : e.mail \in Nat /\ e.id \in Nat /\ e = [id |-> e.id, mail |-> e.mail]
           /\ \A v \in Worker : Mailing(v) => requests[v].mail \in Nat
           /\ \A v \in Worker : At(v, "put") => requests[v].id \in Nat
  <1>1. made \in Nat /\ made <= MaxRequests /\ clock \in Nat
    BY BoundsTyped DEF TypeOK
  <1>2. \A e \in shown : e.mail \in Nat /\ e.id \in Nat /\ e = [id |-> e.id, mail |-> e.mail]
    BY DEF TypeOK
  <1>3. \A v \in Worker : Mailing(v) => requests[v].mail \in Nat
    BY DEF Mailing, Mail, Copy
  <1>4. \A v \in Worker : At(v, "put") => requests[v].id \in Nat
    BY AtIs DEF Copy
  <1>5. QED
    BY <1>1, <1>2, <1>3, <1>4

LEMMA PostSendKeeps ==
    ASSUME PortalInv, Remember, NEW w \in Worker, NEW a \in Account, NEW public \in BOOLEAN,
           PostSend(w, a, public)
    PROVE  PortalInv'
  <1> DEFINE new == [step |-> "send", mail |-> made, public |-> public]
  <1>1. /\ TypeOK /\ Turns(w, new) /\ made < MaxRequests /\ made' = made + 1
        /\ UNCHANGED <<accounts, clock, showcase, sent, shown, removed>>
    BY DEF PortalInv, PostSend, Receive, Turns, history
  <1>2. new \in Mail /\ new.step = "send" /\ new.mail = made
    BY <1>1, NumbersTyped DEF Mail
  <1> HIDE DEF new
  <1>3. /\ requests' \in [Worker -> Running \cup {Idle}] /\ requests'[w] = new
        /\ \A v \in Worker : v # w => requests'[v] = requests[v]
        /\ during' \in [Worker -> [listed : BOOLEAN, on : SUBSET SwitchKey]]
        /\ InCourse'
    BY <1>1, <1>2, MailTyped
  <1>4. TypeOK'
    <2>1. made' \in 0 .. MaxRequests
      BY <1>1, BoundsTyped, NumbersTyped
    <2>2. QED
      BY <1>1, <1>3, <2>1 DEF TypeOK
  <1>5. Unique'
    <2>1. ~At(w, "put")' /\ \A v \in Worker : v # w => (Mailing(v)' <=> Mailing(v)) /\ (At(v, "put")' <=> At(v, "put"))
      BY <1>2, <1>3 DEF At, Mailing
    <2>2. Unique
      BY DEF PortalInv
    <2>3. \A e \in shown : e.mail < made /\ e.mail < made' /\ e.mail # made
      BY <1>1, <2>2, NumbersTyped DEF Unique
    <2>4. \A v \in Worker : Mailing(v) =>
              requests[v].mail < made /\ requests[v].mail < made' /\ requests[v].mail # made
      BY <1>1, <2>2, NumbersTyped DEF Unique
    <2>5. made < made'
      BY <1>1, NumbersTyped
    <2>6. QED
      BY <1>1, <1>2, <1>3, <2>1, <2>2, <2>3, <2>4, <2>5 DEF Unique
  <1>6. Wanted'
    <2>1. \A v \in Worker : At(v, "tee")' \/ At(v, "put")' => v # w /\ (At(v, "tee") \/ At(v, "put"))
      BY <1>2, <1>3 DEF At
    <2>2. QED
      BY <1>1, <1>3, <2>1 DEF PortalInv, Wanted
  <1>7. Capped'
    BY <1>1 DEF PortalInv, Capped, Newer
  <1>8. QED
    BY <1>3, <1>4, <1>5, <1>6, <1>7 DEF PortalInv

\* A request that sends and goes on with the same mail, or ends.
LEMMA SameMailUnique ==
    ASSUME PortalInv, NEW w \in Worker, Mailing(w), NEW new \in Mail \cup Copy \cup {Idle},
           requests'[w] = new,
           new # Idle => new.mail = requests[w].mail,
           new # Idle /\ new.step = "put" =>
               /\ \A e \in shown : e.id # new.id
               /\ \A v \in Worker : At(v, "put") => requests[v].id # new.id,
           \A v \in Worker : v # w => requests'[v] = requests[v],
           UNCHANGED <<made, shown>>
    PROVE  Unique'
  <1>1. Unique /\ (new = Idle \/ new \in Mail \cup Copy)
    BY DEF PortalInv
  <1>2. \A v \in Worker : Mailing(v)' => Mailing(v) /\ requests'[v].mail = requests[v].mail
    <2>1. Mailing(w)' => new # Idle
      BY KindsApart DEF Mailing, Running
    <2>2. QED
      BY <2>1 DEF Mailing
  <1>3. \A v \in Worker : v # w => (At(v, "put")' <=> At(v, "put"))
    BY DEF At
  <1>4. At(w, "put")' => new # Idle /\ new.step = "put"
    BY DEF At
  <1>5. QED
    BY <1>1, <1>2, <1>3, <1>4 DEF Unique

LEMMA SendKeeps ==
    ASSUME PortalInv, Remember, NEW w \in Worker, Send(w)
    PROVE  PortalInv'
  <1> DEFINE r == requests[w]
             tee == [r EXCEPT !.step = "tee"]
             new == requests'[w]
  <1>1. /\ TypeOK /\ At(w, "send")
        /\ UNCHANGED <<accounts, made, clock, showcase, shown, removed>>
        /\ \/ sent' = sent \cup {r.mail} /\ Turns(w, tee)
           \/ sent' = sent /\ Turns(w, Idle)
    BY DEF PortalInv, Send, Turns, Goto, Answer
  <1>2. r \in Mail
    BY <1>1, AtIs
  <1>3. tee \in Mail /\ tee.step = "tee" /\ tee.mail = r.mail /\ r.mail \in Nat
    BY <1>2, MailWith DEF Mail
  <1> HIDE DEF tee
  <1>4. /\ requests' \in [Worker -> Running \cup {Idle}]
        /\ \A v \in Worker : v # w => requests'[v] = requests[v]
        /\ during' \in [Worker -> [listed : BOOLEAN, on : SUBSET SwitchKey]]
        /\ InCourse'
        /\ \/ new = tee /\ r.mail \in sent'
           \/ new = Idle
    BY <1>1, <1>3, MailTyped
  <1>5. TypeOK'
    BY <1>1, <1>3, <1>4 DEF TypeOK
  <1>6. Unique'
    <2>1. Mailing(w)
      BY <1>2 DEF Mailing
    <2>2. /\ new \in Mail \cup Copy \cup {Idle}
          /\ new # Idle => new.mail = r.mail /\ new.step = "tee"
      BY <1>3, <1>4
    <2>3. QED
      BY <1>1, <1>4, <2>1, <2>2, SameMailUnique
  <1>7. Wanted'
    <2>1. ASSUME NEW v \in Worker, At(v, "tee")' \/ At(v, "put")'
          PROVE  requests'[v].mail \in sent'
      <3>1. CASE v = w
        BY <1>3, <1>4, <2>1, <3>1 DEF At
      <3>2. CASE v # w
        <4>1. requests'[v] = requests[v] /\ (At(v, "tee") \/ At(v, "put"))
          BY <1>4, <2>1, <3>2 DEF At
        <4>2. QED
          BY <1>1, <4>1 DEF PortalInv, Wanted
      <3>3. QED
        BY <3>1, <3>2
    <2>2. \A e \in shown : e.mail \in sent'
      BY <1>1 DEF PortalInv, Wanted
    <2>3. QED
      BY <1>1, <2>1, <2>2 DEF Wanted
  <1>8. Capped'
    BY <1>1 DEF PortalInv, Capped, Newer
  <1>9. QED
    BY <1>4, <1>5, <1>6, <1>7, <1>8 DEF PortalInv

LEMMA TakeIdKeeps ==
    ASSUME PortalInv, Remember, NEW w \in Worker, TakeId(w)
    PROVE  PortalInv'
  <1> DEFINE r == requests[w]
  <1>1. /\ TypeOK /\ At(w, "tee")
        /\ UNCHANGED <<accounts, made, clock, showcase, sent, shown, removed>>
    BY DEF PortalInv, TakeId, history
  <1>2. r \in Mail /\ r.mail \in Nat /\ Mailing(w)
    BY <1>1, AtIs DEF Mail, Mailing
  <1>3. PICK id \in NewIds : requests' = [requests EXCEPT ![w] = [step |-> "put", mail |-> r.mail, id |-> id]]
    BY DEF TakeId
  <1> DEFINE new == [step |-> "put", mail |-> r.mail, id |-> id]
  <1>4. /\ id \in Nat
        /\ \A e \in shown : e.id # id
        /\ \A v \in Worker : At(v, "put") => requests[v].id # id
    <2>1. clock * MaxIds \in Nat
      <3>1. \A x, y \in Nat : x * y \in Nat
        OBVIOUS
      <3>2. QED
        BY <1>1, <3>1, BoundsTyped, NumbersTyped
    <2>2. id \in clock * MaxIds .. (clock + 1) * MaxIds - 1
      BY <1>3 DEF NewIds
    <2>3. id \in Nat
      <3> DEFINE low == clock * MaxIds
                 high == (clock + 1) * MaxIds - 1
      <3>1. low \in Nat /\ id \in low .. high
        BY <2>1, <2>2
      <3> HIDE DEF low, high
      <3>2. QED
        BY <3>1
    <2>4. QED
      BY <1>3, <2>3 DEF NewIds
  <1>5. new \in Copy /\ new.step = "put" /\ new.mail = r.mail /\ new.id = id /\ Turns(w, new)
    BY <1>2, <1>3, <1>4 DEF Copy, Turns
  <1> HIDE DEF new
  <1>6. /\ requests' \in [Worker -> Running \cup {Idle}] /\ requests'[w] = new
        /\ \A v \in Worker : v # w => requests'[v] = requests[v]
        /\ during' \in [Worker -> [listed : BOOLEAN, on : SUBSET SwitchKey]]
        /\ InCourse'
    BY <1>1, <1>5, MailTyped
  <1>7. TypeOK'
    BY <1>1, <1>6 DEF TypeOK
  <1>8. Unique'
    BY <1>1, <1>2, <1>4, <1>5, <1>6, SameMailUnique
  <1>9. Wanted'
    <2>1. ASSUME NEW v \in Worker, At(v, "tee")' \/ At(v, "put")'
          PROVE  (At(v, "tee") \/ At(v, "put")) /\ requests'[v].mail = requests[v].mail
      BY <1>1, <1>5, <1>6, <2>1 DEF At
    <2>2. QED
      BY <1>1, <2>1 DEF PortalInv, Wanted
  <1>10. Capped'
    BY <1>1 DEF PortalInv, Capped, Newer
  <1>11. QED
    BY <1>6, <1>7, <1>8, <1>9, <1>10 DEF PortalInv

\* What the cap leaves of the copies is within the cap, ids being used once.
LEMMA TeeCaps ==
    ASSUME NEW all \in SUBSET [id : Nat, mail : Nat], IsFiniteSet(all),
           \A e, f \in all : e.id = f.id => e = f,
           NEW cap \in Nat \ {0}
    PROVE  Cardinality({e \in all : Cardinality(Newer(all, e)) < cap}) <= cap
  <1> DEFINE kept == {e \in all : Cardinality(Newer(all, e)) < cap}
             Ids == {e.id : e \in kept}
  <1>1. kept \in SUBSET all /\ IsFiniteSet(kept) /\ Cardinality(kept) \in Nat
    BY FS_Subset, FS_CardinalityType
  <1>2. CASE kept = {}
    BY <1>2, FS_EmptySet
  <1>3. CASE kept # {}
    <2>1. Ids \in SUBSET Nat /\ Ids # {}
      BY <1>1, <1>3
    <2> HIDE DEF Ids
    <2>2. PICK least \in Ids : \A i \in Ids : least <= i
      BY <2>1, LeastNumber
    <2>3. PICK e \in kept : least = e.id
      BY DEF Ids
    <2>4. kept \ {e} \in SUBSET Newer(all, e)
      <3>1. ASSUME NEW f \in kept, f # e
            PROVE  f \in all /\ f.id > e.id
        <4>1. e.id <= f.id /\ f.id \in Ids /\ e.id \in Ids
          BY <2>2, <2>3 DEF Ids
        <4>2. e.id # f.id /\ f \in all
          BY <1>1, <3>1
        <4>3. e.id \in Nat /\ f.id \in Nat
          BY <2>1, <4>1
        <4>4. QED
          BY <4>1, <4>2, <4>3
      <3>2. QED
        BY <3>1 DEF Newer
    <2>5. Newer(all, e) \in SUBSET all
      BY DEF Newer
    <2>6. IsFiniteSet(Newer(all, e)) /\ Cardinality(Newer(all, e)) \in Nat
      BY <2>5, FS_Subset, FS_CardinalityType
    <2>7. Cardinality(kept \ {e}) <= Cardinality(Newer(all, e))
      BY <2>4, <2>6, FS_Subset
    <2>8. Cardinality(kept \ {e}) = Cardinality(kept) - 1
      BY <1>1, FS_RemoveElement
    <2>9. Cardinality(Newer(all, e)) < cap
      BY <2>3
    <2>10. QED
      BY <1>1, <2>6, <2>7, <2>8, <2>9
  <1>4. QED
    BY <1>2, <1>3

\* More copies, more of them newer.
LEMMA NewerGrows ==
    ASSUME NEW S, NEW T, S \in SUBSET T, IsFiniteSet(T), NEW e
    PROVE  /\ Cardinality(Newer(S, e)) <= Cardinality(Newer(T, e))
           /\ Cardinality(Newer(S, e)) \in Nat /\ Cardinality(Newer(T, e)) \in Nat
  <1>1. Newer(S, e) \in SUBSET Newer(T, e) /\ Newer(T, e) \in SUBSET T
    BY DEF Newer
  <1>2. QED
    BY <1>1, FS_Subset, FS_CardinalityType

LEMMA TeeShowcaseKeeps ==
    ASSUME PortalInv, Remember, NEW w \in Worker, TeeShowcase(w)
    PROVE  PortalInv'
  <1> DEFINE r == requests[w]
             entry == [id |-> r.id, mail |-> r.mail]
             all == showcase \cup {entry}
  <1>1. /\ TypeOK /\ At(w, "put") /\ Turns(w, Idle)
        /\ showcase' = {e \in all : Cardinality(Newer(all, e)) < ShowcaseCap}
        /\ shown' = shown \cup {entry}
        /\ UNCHANGED <<accounts, made, clock, sent, removed>>
    BY DEF PortalInv, TeeShowcase, Answer, Turns
  <1>2. r \in Copy /\ Mailing(w)
    BY <1>1, AtIs DEF Mailing
  <1>3. entry \in [id : Nat, mail : Nat] /\ entry.id = r.id /\ entry.mail = r.mail
    BY <1>2 DEF Copy
  <1>4. Unique /\ Wanted /\ Capped /\ showcase \subseteq shown /\ shown \subseteq [id : Nat, mail : Nat]
    BY <1>1 DEF PortalInv, TypeOK
  <1> HIDE DEF entry
  <1>5. /\ requests' \in [Worker -> Running \cup {Idle}] /\ requests'[w] = Idle
        /\ \A v \in Worker : v # w => requests'[v] = requests[v]
        /\ during' \in [Worker -> [listed : BOOLEAN, on : SUBSET SwitchKey]]
        /\ InCourse'
    BY <1>1, MailTyped
  <1>6. all \in SUBSET shown' /\ showcase' \in SUBSET all
    BY <1>1, <1>4
  <1>7. TypeOK'
    BY <1>1, <1>3, <1>4, <1>5, <1>6 DEF TypeOK
  <1>8. /\ entry.mail < made
        /\ \A e \in shown : e.mail # entry.mail /\ e.id # entry.id
        /\ \A v \in Worker : Mailing(v) /\ v # w => requests[v].mail # entry.mail
        /\ \A v \in Worker : At(v, "put") /\ v # w => requests[v].id # entry.id
    BY <1>1, <1>2, <1>3, <1>4 DEF Unique
  <1>9. /\ ~Mailing(w)' /\ ~At(w, "put")' /\ ~At(w, "tee")'
        /\ \A v \in Worker : v # w => /\ (Mailing(v)' <=> Mailing(v))
                                     /\ (At(v, "put")' <=> At(v, "put"))
                                     /\ (At(v, "tee")' <=> At(v, "tee"))
    BY <1>5, KindsApart DEF Mailing, At, Running
  <1>10. Unique'
    <2>1. /\ \A e \in shown' : e.mail < made'
          /\ \A e, f \in shown' : e.mail = f.mail \/ e.id = f.id => e = f
      BY <1>1, <1>4, <1>8 DEF Unique
    <2>2. \A v \in Worker : Mailing(v)' =>
            /\ requests'[v].mail < made'
            /\ \A e \in shown' : e.mail # requests'[v].mail
            /\ \A u \in Worker : Mailing(u)' /\ requests'[u].mail = requests'[v].mail => u = v
      BY <1>1, <1>4, <1>5, <1>8, <1>9 DEF Unique
    <2>3. \A v \in Worker : At(v, "put")' =>
            /\ \A e \in shown' : e.id # requests'[v].id
            /\ \A u \in Worker : At(u, "put")' /\ requests'[u].id = requests'[v].id => u = v
      BY <1>1, <1>4, <1>5, <1>8, <1>9 DEF Unique
    <2>4. QED
      BY <2>1, <2>2, <2>3 DEF Unique
  <1>11. Wanted'
    <2>1. entry.mail \in sent
      BY <1>1, <1>3, <1>4 DEF Wanted
    <2>2. \A e \in shown' : e.mail \in sent'
      BY <1>1, <1>4, <2>1 DEF Wanted
    <2>3. \A v \in Worker : At(v, "tee")' \/ At(v, "put")' =>
              requests'[v].mail \in sent'
      BY <1>1, <1>4, <1>5, <1>9 DEF Wanted
    <2>4. QED
      BY <2>2, <2>3 DEF Wanted
  <1>12. Capped'
    <2>1. IsFiniteSet(shown')
      BY <1>1, <1>4, FS_AddElement DEF Capped
    <2>2. IsFiniteSet(all)
      BY <1>6, <2>1, FS_Subset
    <2>3. \A e, f \in all : e.id = f.id => e = f
      BY <1>6, <1>10 DEF Unique
    <2>4. Cardinality(showcase') <= ShowcaseCap
      <3>1. ShowcaseCap \in Nat \ {0}
        BY PortalAssumption
      <3>2. all \in SUBSET [id : Nat, mail : Nat]
        BY <1>3, <1>4
      <3> HIDE DEF all
      <3>3. QED
        BY <1>1, <2>2, <2>3, <3>1, <3>2, TeeCaps
    <2>5. ASSUME NEW e \in shown' \ (showcase' \cup removed')
          PROVE  Cardinality(Newer(shown', e)) >= ShowcaseCap
      <3>1. CASE e \in all
        <4>1. ~(Cardinality(Newer(all, e)) < ShowcaseCap)
          BY <1>1, <2>5, <3>1
        <4>2. /\ Cardinality(Newer(all, e)) <= Cardinality(Newer(shown', e))
              /\ Cardinality(Newer(all, e)) \in Nat /\ Cardinality(Newer(shown', e)) \in Nat
          <5> HIDE DEF all
          <5>1. QED
            BY <1>6, <2>1, NewerGrows
        <4>3. QED
          BY <4>1, <4>2, BoundsTyped
      <3>2. CASE e \notin all
        <4>1. e \in shown \ (showcase \cup removed)
          BY <1>1, <2>5, <3>2
        <4>2. Cardinality(Newer(shown, e)) >= ShowcaseCap
          BY <1>4, <4>1 DEF Capped
        <4>3. /\ Cardinality(Newer(shown, e)) <= Cardinality(Newer(shown', e))
              /\ Cardinality(Newer(shown, e)) \in Nat /\ Cardinality(Newer(shown', e)) \in Nat
          <5>1. shown \in SUBSET shown'
            BY <1>1
          <5>2. QED
            BY <2>1, <5>1, NewerGrows
        <4>4. QED
          BY <4>2, <4>3, BoundsTyped
      <3>3. QED
        BY <3>1, <3>2
    <2>6. QED
      BY <2>1, <2>4, <2>5 DEF Capped
  <1>13. QED
    BY <1>5, <1>7, <1>10, <1>11, <1>12 DEF PortalInv

-----------------------------------------------------------------------------
(* The admin, time and the end of the process.                             *)

\* Requests stay as they are.
LEMMA RequestsStay ==
    ASSUME PortalInv, Remember, UNCHANGED <<requests, made>>,
           DOMAIN accounts \subseteq DOMAIN accounts'
    PROVE  InCourse' /\ during' \in [Worker -> [listed : BOOLEAN, on : SUBSET SwitchKey]]
  <1>1. TypeOK /\ InCourse
    BY DEF PortalInv
  <1>2. \A v \in Worker : CourseOf(v)'
    BY <1>1, CourseKept
  <1>3. QED
    BY <1>1, <1>2, DuringTyped DEF InCourse

LEMMA ShowcaseStays ==
    ASSUME PortalInv, UNCHANGED <<requests, made, showcase, sent, shown, removed>>
    PROVE  Unique' /\ Wanted' /\ Capped'
  BY DEF PortalInv, Unique, Wanted, Capped, Mailing, At, Newer

LEMMA SetAccountDisabledIs ==
    ASSUME TypeOK, NEW a \in Account, NEW disabled \in BOOLEAN, SetAccountDisabled(a, disabled)
    PROVE  /\ a \in DOMAIN accounts
           /\ DOMAIN accounts' = DOMAIN accounts /\ DOMAIN accounts \subseteq Account
           /\ accounts' \in [DOMAIN accounts' -> Profile]
           /\ \A b \in DOMAIN accounts :
                 /\ accounts'[b].visible = accounts[b].visible
                 /\ accounts'[b].signature = accounts[b].signature
                 /\ accounts'[b].prefs = accounts[b].prefs
  <1> DEFINE old == accounts[a]
             p == [old EXCEPT !.disabled = disabled]
  <1>1. a \in DOMAIN accounts /\ accounts' = [accounts EXCEPT ![a] = p]
    BY DEF SetAccountDisabled
  <1>2. old \in Profile
    BY <1>1 DEF TypeOK
  <1>3. p \in Profile /\ p.visible = old.visible /\ p.signature = old.signature /\ p.prefs = old.prefs
    <2> HIDE DEF old
    <2>1. QED
      BY <1>2 DEF Profile
  <1> HIDE DEF p
  <1>4. QED
    BY <1>1, <1>3, AccountsWith

LEMMA SetAccountDisabledKeeps ==
    ASSUME PortalInv, Remember, NEW a \in Account, NEW disabled \in BOOLEAN, SetAccountDisabled(a, disabled)
    PROVE  PortalInv'
  <1>1. TypeOK /\ UNCHANGED <<requests, made, clock, showcase, sent, shown, removed>>
    BY DEF PortalInv, SetAccountDisabled, history
  <1>2. /\ DOMAIN accounts \subseteq DOMAIN accounts' /\ DOMAIN accounts' \subseteq Account
        /\ accounts' \in [DOMAIN accounts' -> Profile]
    BY <1>1, SetAccountDisabledIs
  <1>3. InCourse' /\ during' \in [Worker -> [listed : BOOLEAN, on : SUBSET SwitchKey]]
    BY <1>1, <1>2, RequestsStay
  <1>4. TypeOK'
    BY <1>1, <1>2, <1>3 DEF TypeOK
  <1>5. QED
    BY <1>1, <1>3, <1>4, ShowcaseStays DEF PortalInv

LEMMA RemoveCopiesKeeps ==
    ASSUME PortalInv, Remember, NEW entries \in SUBSET showcase, RemoveCopies(entries)
    PROVE  PortalInv'
  <1>1. /\ TypeOK /\ UNCHANGED <<accounts, requests, made, clock, sent, shown>>
        /\ showcase' = showcase \ entries /\ removed' = removed \cup entries
    BY DEF PortalInv, RemoveCopies
  <1>2. InCourse' /\ during' \in [Worker -> [listed : BOOLEAN, on : SUBSET SwitchKey]]
    BY <1>1, RequestsStay
  <1>3. TypeOK'
    BY <1>1, <1>2 DEF TypeOK
  <1>4. Unique' /\ Wanted'
    BY <1>1 DEF PortalInv, Unique, Wanted, Mailing, At
  <1>5. Capped'
    <2>1. IsFiniteSet(showcase) /\ Cardinality(showcase) \in Nat
      BY <1>1, FS_Subset, FS_CardinalityType DEF PortalInv, Capped, TypeOK
    <2>2. Cardinality(showcase') <= Cardinality(showcase) /\ Cardinality(showcase') \in Nat
      <3>1. showcase' \in SUBSET showcase
        BY <1>1
      <3>2. QED
        BY <2>1, <3>1, FS_Subset, FS_CardinalityType
    <2>3. Cardinality(showcase') <= ShowcaseCap
      BY <2>1, <2>2, BoundsTyped DEF PortalInv, Capped
    <2>4. shown' \ (showcase' \cup removed') = shown \ (showcase \cup removed)
      BY <1>1
    <2>5. QED
      BY <1>1, <2>3, <2>4 DEF PortalInv, Capped, Newer
  <1>6. QED
    BY <1>2, <1>3, <1>4, <1>5 DEF PortalInv

LEMMA CrashKeeps ==
    ASSUME PortalInv, Remember, Crash
    PROVE  PortalInv'
  <1>1. /\ TypeOK /\ UNCHANGED <<accounts, made, clock, showcase, sent, shown, removed>>
        /\ requests' = [w \in Worker |-> Idle]
    BY DEF PortalInv, Crash, history
  <1>2. \A v \in Worker : CourseOf(v)'
    BY <1>1, CourseNone
  <1>3. TypeOK'
    BY <1>1, DuringTyped DEF TypeOK
  <1>4. Public'
    <2>1. \A v \in Worker : requests'[v] \in Mail \cup Copy => requests'[v] = requests[v]
      BY <1>1, KindsApart DEF Running
    <2>2. requests' \in [Worker -> Running \cup {Idle}] /\ made' \in Nat /\ made <= made'
      BY <1>1, NumbersTyped
    <2>3. QED
      BY <1>1, <2>1, <2>2, PublicKept DEF PortalInv, Public
  <1>5. QED
    BY <1>2, <1>3, <1>4 DEF PortalInv, InCourse, Public

LEMMA SettingKeeps ==
    ASSUME PortalInv, Remember, UNCHANGED <<accounts, requests, made, showcase, sent, shown, removed>>,
           clock' \in 0 .. MaxTime
    PROVE  PortalInv'
  <1>1. InCourse' /\ during' \in [Worker -> [listed : BOOLEAN, on : SUBSET SwitchKey]]
    BY RequestsStay
  <1>2. TypeOK'
    BY <1>1 DEF PortalInv, TypeOK
  <1>3. QED
    BY <1>1, <1>2, ShowcaseStays DEF PortalInv

-----------------------------------------------------------------------------
(* The invariant holds.                                                    *)

LEMMA InvInit == Init => PortalInv
  <1> SUFFICES ASSUME Init
               PROVE  PortalInv
    OBVIOUS
  <1>1. /\ TypeOK
        /\ \A w \in Worker : requests[w] = Idle
        /\ showcase = {} /\ shown = {} /\ removed = {}
    <2>1. accounts \in [Registered -> Profile] /\ DOMAIN accounts = Registered
      BY NewAccountIs DEF Init
    <2>2. Registered \subseteq Account
      BY PortalAssumption
    <2>3. made \in 0 .. MaxRequests /\ clock \in 0 .. MaxTime
      BY BoundsTyped DEF Init
    <2>4. QED
      BY <2>1, <2>2, <2>3 DEF Init, TypeOK
  <1>2. InCourse
    BY <1>1, KindsApart DEF InCourse, CourseOf, At, Running
  <1>3. Unique /\ Wanted
    BY <1>1, KindsApart DEF Unique, Wanted, Mailing, At, Running
  <1>4. Capped
    BY <1>1, BoundsTyped, FS_EmptySet DEF Capped
  <1>5. QED
    BY <1>1, <1>2, <1>3, <1>4 DEF PortalInv

LEMMA InvNext == PortalInv /\ [Next]_vars => PortalInv'
  <1> SUFFICES ASSUME PortalInv, [Next]_vars
               PROVE  PortalInv'
    OBVIOUS
  <1>1. CASE UNCHANGED vars
    BY <1>1 DEF vars, history, PortalInv, TypeOK, InCourse, CourseOf, Unique, Wanted, Capped, Mailing,
                At, Newer
  <1>2. CASE Next
    <2>1. Remember
      BY <1>2 DEF Next
    <2>2. ASSUME NEW w \in Worker, Request(w)
          PROVE  PortalInv'
      BY <2>1, <2>2, PostProfileKeeps, ReadProfileKeeps, PermitListingKeeps, UpdateProfileKeeps,
         UpdatePrefsKeeps, PostSendKeeps, SendKeeps, TakeIdKeeps, TeeShowcaseKeeps, PostRegisterKeeps,
         AllowRegistrationKeeps, AllowRandomKeeps, CreatingKeeps, PostFoundKeeps DEF Request, Creating
    <2>3. ASSUME Admin
          PROVE  PortalInv'
      <3>1. CASE \E a \in Account, disabled \in BOOLEAN : SetAccountDisabled(a, disabled)
        BY <2>1, <3>1, SetAccountDisabledKeeps
      <3>2. CASE ClearShowcase
        BY <2>1, <3>2, RemoveCopiesKeeps DEF ClearShowcase
      <3>3. CASE \E e \in showcase : DeleteShowcaseEntry(e)
        BY <2>1, <3>3, RemoveCopiesKeeps DEF DeleteShowcaseEntry
      <3>4. CASE Switch
        BY <2>1, <3>4, SettingKeeps DEF Switch, history, PortalInv, TypeOK
      <3>5. QED
        BY <2>3, <3>1, <3>2, <3>3, <3>4 DEF Admin
    <2>4. CASE Pass
      <3>1. clock' \in 0 .. MaxTime
        BY <2>4, BoundsTyped DEF Pass, PortalInv, TypeOK
      <3>2. QED
        BY <2>1, <2>4, <3>1, SettingKeeps DEF Pass, history
    <2>5. CASE Crash
      BY <2>1, <2>5, CrashKeeps
    <2>6. QED
      BY <1>2, <2>2, <2>3, <2>4, <2>5 DEF Next
  <1>3. QED
    BY <1>1, <1>2

LEMMA Invariance == Spec => []PortalInv
  BY InvInit, InvNext, PTL DEF Spec

\* TypeOK is an invariant: records, requests and histories are of their types.
THEOREM PortalTypeCorrect == Spec => []TypeOK
  BY Invariance, PTL DEF PortalInv

\* ShowcaseFaithful is an invariant: what TeeShowcase stores and trims and what
\* the admin removes keeps the showcase within its cap, and what it shows was
\* delivered, was wanted public and is shown once.
THEOREM ShowcaseStaysFaithful == Spec => []ShowcaseFaithful
  <1>1. PortalInv => ShowcaseFaithful
    <2> SUFFICES ASSUME PortalInv
                 PROVE  ShowcaseFaithful
      OBVIOUS
    <2>1. Unique /\ Wanted /\ Capped /\ showcase \subseteq shown
      BY DEF PortalInv, TypeOK
    <2>2. QED
      BY <2>1 DEF ShowcaseFaithful, Unique, Wanted, Capped
  <1>2. QED
    BY <1>1, Invariance, PTL

-----------------------------------------------------------------------------
(* What a step does to the accounts.                                       *)

\* Few steps write to the accounts bucket.
LEMMA WritersAre ==
    ASSUME Next, accounts' # accounts
    PROVE  \/ \E w \in Worker : UpdateProfile(w)
           \/ \E w \in Worker : UpdatePrefs(w)
           \/ \E w \in Worker : Creating(w)
           \/ \E a \in Account, disabled \in BOOLEAN : SetAccountDisabled(a, disabled)
  BY DEF Next, Request, Admin, PostProfile, PostSend, PostRegister, PostSubordinate, PostTeam, Receive,
         Creating, ReadProfile, PermitListing, Send, TakeId, TeeShowcase, AllowRegistration, AllowRandom, ClearShowcase, DeleteShowcaseEntry,
         RemoveCopies, Switch, Pass, Crash

\* The new accounts of such a step are permitted.
Founding(w, new) ==
    \/ /\ At(w, "create") /\ new = {requests[w].account}
       /\ "registration" \in during[w].on
       /\ requests[w].chose \/ "random_register" \in during[w].on
    \/ /\ At(w, "provision") /\ Cardinality(new) = 1
       /\ requests[w].account \in DOMAIN accounts
    \/ /\ At(w, "team") /\ new # {requests[w].account}
       /\ requests[w].account \in new

LEMMA CreatingPermitted ==
    ASSUME TypeOK, InCourse, NEW w \in Worker, Creating(w), DOMAIN accounts' \ DOMAIN accounts # {}
    PROVE  Finishes(w) /\ Founding(w, DOMAIN accounts' \ DOMAIN accounts)
  <1> DEFINE new == DOMAIN accounts' \ DOMAIN accounts
             r == requests[w]
  <1>1. Finishes(w) /\ CourseOf(w)
    BY CreatingIs DEF Finishes, InCourse
  <1>2. CASE CreateAccount(w)
    <2>1. At(w, "create") /\ r \in Register /\ accounts' = With({r.account})
      BY <1>2, AtIs DEF CreateAccount
    <2>2. DOMAIN accounts' = DOMAIN accounts \cup {r.account}
      BY <2>1, WithIs DEF Register
    <2>3. new = {r.account}
      BY <2>2
    <2>4. QED
      BY <1>1, <2>1, <2>3 DEF CourseOf, Founding
  <1>3. CASE RegisterSubordinate(w)
    <2>1. At(w, "provision")
      BY <1>3 DEF RegisterSubordinate
    <2>2. PICK a \in Account : accounts' = With({a})
      BY <1>3 DEF RegisterSubordinate
    <2>3. DOMAIN accounts' = DOMAIN accounts \cup {a}
      BY <2>2, WithIs
    <2>4. new = {a}
      BY <2>3
    <2>5. Cardinality(new) = 1
      BY <2>4, FS_Singleton
    <2>6. QED
      BY <1>1, <2>1, <2>5 DEF CourseOf, Founding
  <1>4. CASE RegisterTeam(w)
    <2>1. At(w, "team") /\ r.account \in Account
      BY <1>4, AtIs DEF RegisterTeam, Found
    <2>2. /\ r.account \notin DOMAIN accounts
          /\ \E members \in (SUBSET (Account \ (DOMAIN accounts \cup {r.account}))) \ {{}} :
                accounts' = With({r.account} \cup members)
      BY <1>4 DEF RegisterTeam
    <2>3. PICK members \in (SUBSET (Account \ (DOMAIN accounts \cup {r.account}))) \ {{}} :
              accounts' = With({r.account} \cup members)
      BY <2>2
    <2>4. DOMAIN accounts' = DOMAIN accounts \cup {r.account} \cup members
      <3>1. {r.account} \cup members \in SUBSET Account
        BY <2>1
      <3>2. QED
        BY <2>3, <3>1, WithIs
    <2>5. new # {r.account} /\ r.account \in new
      <3>1. PICK m \in members : m \notin DOMAIN accounts /\ m # r.account
        <4>1. members # {} /\ members \subseteq Account \ (DOMAIN accounts \cup {r.account})
          BY <2>3
        <4>2. QED
          BY <4>1
      <3>2. m \in new /\ r.account \in new
        BY <2>2, <2>4
      <3>3. QED
        BY <3>1, <3>2
    <2>6. QED
      BY <1>1, <2>1, <2>5 DEF Founding
  <1>5. QED
    BY <1>2, <1>3, <1>4 DEF Creating

\* A save ends, or goes on to the preferences.
LEMMA UpdateFinishes ==
    ASSUME TypeOK, NEW w \in Worker, UpdateProfile(w)
    PROVE  Finishes(w) /\ At(w, "update")
  <1>1. At(w, "update") /\ requests[w] \in Save
    BY AtIs DEF UpdateProfile
  <1>2. requests'[w] = Idle \/ requests'[w] = [requests[w] EXCEPT !.step = "prefs"]
    BY DEF UpdateProfile, Goto, Answer, TypeOK
  <1>3. [requests[w] EXCEPT !.step = "prefs"].step = "prefs"
    BY <1>1, SaveWith
  <1>4. QED
    BY <1>1, <1>2, <1>3 DEF At, Finishes

\* PermittedInCourse holds of every step: nobody comes into the directory
\* without a permission that held in the course of a request, and accounts come
\* into being by handleRegister with such a permission, one by one as the
\* subordinates of accounts, or in teams.
THEOREM PermissionsInCourse == Spec => PermittedInCourse
  <1> DEFINE Into(a) == \/ a \in DOMAIN accounts /\ accounts[a].visible
                        \/ \E w \in Worker :
                              /\ Finishes(w) /\ At(w, "update") /\ requests[w].account = a
                              /\ \/ during[w].listed
                                 \/ requests[w].body.visible = TRUE /\ "directory_listed" \in during[w].on
             new == DOMAIN accounts' \ DOMAIN accounts
             Right == /\ \A a \in Directory' \ Directory : Into(a)
                      /\ new # {} =>
                            \E w \in Worker :
                               /\ Finishes(w)
                               /\ \/ /\ At(w, "create") /\ new = {requests[w].account}
                                     /\ "registration" \in during[w].on
                                     /\ requests[w].chose \/ "random_register" \in during[w].on
                                  \/ /\ At(w, "provision") /\ Cardinality(new) = 1
                                     /\ requests[w].account \in DOMAIN accounts
                                  \/ /\ At(w, "team") /\ new # {requests[w].account}
                                     /\ requests[w].account \in new
  <1>1. PortalInv /\ [Next]_vars => [Right]_vars
    <2> SUFFICES ASSUME PortalInv, Next
                 PROVE  Right
      OBVIOUS
    <2>1. TypeOK /\ InCourse
      BY DEF PortalInv
    <2>2. CASE accounts' = accounts
      BY <2>2 DEF Directory
    <2>3. ASSUME NEW w \in Worker, UpdateProfile(w)
          PROVE  Right
      <3>1. /\ requests[w] \in Save
            /\ DOMAIN accounts' = DOMAIN accounts
            /\ \A b \in DOMAIN accounts : b # requests[w].account => accounts'[b] = accounts[b]
            /\ accounts'[requests[w].account].visible = requests[w].visible
        BY <2>1, <2>3, UpdateProfileIs
      <3>2. Finishes(w) /\ At(w, "update")
        BY <2>1, <2>3, UpdateFinishes
      <3>3. ASSUME NEW a \in Directory' \ Directory
            PROVE  Into(a)
        <4>1. a = requests[w].account /\ requests[w].visible
          BY <3>1 DEF Directory
        <4>2. \/ during[w].listed
              \/ requests[w].body.visible = TRUE /\ "directory_listed" \in during[w].on
          BY <2>1, <3>2, <4>1 DEF InCourse, CourseOf
        <4>3. QED
          BY <3>2, <4>1, <4>2
      <3>4. QED
        BY <3>1, <3>3
    <2>4. ASSUME NEW w \in Worker, UpdatePrefs(w)
          PROVE  Right
      <3>1. /\ DOMAIN accounts' = DOMAIN accounts
            /\ \A b \in DOMAIN accounts : accounts'[b].visible = accounts[b].visible
                                          /\ accounts'[b].disabled = accounts[b].disabled
        BY <2>1, <2>4, UpdatePrefsIs
      <3>2. QED
        BY <3>1 DEF Directory
    <2>5. ASSUME NEW w \in Worker, Creating(w)
          PROVE  Right
      <3>1. \A a \in Directory' : a \in Directory
        BY <2>1, <2>5, CreatingIs DEF Directory
      <3>2. new # {} => Finishes(w) /\ Founding(w, new)
        BY <2>1, <2>5, CreatingPermitted
      <3> HIDE DEF new
      <3>3. QED
        BY <3>1, <3>2 DEF Founding
    <2>6. ASSUME NEW b \in Account, NEW disabled \in BOOLEAN, SetAccountDisabled(b, disabled)
          PROVE  Right
      <3>1. /\ DOMAIN accounts' = DOMAIN accounts
            /\ \A a \in DOMAIN accounts : accounts'[a].visible = accounts[a].visible
        BY <2>1, <2>6, SetAccountDisabledIs
      <3>2. QED
        BY <3>1 DEF Directory
    <2>7. QED
      BY <2>2, <2>3, <2>4, <2>5, <2>6, WritersAre
  <1>2. QED
    BY <1>1, Invariance, PTL DEF Spec, PermittedInCourse

\* FieldsApart holds of every step: UpdateProfile, UpdatePrefs and
\* SetAccountDisabled each write their own fields of the record they share.
THEOREM WritersKeepApart == Spec => FieldsApart
  <1> DEFINE Field == {"visible", "signature", "prefs", "disabled"}
             Changed(a) == {f \in Field : accounts'[a][f] # accounts[a][f]}
             Right == \A a \in DOMAIN accounts :
                         /\ Changed(a) \subseteq {"visible", "signature"} \/ Cardinality(Changed(a)) <= 1
                         /\ "disabled" \in Changed(a) => UNCHANGED requests
  <1>1. ASSUME NEW f, NEW S \in SUBSET {f}
        PROVE  Cardinality(S) <= 1
    <2>1. IsFiniteSet({f}) /\ Cardinality({f}) = 1
      BY FS_Singleton
    <2>2. QED
      BY <2>1, FS_Subset
  <1>2. PortalInv /\ [Next]_vars => [Right]_vars
    <2> SUFFICES ASSUME PortalInv, Next, NEW a \in DOMAIN accounts
                 PROVE  /\ Changed(a) \subseteq {"visible", "signature"} \/ Cardinality(Changed(a)) <= 1
                        /\ "disabled" \in Changed(a) => UNCHANGED requests
      OBVIOUS
    <2>1. TypeOK /\ InCourse
      BY DEF PortalInv
    <2>2. CASE accounts'[a] = accounts[a]
      BY <2>2
    <2>3. ASSUME NEW w \in Worker, UpdateProfile(w), accounts'[a] # accounts[a]
          PROVE  Changed(a) \subseteq {"visible", "signature"}
      <3>1. accounts'[a].prefs = accounts[a].prefs /\ accounts'[a].disabled = accounts[a].disabled
        BY <2>1, <2>3, UpdateProfileIs
      <3>2. QED
        BY <3>1
    <2>4. ASSUME NEW w \in Worker, UpdatePrefs(w)
          PROVE  Changed(a) \subseteq {"prefs"}
      <3>1. /\ accounts'[a].visible = accounts[a].visible
            /\ accounts'[a].signature = accounts[a].signature
            /\ accounts'[a].disabled = accounts[a].disabled
        BY <2>1, <2>4, UpdatePrefsIs
      <3>2. QED
        BY <3>1
    <2>5. ASSUME NEW w \in Worker, Creating(w)
          PROVE  accounts'[a] = accounts[a]
      BY <2>1, <2>5, CreatingIs
    <2>6. ASSUME NEW b \in Account, NEW disabled \in BOOLEAN, SetAccountDisabled(b, disabled)
          PROVE  Changed(a) \subseteq {"disabled"} /\ UNCHANGED requests
      <3>1. /\ accounts'[a].visible = accounts[a].visible
            /\ accounts'[a].signature = accounts[a].signature
            /\ accounts'[a].prefs = accounts[a].prefs
        BY <2>1, <2>6, SetAccountDisabledIs
      <3>2. QED
        BY <2>6, <3>1 DEF SetAccountDisabled
    <2> HIDE DEF Changed
    <2>7. "disabled" \notin {"visible", "signature"} /\ "disabled" \notin {"prefs"}
      OBVIOUS
    <2>8. accounts'[a] # accounts[a] => accounts' # accounts
      OBVIOUS
    <2>9. QED
      BY <1>1, <2>2, <2>3, <2>4, <2>5, <2>6, <2>7, <2>8, WritersAre
  <1>3. QED
    BY <1>2, Invariance, PTL DEF Spec, FieldsApart

-----------------------------------------------------------------------------
(* Rate limits: the invariant.                                             *)

\* What was let through, since so long or in between.
Between(attempts, low, high) == {t \in attempts : low < t.age /\ t.age <= high}

\* Those of one age are numbered from zero, and of the last hour.
Numbered(attempts) ==
    /\ IsFiniteSet(attempts) /\ attempts \subseteq Attempt
    /\ \A t \in attempts : t.age < Hour /\ (t.age = 0 => t.n < Cardinality(Since(attempts, 0)))

Past == 0 .. Hour - 1

\* Highest, by what was in force lately and earlier.
Compared(recently, past, n) == recently \cup {past[age] : age \in 1 .. n}

CapOf(recently, past, k, n) ==
    IF k # "send" THEN FixedLimit[k] ELSE Max(Compared(recently, past, n))

Caps(k) == [n \in Past |-> CapOf(lately["send_rate"], ceiling, k, n)]

\* What a window w counts covers what was let through since it began, every
\* later part of which was within the limit of its time; what was let through
\* before is of one window.
Covers(w, caps, attempts) ==
    /\ \A n \in Past : n <= w.age => Cardinality(Since(attempts, n)) <= caps[n]
    /\ w.age < Hour => Cardinality(Since(attempts, w.age)) <= w.used
    /\ w.age = Hour => Since(attempts, 0) = {}
    /\ \A n \in Past : Cardinality(Between(attempts, w.age, n)) <= caps[n]

LatelyOK ==
    /\ lately \in [LimitKey -> SUBSET Nat]
    /\ \A l \in LimitKey : IsFiniteSet(lately[l]) /\ InForce(meta, l) \in lately[l]

RatesInv ==
    /\ RatesTypeOK /\ LatelyOK
    /\ \A k \in Kinds, a \in Address : Numbered(passed[k][a]) /\ Covers(rates[k][a], Caps(k), passed[k][a])
    /\ \A l \in Limiter, c \in Client : Numbered(tried[l][c]) /\ tried[l][c] = Kept(hits[l][c])

-----------------------------------------------------------------------------
(* Counts.                                                                 *)

LEMMA HourTyped ==
    /\ Hour \in Nat /\ Hour > 0 /\ Age = 0 .. Hour
    /\ "send_rate" \in LimitKey /\ "register_rate" \in LimitKey
    /\ TeamLimit \in Nat /\ PushIPLimit \in Nat
    /\ \A k \in Kinds : FixedLimit[k] \in Nat
  BY RateAssumption DEF Age

LEMMA AttemptIs ==
    ASSUME NEW t \in Attempt
    PROVE  t.age \in 0 .. Hour /\ t.age \in Nat /\ t.n \in Nat /\ t = [age |-> t.age, n |-> t.n]
  BY HourTyped DEF Attempt

\* A part of finitely many is counted by a natural, and a greater part by no less.
LEMMA PartCounts ==
    ASSUME NEW S, IsFiniteSet(S), NEW T \in SUBSET S, NEW R \in SUBSET T
    PROVE  /\ IsFiniteSet(T) /\ Cardinality(T) \in Nat
           /\ IsFiniteSet(R) /\ Cardinality(R) \in Nat /\ Cardinality(R) <= Cardinality(T)
  <1>1. IsFiniteSet(T)
    BY FS_Subset
  <1>2. QED
    BY <1>1, FS_Subset, FS_CardinalityType

\* What a function makes of finitely many is no more.
LEMMA ImageCounts ==
    ASSUME NEW S, IsFiniteSet(S), NEW f, DOMAIN f = S, f = [x \in S |-> f[x]]
    PROVE  IsFiniteSet({f[x] : x \in S}) /\ Cardinality({f[x] : x \in S}) <= Cardinality(S)
  <1> DEFINE T == {f[x] : x \in S}
  <1>1. f \in Surjection(S, T)
    BY DEF Surjection
  <1> HIDE DEF T
  <1>2. IsFiniteSet(T) /\ Cardinality(T) <= Cardinality(S)
    BY <1>1, FS_Surjection
  <1>3. QED
    BY <1>2 DEF T

LEMMA SinceCounts ==
    ASSUME NEW S, Numbered(S), NEW n \in Nat
    PROVE  /\ Since(S, n) \in SUBSET S /\ IsFiniteSet(Since(S, n)) /\ Cardinality(Since(S, n)) \in Nat
           /\ \A m \in Nat : m <= n => Cardinality(Since(S, m)) <= Cardinality(Since(S, n))
  <1>1. Since(S, n) \in SUBSET S /\ IsFiniteSet(S)
    BY DEF Since, Numbered
  <1>2. ASSUME NEW m \in Nat, m <= n
        PROVE  Since(S, m) \in SUBSET Since(S, n)
    <2>1. \A t \in S : t.age \in Nat
      BY AttemptIs DEF Numbered
    <2>2. QED
      BY <1>2, <2>1 DEF Since
  <1>3. QED
    BY <1>1, <1>2, PartCounts

LEMMA BetweenCounts ==
    ASSUME NEW S, Numbered(S), NEW low, NEW high
    PROVE  /\ Between(S, low, high) \in SUBSET S /\ IsFiniteSet(Between(S, low, high))
           /\ Cardinality(Between(S, low, high)) \in Nat
  <1>1. Between(S, low, high) \in SUBSET S /\ IsFiniteSet(S)
    BY DEF Between, Numbered
  <1>2. QED
    BY <1>1, PartCounts

\* One more is counted at every age, and is no part of what was before.
LEMMA OneMoreCounts ==
    ASSUME NEW S, Numbered(S)
    PROVE  /\ Numbered(OneMore(S))
           /\ \A n \in Nat : Cardinality(Since(OneMore(S), n)) = Cardinality(Since(S, n)) + 1
           /\ \A low \in Nat, high \in Nat : Between(OneMore(S), low, high) = Between(S, low, high)
           /\ Kept(OneMore(S)) = OneMore(S) /\ Kept(S) = S
  <1> DEFINE new == [age |-> 0, n |-> Cardinality(Since(S, 0))]
  <1>1. new \in Attempt /\ new.age = 0 /\ new.n = Cardinality(Since(S, 0))
    BY HourTyped, SinceCounts DEF Attempt
  <1>2. OneMore(S) = S \cup {new}
    BY DEF OneMore
  <1>3. \A t \in S : t \in Attempt /\ t.age < Hour /\ (t.age = 0 => t.n < new.n) /\ t.n \in Nat
    BY <1>1, AttemptIs DEF Numbered
  <1> HIDE DEF new
  <1>4. new \notin S /\ new.n \in Nat
    BY <1>1, <1>3, SinceCounts
  <1>5. ASSUME NEW n \in Nat
        PROVE  Since(OneMore(S), n) = Since(S, n) \cup {new} /\ new \notin Since(S, n)
    BY <1>1, <1>2, <1>4, <1>5 DEF Since
  <1>6. ASSUME NEW n \in Nat
        PROVE  Cardinality(Since(OneMore(S), n)) = Cardinality(Since(S, n)) + 1
    BY <1>5, <1>6, SinceCounts, FS_AddElement
  <1>7. Numbered(OneMore(S))
    <2>1. IsFiniteSet(OneMore(S)) /\ OneMore(S) \subseteq Attempt
      BY <1>1, <1>2, FS_AddElement DEF Numbered
    <2>2. Cardinality(Since(OneMore(S), 0)) = new.n + 1
      BY <1>1, <1>6
    <2>3. ASSUME NEW t \in OneMore(S)
          PROVE  t.age < Hour /\ (t.age = 0 => t.n < new.n + 1)
      BY <1>1, <1>2, <1>3, <1>4, HourTyped
    <2>4. QED
      BY <2>1, <2>2, <2>3 DEF Numbered
  <1>8. \A low \in Nat, high \in Nat : Between(OneMore(S), low, high) = Between(S, low, high)
    BY <1>1, <1>2 DEF Between
  <1>9. Kept(OneMore(S)) = OneMore(S) /\ Kept(S) = S
    BY <1>1, <1>2, <1>3, HourTyped DEF Kept
  <1>10. QED
    BY <1>6, <1>7, <1>8, <1>9

\* After a tick what is kept is of the hour still, none of it is new, and no
\* more of it lies between two ages than lay between them a tick before.
LEMMA OlderCounts ==
    ASSUME NEW S, Numbered(S)
    PROVE  LET O == Kept(Older(S)) IN
           /\ Numbered(O) /\ Since(O, 0) = {}
           /\ \A n \in Nat : Cardinality(Since(O, n + 1)) <= Cardinality(Since(S, n))
           /\ \A low \in Nat, high \in Nat :
                 Cardinality(Between(O, low + 1, high + 1)) <= Cardinality(Between(S, low, high))
  <1> DEFINE O == Kept(Older(S))
             up == [t \in S |-> [age |-> t.age + 1, n |-> IF t.age + 1 = Hour THEN 0 ELSE t.n]]
  <1>1. IsFiniteSet(S) /\ Kept(S) = S /\ \A t \in S : t \in Attempt /\ t.age \in Nat /\ t.n \in Nat /\ t.age < Hour
    BY AttemptIs, OneMoreCounts DEF Numbered
  <1>2. Older(S) = {up[t] : t \in S}
    BY <1>1 DEF Older
  <1>3. \A t \in S : up[t] \in Attempt /\ up[t].age = t.age + 1
    BY <1>1, HourTyped DEF Attempt
  <1>4. ASSUME NEW A \in SUBSET S, NEW B \in SUBSET {up[t] : t \in A}
        PROVE  Cardinality(B) <= Cardinality(A)
    <2>1. IsFiniteSet(A) /\ Cardinality(A) \in Nat
      BY <1>1, PartCounts
    <2>2. IsFiniteSet({up[t] : t \in A}) /\ Cardinality({up[t] : t \in A}) <= Cardinality(A)
      <3> DEFINE f == [t \in A |-> up[t]]
      <3>1. DOMAIN f = A /\ f = [t \in A |-> f[t]] /\ {f[t] : t \in A} = {up[t] : t \in A}
        OBVIOUS
      <3> HIDE DEF f, up
      <3>2. QED
        BY <2>1, <3>1, ImageCounts
    <2>3. /\ Cardinality(B) <= Cardinality({up[t] : t \in A})
          /\ Cardinality(B) \in Nat /\ Cardinality({up[t] : t \in A}) \in Nat
      BY <2>2, PartCounts
    <2>4. QED
      BY <2>1, <2>2, <2>3
  <1> HIDE DEF up
  <1>5. O \in SUBSET {up[t] : t \in S} /\ \A o \in O : o \in Attempt /\ o.age < Hour /\ o.age > 0
    BY <1>1, <1>2, <1>3 DEF Kept
  <1>6. IsFiniteSet(O)
    <2>1. IsFiniteSet({up[t] : t \in S})
      <3>1. DOMAIN up = S /\ up = [t \in S |-> up[t]]
        BY DEF up
      <3>2. QED
        BY <1>1, <3>1, ImageCounts
    <2>2. QED
      BY <1>5, <2>1, FS_Subset
  <1> HIDE DEF O
  <1>7. Since(O, 0) = {}
    BY <1>5, AttemptIs DEF Since
  <1>8. Numbered(O)
    BY <1>5, <1>6, AttemptIs DEF Numbered
  <1>9. ASSUME NEW n \in Nat
        PROVE  Cardinality(Since(O, n + 1)) <= Cardinality(Since(S, n))
    <2>1. Since(O, n + 1) \in SUBSET {up[t] : t \in Since(S, n)}
      BY <1>1, <1>3, <1>5 DEF Since
    <2>2. Since(S, n) \in SUBSET S
      BY DEF Since
    <2>3. QED
      BY <1>4, <2>1, <2>2
  <1>10. ASSUME NEW low \in Nat, NEW high \in Nat
         PROVE  Cardinality(Between(O, low + 1, high + 1)) <= Cardinality(Between(S, low, high))
    <2>1. Between(O, low + 1, high + 1) \in SUBSET {up[t] : t \in Between(S, low, high)}
      BY <1>1, <1>3, <1>5 DEF Between
    <2>2. Between(S, low, high) \in SUBSET S
      BY DEF Between
    <2>3. QED
      BY <1>4, <2>1, <2>2
  <1>11. QED
    BY <1>7, <1>8, <1>9, <1>10 DEF O

-----------------------------------------------------------------------------
(* The highest limit.                                                      *)

\* A nonempty finite set of naturals has a maximum.
LEMMA MaxIs ==
    ASSUME NEW S \in SUBSET Nat, IsFiniteSet(S), S # {}
    PROVE  Max(S) \in S /\ Max(S) \in Nat /\ \A x \in S : x <= Max(S)
  <1>1. PICK m \in S : \A x \in S : x <= m
    BY GreatestNumber
  <1>2. \A x \in S : m >= x
    BY <1>1
  <1>3. Max(S) \in S /\ \A x \in S : Max(S) >= x
    BY <1>2 DEF Max
  <1>4. QED
    BY <1>3

\* What the highest limit is made of: limits that were in force.
Recently(recently) == recently \in SUBSET Nat /\ IsFiniteSet(recently) /\ recently # {}

LEMMA ComparedIs ==
    ASSUME NEW recently, Recently(recently), NEW past \in [1 .. Hour -> Nat], NEW n \in 0 .. Hour
    PROVE  LET C == Compared(recently, past, n) IN
           Recently(C) /\ Max(C) \in C /\ Max(C) \in Nat /\ \A x \in C : x <= Max(C)
  <1> DEFINE C == Compared(recently, past, n)
  <1>1. {past[age] : age \in 1 .. n} \in SUBSET Nat
    <2>1. \A age \in 1 .. n : age \in 1 .. Hour
      BY HourTyped
    <2>2. QED
      BY <2>1
  <1>2. IsFiniteSet({past[age] : age \in 1 .. n})
    <2> DEFINE f == [age \in 1 .. n |-> past[age]]
    <2>1. IsFiniteSet(1 .. n)
      BY FS_Interval, HourTyped
    <2>2. DOMAIN f = 1 .. n /\ f = [age \in 1 .. n |-> f[age]]
          /\ {f[age] : age \in 1 .. n} = {past[age] : age \in 1 .. n}
      OBVIOUS
    <2> HIDE DEF f
    <2>3. IsFiniteSet({f[age] : age \in 1 .. n})
      BY <2>1, <2>2, ImageCounts
    <2>4. QED
      BY <2>2, <2>3
  <1>3. IsFiniteSet(C)
    BY <1>2, FS_Union DEF Compared, Recently
  <1>4. Recently(C)
    BY <1>1, <1>3 DEF Compared, Recently
  <1>5. QED
    BY <1>4, MaxIs DEF Recently

\* It is at least every limit that was in force lately, and grows with the age.
LEMMA CapsAre ==
    ASSUME NEW recently, Recently(recently), NEW past \in [1 .. Hour -> Nat], NEW k \in Kinds,
           NEW n \in 0 .. Hour
    PROVE  /\ CapOf(recently, past, k, n) \in Nat
           /\ k = "send" => \A limit \in recently : limit <= CapOf(recently, past, k, n)
           /\ \A m \in 0 .. n : CapOf(recently, past, k, m) <= CapOf(recently, past, k, n)
  <1>1. CASE k # "send"
    BY <1>1, HourTyped DEF CapOf
  <1>2. CASE k = "send"
    <2>1. \A m \in 0 .. Hour : CapOf(recently, past, k, m) = Max(Compared(recently, past, m))
      BY <1>2 DEF CapOf
    <2>2. \A m \in 0 .. Hour : LET C == Compared(recently, past, m) IN
              Max(C) \in C /\ Max(C) \in Nat /\ \A x \in C : x <= Max(C)
      BY ComparedIs
    <2>3. recently \in SUBSET Compared(recently, past, n)
      BY DEF Compared
    <2>4. ASSUME NEW m \in 0 .. n
          PROVE  CapOf(recently, past, k, m) <= CapOf(recently, past, k, n)
      <3>1. m \in 0 .. Hour /\ \A age \in 1 .. m : age \in 1 .. n
        BY HourTyped
      <3>2. Compared(recently, past, m) \in SUBSET Compared(recently, past, n)
        BY <3>1 DEF Compared
      <3>3. QED
        BY <2>1, <2>2, <3>1, <3>2
    <2>5. QED
      BY <2>1, <2>2, <2>3, <2>4
  <1>3. QED
    BY <1>1, <1>2

\* More limits lately, and a higher highest limit.
LEMMA CapsGrow ==
    ASSUME NEW recently, Recently(recently), NEW more, Recently(more), recently \in SUBSET more,
           NEW past \in [1 .. Hour -> Nat], NEW k \in Kinds, NEW n \in 0 .. Hour
    PROVE  CapOf(recently, past, k, n) <= CapOf(more, past, k, n)
  <1>1. CASE k # "send"
    BY <1>1, HourTyped DEF CapOf
  <1>2. CASE k = "send"
    <2>1. Compared(recently, past, n) \in SUBSET Compared(more, past, n)
      BY DEF Compared
    <2>2. \A r \in {recently, more} : LET C == Compared(r, past, n) IN
              Max(C) \in C /\ \A x \in C : x <= Max(C)
      BY ComparedIs
    <2>3. QED
      BY <1>2, <2>1, <2>2 DEF CapOf
  <1>3. QED
    BY <1>1, <1>2

\* With the tick the highest limits of all ages move to the next age.
LEMMA CapsTick ==
    ASSUME NEW recently, Recently(recently), NEW past \in [1 .. Hour -> Nat],
           NEW now, Recently(now), NEW later \in [1 .. Hour -> Nat],
           later = [age \in 1 .. Hour |-> IF age = 1 THEN Max(recently) ELSE past[age - 1]],
           NEW k \in Kinds, NEW n \in Past
    PROVE  CapOf(recently, past, k, n) <= CapOf(now, later, k, n + 1)
  <1>1. CASE k # "send"
    BY <1>1, HourTyped DEF CapOf
  <1>2. CASE k = "send"
    <2>1. n \in 0 .. Hour /\ n \in Nat /\ n + 1 \in 0 .. Hour /\ 1 \in 1 .. n + 1 /\ 1 \in 1 .. Hour
      BY HourTyped DEF Past
    <2>2. /\ LET C == Compared(recently, past, n) IN Max(C) \in C
          /\ LET C == Compared(now, later, n + 1) IN Max(C) \in Nat /\ \A x \in C : x <= Max(C)
      BY <2>1, ComparedIs
    <2>3. Max(recently) \in Nat /\ \A x \in recently : x <= Max(recently) /\ x \in Nat
      BY MaxIs DEF Recently
    <2>4. later[1] = Max(recently) /\ later[1] \in Compared(now, later, n + 1)
      BY <2>1 DEF Compared
    <2>5. ASSUME NEW age \in 1 .. n
          PROVE  past[age] \in Compared(now, later, n + 1)
      <3>1. age + 1 \in 1 .. n + 1 /\ age + 1 \in 1 .. Hour /\ age + 1 # 1 /\ (age + 1) - 1 = age
        BY <2>1, HourTyped
      <3>2. later[age + 1] = past[age]
        BY <3>1
      <3>3. QED
        BY <3>1, <3>2 DEF Compared
    <2>6. ASSUME NEW x \in Compared(recently, past, n)
          PROVE  x <= Max(Compared(now, later, n + 1))
      <3>1. CASE x \in recently
        BY <2>2, <2>3, <2>4, <3>1
      <3>2. CASE x \notin recently
        <4>1. PICK age \in 1 .. n : x = past[age]
          BY <3>2 DEF Compared
        <4>2. QED
          BY <2>2, <2>5, <4>1
      <3>3. QED
        BY <3>1, <3>2
    <2>7. QED
      BY <1>2, <2>2, <2>6 DEF CapOf
  <1>3. QED
    BY <1>1, <1>2

-----------------------------------------------------------------------------
(* Windows.                                                                *)

LEMMA WindowWith ==
    ASSUME NEW w \in Window
    PROVE  /\ w.age \in 0 .. Hour /\ w.age \in Nat /\ w.used \in Nat
           /\ Current(w) \in Window /\ Current(w).age < Hour
           /\ Current(w).age = (IF w.age = Hour THEN 0 ELSE w.age)
           /\ Current(w).used = (IF w.age = Hour THEN 0 ELSE w.used)
           /\ \A n \in Nat : LET new == [w EXCEPT !.used = @ + n] IN
                 new \in Window /\ new.age = w.age /\ new.used = w.used + n
           /\ Aged(w) \in Window /\ Aged(w).used = w.used
           /\ Aged(w).age = (IF w.age < Hour THEN w.age + 1 ELSE Hour)
  <1>1. w.age \in 0 .. Hour /\ w.age \in Nat /\ w.used \in Nat
    BY HourTyped DEF Window
  <1>2. /\ Current(w) \in Window /\ Current(w).age < Hour
        /\ Current(w).age = (IF w.age = Hour THEN 0 ELSE w.age)
        /\ Current(w).used = (IF w.age = Hour THEN 0 ELSE w.used)
    <2>1. [age |-> 0, used |-> 0] \in Window
      BY HourTyped DEF Window
    <2>2. QED
      BY <1>1, <2>1, HourTyped DEF Current
  <1>3. ASSUME NEW n \in Nat
        PROVE  LET new == [w EXCEPT !.used = @ + n] IN
               new \in Window /\ new.age = w.age /\ new.used = w.used + n
    BY <1>1, <1>3 DEF Window
  <1>4. /\ Aged(w) \in Window /\ Aged(w).used = w.used
        /\ Aged(w).age = (IF w.age < Hour THEN w.age + 1 ELSE Hour)
    <2> DEFINE up == IF w.age < Hour THEN w.age + 1 ELSE Hour
    <2>1. up \in Age
      BY <1>1, HourTyped
    <2>2. Aged(w) = [w EXCEPT !.age = up]
      BY DEF Aged
    <2> HIDE DEF up
    <2>3. [w EXCEPT !.age = up] \in Window /\ [w EXCEPT !.age = up].used = w.used /\ [w EXCEPT !.age = up].age = up
      BY <2>1 DEF Window
    <2>4. QED
      BY <2>2, <2>3 DEF up
  <1>5. QED
    BY <1>1, <1>2, <1>3, <1>4

\* A window covers what its operations let through when it counts one more,
\* let through or not.
LEMMA CountCovers ==
    ASSUME NEW caps \in [Past -> Nat], NEW w \in Window, NEW S, Numbered(S), Covers(w, caps, S),
           NEW new \in Window, new.age = Current(w).age, new.used = Current(w).used + 1
    PROVE  /\ Covers(new, caps, S)
           /\ \A limit \in Nat : (\A n \in Past : limit <= caps[n]) /\ Current(w).used < limit => Covers(new, caps, OneMore(S))
  <1>1. /\ w.age \in Nat /\ w.age <= Hour /\ w.used \in Nat
        /\ new.age = (IF w.age = Hour THEN 0 ELSE w.age) /\ new.age \in Nat /\ new.age < Hour
        /\ new.used = (IF w.age = Hour THEN 0 ELSE w.used) + 1
    BY WindowWith, HourTyped
  <1>2. \A n \in Past : n \in Nat /\ n \in 0 .. Hour /\ caps[n] \in Nat
    BY HourTyped DEF Past
  <1>3. \A n \in Nat : Cardinality(Since(S, n)) \in Nat
    BY SinceCounts
  <1>4. CASE w.age = Hour
    <2>1. Since(S, 0) = {} /\ Cardinality(Since(S, 0)) = 0
      BY <1>4, FS_EmptySet DEF Covers, Past
    <2>2. ASSUME NEW n \in Past
          PROVE  Cardinality(Between(S, 0, n)) <= caps[n]
      <3>1. \A t \in S : t.age \in Nat /\ ~(t.age <= 0)
        BY <2>1, AttemptIs DEF Since, Numbered
      <3>2. Between(S, 0, n) = Since(S, n)
        BY <3>1 DEF Between, Since
      <3>3. QED
        BY <1>4, <3>2, HourTyped DEF Covers, Past
    <2>3. new.age = 0 /\ new.used = 1
      BY <1>1, <1>4
    <2>4. Covers(new, caps, S)
      BY <1>2, <2>1, <2>2, <2>3, HourTyped DEF Covers, Past
    <2>5. ASSUME NEW limit \in Nat, \A n \in Past : limit <= caps[n], Current(w).used < limit
          PROVE  Covers(new, caps, OneMore(S))
      <3>1. Cardinality(Since(OneMore(S), 0)) = 1
        BY <2>1, OneMoreCounts
      <3>2. \A n \in Past : Between(OneMore(S), 0, n) = Between(S, 0, n)
        BY <1>2, OneMoreCounts
      <3>3. \A n \in Past : 1 <= caps[n]
        BY <1>2, <1>4, <2>5, WindowWith
      <3>4. QED
        BY <2>2, <2>3, <3>1, <3>2, <3>3, HourTyped DEF Covers, Past
    <2>6. QED
      BY <2>4, <2>5
  <1>5. CASE w.age < Hour
    <2>1. new.age = w.age /\ new.used = w.used + 1
      BY <1>1, <1>5, HourTyped
    <2>2. Cardinality(Since(S, w.age)) <= w.used /\ Cardinality(Since(S, w.age)) \in Nat
      BY <1>1, <1>3, <1>5 DEF Covers, Past
    <2>3. Covers(new, caps, S)
      BY <1>1, <1>5, <2>1, <2>2 DEF Covers, Past
    <2>4. ASSUME NEW limit \in Nat, \A n \in Past : limit <= caps[n], Current(w).used < limit
          PROVE  Covers(new, caps, OneMore(S))
      <3>1. \A n \in Nat : Cardinality(Since(OneMore(S), n)) = Cardinality(Since(S, n)) + 1
        BY OneMoreCounts
      <3>2. ASSUME NEW n \in Past, n <= w.age
            PROVE  Cardinality(Since(OneMore(S), n)) <= caps[n]
        <4>1. n \in Nat /\ Cardinality(Since(S, n)) <= Cardinality(Since(S, w.age))
              /\ Cardinality(Since(S, n)) \in Nat
          BY <1>1, <1>2, <3>2, SinceCounts
        <4>2. w.used < limit /\ limit <= caps[n] /\ limit \in Nat /\ caps[n] \in Nat
          BY <1>1, <1>2, <1>5, <2>4, WindowWith, HourTyped
        <4>3. QED
          BY <1>1, <2>2, <3>1, <4>1, <4>2
      <3>3. \A n \in Past : Between(OneMore(S), w.age, n) = Between(S, w.age, n)
        BY <1>1, <1>2, OneMoreCounts
      <3>4. Cardinality(Since(OneMore(S), w.age)) <= w.used + 1
        BY <1>1, <2>2, <3>1
      <3>5. QED
        BY <1>1, <1>5, <2>1, <3>2, <3>3, <3>4 DEF Covers, Past
    <2>5. QED
      BY <2>3, <2>4
  <1>6. QED
    BY <1>1, <1>4, <1>5, HourTyped

\* With the tick all ages advance, those of the limits too.
LEMMA TickCovers ==
    ASSUME NEW caps \in [Past -> Nat], NEW w \in Window, NEW S, Numbered(S), Covers(w, caps, S),
           NEW later \in [Past -> Nat], \A n \in Past : n + 1 \in Past => caps[n] <= later[n + 1]
    PROVE  Numbered(Kept(Older(S))) /\ Covers(Aged(w), later, Kept(Older(S)))
  <1> DEFINE O == Kept(Older(S))
             a == Aged(w).age
  <1>1. /\ w.age \in Nat /\ w.age <= Hour /\ w.used \in Nat /\ Aged(w).used = w.used
        /\ a = (IF w.age < Hour THEN w.age + 1 ELSE Hour) /\ a \in Nat
    BY WindowWith, HourTyped
  <1>2. /\ Numbered(O) /\ Since(O, 0) = {}
        /\ \A n \in Nat : Cardinality(Since(O, n + 1)) <= Cardinality(Since(S, n))
        /\ \A low \in Nat, high \in Nat :
              Cardinality(Between(O, low + 1, high + 1)) <= Cardinality(Between(S, low, high))
    BY OlderCounts
  <1>3. /\ \A n \in Past : n \in Nat /\ n < Hour /\ caps[n] \in Nat /\ later[n] \in Nat
        /\ \A n \in Past : n # 0 => n - 1 \in Past
    BY HourTyped DEF Past
  <1>4. /\ \A n \in Nat : Cardinality(Since(S, n)) \in Nat /\ Cardinality(Since(O, n)) \in Nat
        /\ \A low, high : Cardinality(Between(S, low, high)) \in Nat
        /\ \A low, high : Cardinality(Between(O, low, high)) \in Nat
    BY <1>2, SinceCounts, BetweenCounts
  <1> HIDE DEF O, a
  <1>5. Cardinality(Since(O, 0)) = 0
    BY <1>2, FS_EmptySet
  <1>6. ASSUME NEW n \in Past, n <= a
        PROVE  Cardinality(Since(O, n)) <= later[n]
    <2>1. CASE n = 0
      BY <1>3, <1>5, <2>1
    <2>2. CASE n # 0
      <3> DEFINE m == n - 1
      <3>1. m \in Nat /\ m \in Past /\ m <= w.age /\ n = m + 1
        BY <1>1, <1>3, <1>6, <2>2, HourTyped
      <3> HIDE DEF m
      <3>2. Cardinality(Since(S, m)) <= caps[m] /\ caps[m] <= later[n]
        BY <3>1 DEF Covers, Past
      <3>3. Cardinality(Since(O, n)) <= Cardinality(Since(S, m))
        BY <1>2, <3>1
      <3>4. /\ Cardinality(Since(O, n)) \in Nat /\ Cardinality(Since(S, m)) \in Nat
            /\ caps[m] \in Nat /\ later[n] \in Nat
        BY <1>3, <1>4, <3>1
      <3>5. QED
        BY <3>2, <3>3, <3>4
    <2>3. QED
      BY <2>1, <2>2
  <1>7. ASSUME a < Hour
        PROVE  Cardinality(Since(O, a)) <= Aged(w).used
    <2>1. a = w.age + 1 /\ w.age < Hour
      BY <1>1, <1>7, HourTyped
    <2>2. Cardinality(Since(O, a)) <= Cardinality(Since(S, w.age)) /\ Cardinality(Since(S, w.age)) <= w.used
      BY <1>1, <1>2, <2>1 DEF Covers, Past
    <2>3. QED
      BY <1>1, <1>4, <2>2
  <1>8. ASSUME NEW n \in Past
        PROVE  Cardinality(Between(O, a, n)) <= later[n]
    <2>1. CASE n <= a
      <3>1. Between(O, a, n) = {}
        <4>1. \A t \in O : t.age \in Nat
          BY <1>2, AttemptIs DEF Numbered
        <4>2. QED
          BY <1>1, <1>3, <2>1, <4>1 DEF Between
      <3>2. QED
        BY <1>3, <3>1, FS_EmptySet
    <2>2. CASE ~(n <= a)
      <3> DEFINE m == n - 1
      <3>1. m \in Nat /\ m \in Past /\ n = m + 1 /\ a = w.age + 1
        BY <1>1, <1>3, <2>2, HourTyped
      <3> HIDE DEF m
      <3>2. Cardinality(Between(S, w.age, m)) <= caps[m] /\ caps[m] <= later[n]
        BY <3>1 DEF Covers, Past
      <3>3. Cardinality(Between(O, a, n)) <= Cardinality(Between(S, w.age, m))
        BY <1>1, <1>2, <3>1
      <3>4. /\ Cardinality(Between(O, a, n)) \in Nat /\ Cardinality(Between(S, w.age, m)) \in Nat
            /\ caps[m] \in Nat /\ later[n] \in Nat
        BY <1>3, <1>4, <3>1
      <3>5. QED
        BY <3>2, <3>3, <3>4
    <2>3. QED
      BY <2>1, <2>2
  <1>9. QED
    BY <1>2, <1>6, <1>7, <1>8 DEF O, a, Covers

-----------------------------------------------------------------------------
(* The settings.                                                           *)

\* What is in force is acceptable.
LEMMA InForceIs ==
    ASSUME NEW m, NEW l \in LimitKey, m[l] \in Int \cup {Unset}
    PROVE  InForce(m, l) \in Nat /\ InForce(m, l) >= LowestLimit[l]
  <1>1. /\ l \notin SwitchKey /\ DefaultLimit[l] \in Int /\ LowestLimit[l] \in {0, 1}
        /\ DefaultLimit[l] >= LowestLimit[l]
    BY SettingsAssumption
  <1>2. CASE m[l] = Unset \/ m[l] < LowestLimit[l]
    BY <1>1, <1>2 DEF InForce
  <1>3. CASE ~(m[l] = Unset \/ m[l] < LowestLimit[l])
    BY <1>1, <1>3 DEF InForce
  <1>4. QED
    BY <1>2, <1>3

SettingsTyped ==
    /\ DOMAIN meta = Setting /\ \A l \in LimitKey : meta[l] \in Int \cup {Unset}
    /\ post \in [DOMAIN post -> Int] /\ DOMAIN post \subseteq LimitKey

LEMMA SettingsStep ==
    ASSUME SettingsTyped, NextSettings \/ UNCHANGED settingsVars
    PROVE  SettingsTyped'
  <1> USE DEF SettingsTyped
  <1>1. ASSUME NEW p \in LimitPost, PostLimits(p)
        PROVE  SettingsTyped'
    BY <1>1, SettingsAssumption DEF PostLimits
  <1>2. CASE SetLimits
    <2>1. PICK limit \in DOMAIN post :
              IF post[limit] < LowestLimit[limit] THEN post' = NoPost /\ UNCHANGED meta
              ELSE /\ Store(limit, post[limit])
                   /\ post' = [l \in DOMAIN post \ {limit} |-> post[l]]
      BY <1>2 DEF SetLimits
    <2>2. CASE post' = NoPost /\ UNCHANGED meta
      BY <2>2 DEF NoPost
    <2>3. CASE /\ Store(limit, post[limit])
               /\ post' = [l \in DOMAIN post \ {limit} |-> post[l]]
      <3>1. post[limit] \in Int
        OBVIOUS
      <3>2. meta' = [meta EXCEPT ![limit] = post[limit]]
        BY <2>3 DEF Store
      <3>3. DOMAIN meta' = Setting /\ \A l \in LimitKey : meta'[l] \in Int \cup {Unset}
        BY <3>1, <3>2 DEF Setting
      <3>4. post' \in [DOMAIN post' -> Int] /\ DOMAIN post' \subseteq LimitKey
        BY <2>3
      <3>5. QED
        BY <3>3, <3>4
    <2>4. QED
      BY <2>1, <2>2, <2>3
  <1>3. ASSUME NEW s \in SwitchKey, NEW enabled \in BOOLEAN, SetSwitch(s, enabled)
        PROVE  SettingsTyped'
    <2>1. meta' = [meta EXCEPT ![s] = enabled] /\ s \notin LimitKey /\ UNCHANGED post
      BY <1>3, SettingsAssumption DEF SetSwitch, Store
    <2>2. QED
      BY <2>1
  <1>4. CASE UNCHANGED settingsVars
    BY <1>4 DEF settingsVars
  <1>5. QED
    BY <1>1, <1>2, <1>3, <1>4 DEF NextSettings

\* The admin may raise the highest limits, and no window minds that.
LEMMA CoversMore ==
    ASSUME NEW caps \in [Past -> Nat], NEW w \in Window, NEW S, Numbered(S), Covers(w, caps, S),
           NEW more \in [Past -> Nat], \A n \in Past : caps[n] <= more[n]
    PROVE  Covers(w, more, S)
  <1>1. /\ \A n \in Past : n \in Nat /\ caps[n] \in Nat /\ more[n] \in Nat
        /\ \A n \in Nat : Cardinality(Since(S, n)) \in Nat
        /\ \A n \in Past : Cardinality(Between(S, w.age, n)) \in Nat
    BY SinceCounts, BetweenCounts DEF Past
  <1>2. QED
    BY <1>1 DEF Covers

LEMMA CapsTyped ==
    ASSUME LatelyOK, ceiling \in [1 .. Hour -> Nat], NEW k \in Kinds
    PROVE  /\ Recently(lately["send_rate"]) /\ Caps(k) \in [Past -> Nat]
           /\ \A n \in Past : /\ Caps(k)[n] = CapOf(lately["send_rate"], ceiling, k, n)
                              /\ Caps(k)[n] = Highest(k, n)
                              /\ \A limit \in Limits(k) : limit \in Nat /\ limit <= Caps(k)[n]
                              /\ \A m \in 0 .. n : Caps(k)[m] <= Caps(k)[n]
  <1>1. Recently(lately["send_rate"])
    BY HourTyped DEF LatelyOK, Recently
  <1>2. \A n \in Past : n \in 0 .. Hour /\ n \in Nat /\ \A m \in 0 .. n : m \in Past
    BY HourTyped DEF Past
  <1>3. ASSUME NEW n \in Past
        PROVE  /\ CapOf(lately["send_rate"], ceiling, k, n) \in Nat
               /\ k = "send" => \A limit \in lately["send_rate"] :
                                   limit <= CapOf(lately["send_rate"], ceiling, k, n)
               /\ \A m \in 0 .. n : CapOf(lately["send_rate"], ceiling, k, m)
                                        <= CapOf(lately["send_rate"], ceiling, k, n)
    BY <1>1, <1>2, CapsAre
  <1>4. ASSUME NEW n \in Past
        PROVE  \A limit \in Limits(k) : limit \in Nat /\ limit <= CapOf(lately["send_rate"], ceiling, k, n)
    <2>1. CASE k = "send"
      BY <1>1, <1>3, <2>1 DEF Limits, Recently
    <2>2. CASE k # "send"
      BY <1>3, <2>2, HourTyped DEF Limits, CapOf
    <2>3. QED
      BY <2>1, <2>2
  <1>5. \A n \in Past : CapOf(lately["send_rate"], ceiling, k, n) = Highest(k, n)
    BY DEF CapOf, Highest, Compared
  <1>6. QED
    BY <1>1, <1>2, <1>3, <1>4, <1>5 DEF Caps

-----------------------------------------------------------------------------
(* The steps.                                                              *)

WindowsTyped ==
    /\ rates \in [Kinds -> [Address -> Window]]
    /\ recvRates \in [Address -> Window]
    /\ received \in [Address -> Nat]

AttemptsTyped ==
    /\ hits \in [Limiter -> [Client -> SUBSET Attempt]]
    /\ tried \in [Limiter -> [Client -> SUBSET Attempt]]

WindowsOK ==
    /\ passed \in [Kinds -> [Address -> SUBSET Attempt]]
    /\ \A k \in Kinds, a \in Address : Numbered(passed[k][a]) /\ Covers(rates[k][a], Caps(k), passed[k][a])

AttemptsOK == \A l \in Limiter, c \in Client : Numbered(tried[l][c]) /\ tried[l][c] = Kept(hits[l][c])

LimitsOK == SettingsTyped /\ LatelyOK /\ ceiling \in [1 .. Hour -> Nat]

LEMMA RatesInvIs ==
    RatesInv <=> LimitsOK /\ WindowsTyped /\ AttemptsTyped /\ WindowsOK /\ AttemptsOK
  <1>1. ASSUME LimitsOK
        PROVE  \A l \in LimitKey : InForce(meta, l) >= LowestLimit[l]
    BY <1>1, InForceIs DEF LimitsOK, SettingsTyped
  <1>2. QED
    BY <1>1 DEF RatesInv, RatesTypeOK, LimitsOK, SettingsTyped, LatelyOK, WindowsTyped,
                AttemptsTyped, WindowsOK, AttemptsOK

\* And after a step.
LEMMA RatesInvNext ==
    ASSUME LimitsOK', WindowsTyped', AttemptsTyped', WindowsOK', AttemptsOK'
    PROVE  RatesInv'
  <1>1. \A l \in LimitKey : InForce(meta', l) >= LowestLimit[l]
    BY InForceIs DEF LimitsOK, SettingsTyped
  <1>2. QED
    BY <1>1 DEF RatesInv, RatesTypeOK, LimitsOK, SettingsTyped, LatelyOK, WindowsTyped,
                AttemptsTyped, WindowsOK, AttemptsOK

LEMMA SameLimits ==
    ASSUME LimitsOK, UNCHANGED unlimited
    PROVE  LimitsOK' /\ \A k \in Kinds : Caps(k)' = Caps(k)
  BY DEF LimitsOK, SettingsTyped, LatelyOK, unlimited, settingsVars, Caps, Setting

\* One window counts.
LEMMA CountStep ==
    ASSUME RatesInv, NEW k \in Kinds, NEW a \in Address, NEW limit \in Limits(k), Count(k, a, limit),
           UNCHANGED unlimited
    PROVE  rates' \in [Kinds -> [Address -> Window]] /\ WindowsOK'
  <1> DEFINE w == rates[k][a]
             new == [Current(w) EXCEPT !.used = @ + 1]
  <1>1. LimitsOK /\ WindowsTyped /\ WindowsOK /\ w \in Window
    BY RatesInvIs DEF WindowsTyped
  <1>2. /\ Hour \in Nat /\ Caps(k) \in [Past -> Nat] /\ limit \in Nat
        /\ \A n \in Past : limit <= Caps(k)[n]
    <2>1. 0 \in Past
      BY HourTyped DEF Past
    <2>2. QED
      BY <1>1, <2>1, CapsTyped, HourTyped DEF LimitsOK
  <1>3. new \in Window /\ new.age = Current(w).age /\ new.used = Current(w).used + 1
    <2>1. Current(w) \in Window
      BY <1>1, WindowWith
    <2> DEFINE v == Current(w)
    <2> HIDE DEF v
    <2>2. v \in Window => /\ [v EXCEPT !.used = @ + 1] \in Window
                         /\ [v EXCEPT !.used = @ + 1].age = v.age
                         /\ [v EXCEPT !.used = @ + 1].used = v.used + 1
      BY WindowWith
    <2>3. QED
      BY <2>1, <2>2 DEF v
  <1>4. rates' = [rates EXCEPT ![k][a] = new]
    BY DEF Count
  <1>5. passed' = IF Current(w).used < limit THEN [passed EXCEPT ![k][a] = OneMore(@)] ELSE passed
    BY DEF Count, Within
  <1> HIDE DEF new, w
  <1>6. /\ rates' \in [Kinds -> [Address -> Window]] /\ rates'[k][a] = new
        /\ \A l \in Kinds, b \in Address : <<l, b>> # <<k, a>> => rates'[l][b] = rates[l][b]
    BY <1>1, <1>3, <1>4 DEF WindowsTyped
  <1>7. Numbered(passed[k][a]) /\ Covers(w, Caps(k), passed[k][a])
    BY <1>1 DEF WindowsOK, w
  <1>8. Covers(new, Caps(k), passed[k][a])
    BY <1>1, <1>2, <1>3, <1>7, CountCovers
  <1>9. \A l \in Kinds : Caps(l)' = Caps(l)
    BY <1>1, SameLimits
  <1>10. CASE Current(w).used < limit
    <2>1. Numbered(OneMore(passed[k][a])) /\ Covers(new, Caps(k), OneMore(passed[k][a]))
      BY <1>1, <1>2, <1>3, <1>7, <1>10, CountCovers, OneMoreCounts
    <2>2. passed' = [passed EXCEPT ![k][a] = OneMore(@)]
      BY <1>5, <1>10
    <2>3. OneMore(passed[k][a]) \in SUBSET Attempt
      BY <2>1 DEF Numbered
    <2>4. /\ passed' \in [Kinds -> [Address -> SUBSET Attempt]] /\ passed'[k][a] = OneMore(passed[k][a])
          /\ \A l \in Kinds, b \in Address : <<l, b>> # <<k, a>> => passed'[l][b] = passed[l][b]
      BY <1>1, <2>2, <2>3 DEF WindowsOK
    <2>5. ASSUME NEW l \in Kinds, NEW b \in Address
          PROVE  Numbered(passed'[l][b]) /\ Covers(rates'[l][b], Caps(l), passed'[l][b])
      <3>1. CASE l = k /\ b = a
        BY <1>6, <2>1, <2>4, <3>1
      <3>2. CASE ~(l = k /\ b = a)
        BY <1>1, <1>6, <2>4, <3>2 DEF WindowsOK
      <3>3. QED
        BY <3>1, <3>2
    <2>6. QED
      BY <1>6, <1>9, <2>4, <2>5 DEF WindowsOK
  <1>11. CASE ~(Current(w).used < limit)
    <2>1. passed' = passed
      BY <1>5, <1>11
    <2>2. ASSUME NEW l \in Kinds, NEW b \in Address
          PROVE  Numbered(passed[l][b]) /\ Covers(rates'[l][b], Caps(l), passed[l][b])
      <3>1. CASE l = k /\ b = a
        BY <1>6, <1>7, <1>8, <3>1
      <3>2. CASE ~(l = k /\ b = a)
        BY <1>1, <1>6, <3>2 DEF WindowsOK
      <3>3. QED
        BY <3>1, <3>2
    <2>3. QED
      BY <1>1, <1>6, <1>9, <2>1, <2>2 DEF WindowsOK
  <1>12. QED
    BY <1>6, <1>10, <1>11

\* What an endpoint may do to the attempts of clients: those of the hour stay
\* the ones that were let through, and one that is let through is within the
\* limit of the endpoint.
LEMMA AllowStep ==
    ASSUME AttemptsTyped, AttemptsOK, NEW l \in Limiter, NEW ip \in Client, NEW limit \in Nat,
           Allow(l, ip, limit)
    PROVE  /\ AttemptsTyped' /\ AttemptsOK'
           /\ \A m \in Limiter, c \in Client :
                 Recent(tried'[m][c]) > Recent(tried[m][c]) =>
                     m = l /\ Recent(tried'[m][c]) <= limit /\ Recent(tried'[m][c]) = Recent(hits'[m][c])
  <1> DEFINE T == tried[l][ip]
             kept == Kept(hits[l][ip])
             accepted == [hits[l] EXCEPT ![ip] = OneMore(kept)]
  <1>1. /\ Numbered(T) /\ kept = T /\ Kept(T) = T /\ T \in SUBSET Attempt
        /\ Numbered(OneMore(T)) /\ Kept(OneMore(T)) = OneMore(T) /\ OneMore(T) \in SUBSET Attempt
    <2>1. Numbered(T) /\ kept = T
      BY DEF AttemptsOK
    <2>2. QED
      BY <2>1, OneMoreCounts DEF Numbered
  <1>2. \A S : Kept(Kept(S)) = Kept(S) /\ Kept(S) \subseteq S
    BY DEF Kept
  <1>3. \A m \in Limiter, c \in Client :
            /\ Recent(tried[m][c]) = Cardinality(tried[m][c]) /\ Cardinality(tried[m][c]) \in Nat
            /\ Recent(hits[m][c]) = Cardinality(tried[m][c])
    BY OneMoreCounts, FS_CardinalityType DEF AttemptsOK, Recent, Numbered
  <1>4. CASE UNCHANGED <<hits, tried>>
    <2>1. AttemptsTyped' /\ AttemptsOK'
      BY <1>4 DEF AttemptsTyped, AttemptsOK
    <2>2. QED
      BY <1>3, <1>4, <2>1
  <1>5. CASE hits' = [hits EXCEPT ![l][ip] = kept] /\ UNCHANGED tried
    <2>1. /\ hits' \in [Limiter -> [Client -> SUBSET Attempt]] /\ hits'[l][ip] = T
          /\ \A m \in Limiter, c \in Client : <<m, c>> # <<l, ip>> => hits'[m][c] = hits[m][c]
      BY <1>1, <1>5 DEF AttemptsTyped
    <2>2. AttemptsTyped' /\ AttemptsOK'
      BY <1>1, <1>5, <2>1 DEF AttemptsTyped, AttemptsOK
    <2>3. QED
      BY <1>3, <1>5, <2>2
  <1>6. CASE /\ ~(Recent(kept) >= limit)
             /\ \E many \in BOOLEAN : hits' = [hits EXCEPT ![l] =
                       IF many THEN [c \in Client |-> Kept(accepted[c])] ELSE accepted]
             /\ tried' = [tried EXCEPT ![l][ip] = OneMore(@)]
    <2>1. PICK many \in BOOLEAN : hits' = [hits EXCEPT ![l] =
                       IF many THEN [c \in Client |-> Kept(accepted[c])] ELSE accepted]
      BY <1>6
    <2>2. /\ accepted \in [Client -> SUBSET Attempt] /\ accepted[ip] = OneMore(T)
          /\ \A c \in Client : c # ip => accepted[c] = hits[l][c]
      BY <1>1 DEF AttemptsTyped
    <2>3. /\ tried' \in [Limiter -> [Client -> SUBSET Attempt]] /\ tried'[l][ip] = OneMore(T)
          /\ \A m \in Limiter, c \in Client : <<m, c>> # <<l, ip>> => tried'[m][c] = tried[m][c]
      BY <1>1, <1>6 DEF AttemptsTyped
    <2> HIDE DEF accepted, kept
    <2>4. /\ hits' \in [Limiter -> [Client -> SUBSET Attempt]]
          /\ \A c \in Client : Kept(hits'[l][c]) = Kept(accepted[c])
          /\ \A m \in Limiter, c \in Client : m # l => hits'[m][c] = hits[m][c]
      <3>1. CASE many
        <4>1. [c \in Client |-> Kept(accepted[c])] \in [Client -> SUBSET Attempt]
          BY <1>2, <2>2
        <4>2. QED
          BY <1>2, <2>1, <3>1, <4>1 DEF AttemptsTyped
      <3>2. CASE ~many
        BY <2>1, <2>2, <3>2 DEF AttemptsTyped
      <3>3. QED
        BY <3>1, <3>2
    <2>5. ASSUME NEW m \in Limiter, NEW c \in Client
          PROVE  Numbered(tried'[m][c]) /\ tried'[m][c] = Kept(hits'[m][c])
      <3>1. CASE m = l /\ c = ip
        BY <1>1, <2>2, <2>3, <2>4, <3>1
      <3>2. CASE m = l /\ c # ip
        BY <2>2, <2>3, <2>4, <3>2 DEF AttemptsOK
      <3>3. CASE m # l
        BY <2>3, <2>4, <3>3 DEF AttemptsOK
      <3>4. QED
        BY <3>1, <3>2, <3>3
    <2>6. Cardinality(OneMore(T)) <= limit /\ Recent(OneMore(T)) = Cardinality(OneMore(T))
      <3>1. Cardinality(T) < limit /\ Cardinality(T) \in Nat
        BY <1>1, <1>3, <1>6 DEF Recent
      <3>2. Since(T, Hour) = T /\ Since(OneMore(T), Hour) = OneMore(T)
        <4>1. \A S : Numbered(S) => Since(S, Hour) = S
          BY AttemptIs DEF Numbered, Since
        <4>2. QED
          BY <1>1, <4>1
      <3>3. Cardinality(OneMore(T)) = Cardinality(T) + 1
        BY <1>1, <3>2, OneMoreCounts, HourTyped
      <3>4. QED
        BY <1>1, <3>1, <3>3 DEF Recent
    <2>7. AttemptsTyped' /\ AttemptsOK'
      BY <2>3, <2>4, <2>5 DEF AttemptsTyped, AttemptsOK
    <2>8. ASSUME NEW m \in Limiter, NEW c \in Client, Recent(tried'[m][c]) > Recent(tried[m][c])
          PROVE  m = l /\ Recent(tried'[m][c]) <= limit /\ Recent(tried'[m][c]) = Recent(hits'[m][c])
      <3>1. m = l /\ c = ip
        BY <1>3, <2>3, <2>8
      <3>2. Recent(tried'[l][ip]) = Recent(hits'[l][ip])
        BY <1>1, <2>2, <2>3, <2>4 DEF Recent
      <3>3. QED
        BY <2>3, <2>6, <3>1, <3>2
    <2>9. QED
      BY <2>7, <2>8
  <1>7. QED
    BY <1>4, <1>5, <1>6 DEF Allow

LEMMA SendStep ==
    ASSUME RatesInv, NEW from \in Address, NEW to \in SUBSET Address, NEW size \in Size,
           NEW limit \in Limits("send"), NEW byteLimit, HandleSend(from, to, size, limit, byteLimit)
    PROVE  RatesInv'
  <1> DEFINE budget == [a \in to |-> Current(recvRates[a])]
             valid == {a \in to : budget[a].used + size <= byteLimit}
             delivered == IF valid = {} THEN {} ELSE to
  <1>1. LimitsOK /\ WindowsTyped /\ AttemptsTyped /\ AttemptsOK
    BY RatesInvIs
  <1>2. rates' \in [Kinds -> [Address -> Window]] /\ WindowsOK'
    BY CountStep DEF HandleSend, Kinds
  <1>3. size \in Nat
    BY RateAssumption
  <1>4. recvRates' = [a \in Address |->
                         IF a \in valid THEN [budget[a] EXCEPT !.used = @ + size]
                         ELSE IF a \in to THEN budget[a] ELSE recvRates[a]]
    BY DEF HandleSend
  <1>5. received' = [a \in Address |->
                        (IF a \in to /\ recvRates[a].age = Hour THEN 0 ELSE received[a])
                            + (IF a \in delivered THEN size ELSE 0)]
    BY DEF HandleSend
  <1>6. \A a \in to : budget[a] \in Window /\ [budget[a] EXCEPT !.used = @ + size] \in Window
    <2>1. \A w \in Window : Current(w) \in Window /\ [w EXCEPT !.used = @ + size] \in Window
      BY <1>3, WindowWith
    <2>2. \A a \in to : recvRates[a] \in Window /\ budget[a] = Current(recvRates[a])
      BY <1>1 DEF WindowsTyped
    <2>3. QED
      BY <2>1, <2>2
  <1> HIDE DEF budget, valid, delivered
  <1>7. received' \in [Address -> Nat]
    BY <1>1, <1>3, <1>5 DEF WindowsTyped
  <1>8. recvRates' \in [Address -> Window]
    <2>1. valid \subseteq to
      BY DEF valid
    <2>2. QED
      BY <1>1, <1>4, <1>6, <2>1 DEF WindowsTyped
  <1>9. LimitsOK'
    BY <1>1, SameLimits DEF HandleSend
  <1>10. AttemptsTyped' /\ AttemptsOK'
    BY <1>1 DEF HandleSend, AttemptsTyped, AttemptsOK
  <1>11. QED
    BY <1>2, <1>7, <1>8, <1>9, <1>10, RatesInvNext DEF WindowsTyped

LEMMA OperationStep ==
    ASSUME RatesInv, NEW kind \in Kinds, NEW a \in Address, CountOperation(kind, a)
    PROVE  RatesInv'
  <1>1. LimitsOK /\ WindowsTyped /\ AttemptsTyped /\ AttemptsOK
    BY RatesInvIs
  <1>2. rates' \in [Kinds -> [Address -> Window]] /\ WindowsOK'
    <2>1. FixedLimit[kind] \in Limits(kind) /\ Count(kind, a, FixedLimit[kind]) /\ UNCHANGED unlimited
      BY DEF CountOperation, Limits
    <2>2. QED
      BY <2>1, CountStep
  <1>3. LimitsOK'
    BY <1>1, SameLimits DEF CountOperation
  <1>4. AttemptsTyped' /\ AttemptsOK'
    BY <1>1 DEF CountOperation, AttemptsTyped, AttemptsOK
  <1>5. WindowsTyped'
    BY <1>1, <1>2 DEF CountOperation, WindowsTyped
  <1>6. QED
    BY <1>2, <1>3, <1>4, <1>5, RatesInvNext

\* A step that lets an attempt through lets it through within a limit.
WithinLimits ==
    \A l \in Limiter, c \in Client :
        Recent(tried'[l][c]) > Recent(tried[l][c]) =>
            \E limit \in IF l = "push" THEN {PushIPLimit} ELSE RegisterLimits :
                Recent(tried'[l][c]) <= limit /\ Recent(tried'[l][c]) = Recent(hits'[l][c])

LEMMA TriedCounts ==
    ASSUME RatesInv
    PROVE  /\ \A l \in Limiter, c \in Client : Recent(tried[l][c]) \in Nat
           /\ UNCHANGED tried => WithinLimits
  <1>1. \A l \in Limiter, c \in Client : Recent(tried[l][c]) \in Nat
    BY RatesInvIs, OneMoreCounts, FS_CardinalityType DEF AttemptsOK, Recent, Numbered
  <1>2. QED
    BY <1>1 DEF WithinLimits

LEMMA SubscribeStep ==
    ASSUME RatesInv, NEW a \in Address, NEW ip \in Client, PushSubscribe(a, ip)
    PROVE  RatesInv' /\ WithinLimits
  <1>1. LimitsOK /\ WindowsTyped /\ AttemptsTyped /\ AttemptsOK
    BY RatesInvIs
  <1>2. rates' \in [Kinds -> [Address -> Window]] /\ WindowsOK'
    <2>1. /\ "push" \in Kinds /\ FixedLimit["push"] \in Limits("push")
          /\ Count("push", a, FixedLimit["push"]) /\ UNCHANGED unlimited
      BY DEF PushSubscribe, Limits, Kinds
    <2>2. QED
      BY <2>1, CountStep
  <1>3. LimitsOK'
    BY <1>1, SameLimits DEF PushSubscribe
  <1>4. WindowsTyped'
    BY <1>1, <1>2 DEF PushSubscribe, WindowsTyped
  <1>5. AttemptsTyped' /\ AttemptsOK' /\ WithinLimits
    <2>1. CASE UNCHANGED <<hits, tried>>
      BY <1>1, <2>1, TriedCounts DEF AttemptsTyped, AttemptsOK
    <2>2. CASE Allow("push", ip, PushIPLimit)
      <3>1. "push" \in Limiter /\ PushIPLimit \in Nat
        BY HourTyped DEF Limiter
      <3>2. QED
        BY <1>1, <2>2, <3>1, AllowStep DEF WithinLimits
    <2>3. QED
      BY <2>1, <2>2 DEF PushSubscribe
  <1>6. QED
    BY <1>2, <1>3, <1>4, <1>5, RatesInvNext

LEMMA RegisterStep ==
    ASSUME RatesInv, NEW ip \in Client, NEW limit \in RegisterLimits, RegisterFrom(ip, limit)
    PROVE  RatesInv' /\ WithinLimits
  <1>1. LimitsOK /\ WindowsTyped /\ AttemptsTyped /\ WindowsOK /\ AttemptsOK
    BY RatesInvIs
  <1>2. LimitsOK' /\ \A k \in Kinds : Caps(k)' = Caps(k)
    BY <1>1, SameLimits DEF RegisterFrom
  <1>3. WindowsTyped' /\ WindowsOK'
    BY <1>1, <1>2 DEF RegisterFrom, WindowsTyped, WindowsOK
  <1>4. "register" \in Limiter /\ "register" # "push" /\ limit \in Nat
    BY <1>1, HourTyped DEF Limiter, RegisterLimits, LimitsOK, LatelyOK
  <1>5. AttemptsTyped' /\ AttemptsOK' /\ WithinLimits
    BY <1>1, <1>4, AllowStep DEF RegisterFrom, WithinLimits
  <1>6. QED
    BY <1>2, <1>3, <1>5, RatesInvNext

LEMMA ChangeStep ==
    ASSUME RatesInv, ChangeSettings
    PROVE  RatesInv'
  <1>1. LimitsOK /\ WindowsTyped /\ AttemptsTyped /\ WindowsOK /\ AttemptsOK
    BY RatesInvIs
  <1>2. SettingsTyped'
    BY <1>1, SettingsStep DEF ChangeSettings, LimitsOK
  <1>3. \A l \in LimitKey : InForce(meta', l) \in Nat
    BY <1>2, InForceIs DEF SettingsTyped
  <1>4. \A l \in LimitKey : lately'[l] = lately[l] \cup {InForce(meta', l)}
    BY DEF ChangeSettings
  <1>5. \A l \in LimitKey : IsFiniteSet(lately'[l])
    BY <1>1, <1>4, FS_AddElement DEF LimitsOK, LatelyOK
  <1>6. LatelyOK'
    <2>1. lately' \in [LimitKey -> SUBSET Nat]
      BY <1>1, <1>3 DEF ChangeSettings, LimitsOK, LatelyOK
    <2>2. QED
      BY <1>4, <1>5, <2>1 DEF LatelyOK
  <1>7. LimitsOK'
    BY <1>1, <1>2, <1>6 DEF LimitsOK, ChangeSettings, counted
  <1>8. WindowsTyped' /\ AttemptsTyped' /\ AttemptsOK'
    BY <1>1 DEF ChangeSettings, counted, WindowsTyped, AttemptsTyped, AttemptsOK
  <1>9. ASSUME NEW k \in Kinds
        PROVE  /\ Caps(k) \in [Past -> Nat] /\ Caps(k)' \in [Past -> Nat]
               /\ \A n \in Past : Caps(k)[n] <= Caps(k)'[n]
    <2>1. Recently(lately["send_rate"]) /\ Caps(k) \in [Past -> Nat]
      BY <1>1, CapsTyped DEF LimitsOK
    <2>2. Recently(lately'["send_rate"]) /\ lately["send_rate"] \in SUBSET lately'["send_rate"]
      BY <1>4, <1>6, HourTyped DEF LatelyOK, Recently
    <2>3. \A n \in Past : n \in 0 .. Hour
      BY HourTyped DEF Past
    <2>4. ceiling \in [1 .. Hour -> Nat] /\ ceiling' = ceiling
      BY <1>1 DEF LimitsOK, ChangeSettings
    <2>5. \A n \in Past :
              /\ CapOf(lately'["send_rate"], ceiling, k, n) \in Nat
              /\ CapOf(lately["send_rate"], ceiling, k, n) <= CapOf(lately'["send_rate"], ceiling, k, n)
      BY <2>1, <2>2, <2>3, <2>4, CapsGrow, CapsAre
    <2>6. Caps(k)' = [n \in Past |-> CapOf(lately'["send_rate"], ceiling, k, n)]
      BY <2>4 DEF Caps
    <2>7. QED
      BY <2>1, <2>5, <2>6 DEF Caps
  <1>10. WindowsOK'
    <2>1. UNCHANGED <<rates, passed>>
      BY DEF ChangeSettings, counted
    <2>2. ASSUME NEW k \in Kinds, NEW a \in Address
          PROVE  Numbered(passed[k][a]) /\ Covers(rates[k][a], Caps(k)', passed[k][a])
      <3>1. /\ Numbered(passed[k][a]) /\ Covers(rates[k][a], Caps(k), passed[k][a])
            /\ rates[k][a] \in Window
        BY <1>1 DEF WindowsOK, WindowsTyped
      <3>2. QED
        BY <1>9, <3>1, CoversMore
    <2>3. QED
      BY <1>1, <2>1, <2>2 DEF WindowsOK
  <1>11. QED
    BY <1>7, <1>8, <1>10, RatesInvNext

LEMMA TickStep ==
    ASSUME RatesInv, Tick
    PROVE  RatesInv' /\ WithinLimits
  <1>1. LimitsOK /\ WindowsTyped /\ AttemptsTyped /\ WindowsOK /\ AttemptsOK
    BY RatesInvIs
  <1>2. SettingsTyped' /\ meta' = meta
    BY <1>1, SettingsStep DEF Tick, LimitsOK, settingsVars
  <1>3. \A l \in LimitKey : InForce(meta, l) \in Nat
    BY <1>1, InForceIs DEF LimitsOK, SettingsTyped
  <1>4. \A l \in LimitKey : IsFiniteSet({InForce(meta, l)})
    BY FS_Singleton
  <1>5. LatelyOK'
    <2>1. lately' = [l \in LimitKey |-> {InForce(meta, l)}]
      BY DEF Tick
    <2>2. QED
      BY <1>2, <1>3, <1>4, <2>1 DEF LatelyOK
  <1>6. Recently(lately["send_rate"]) /\ Recently(lately'["send_rate"])
    BY <1>1, <1>5, HourTyped DEF LimitsOK, LatelyOK, Recently
  <1>7. /\ ceiling' = [age \in 1 .. Hour |-> IF age = 1 THEN Max(lately["send_rate"]) ELSE ceiling[age - 1]]
        /\ ceiling' \in [1 .. Hour -> Nat]
    <2>1. Max(lately["send_rate"]) \in Nat
      BY <1>6, MaxIs DEF Recently
    <2>2. \A age \in 1 .. Hour : age # 1 => age - 1 \in 1 .. Hour
      BY HourTyped
    <2>3. QED
      BY <1>1, <2>1, <2>2 DEF Tick, LimitsOK
  <1>8. LimitsOK'
    BY <1>2, <1>5, <1>7 DEF LimitsOK
  <1>9. ASSUME NEW k \in Kinds
        PROVE  /\ Caps(k) \in [Past -> Nat] /\ Caps(k)' \in [Past -> Nat]
               /\ \A n \in Past : n + 1 \in Past => Caps(k)[n] <= Caps(k)'[n + 1]
    <2>1. Caps(k) \in [Past -> Nat] /\ ceiling \in [1 .. Hour -> Nat]
      BY <1>1, CapsTyped DEF LimitsOK
    <2>2. \A n \in Past : n \in 0 .. Hour
      BY HourTyped DEF Past
    <2>3. \A n \in Past : CapOf(lately'["send_rate"], ceiling', k, n) \in Nat
      BY <1>6, <1>7, <2>2, CapsAre
    <2>4. \A n \in Past : CapOf(lately["send_rate"], ceiling, k, n)
                               <= CapOf(lately'["send_rate"], ceiling', k, n + 1)
      BY <1>6, <1>7, <2>1, CapsTick
    <2>5. Caps(k)' = [n \in Past |-> CapOf(lately'["send_rate"], ceiling', k, n)]
      BY DEF Caps
    <2>6. QED
      BY <2>1, <2>3, <2>4, <2>5 DEF Caps
  <1>10. /\ rates' = [k \in Kinds |-> [a \in Address |-> Aged(rates[k][a])]]
         /\ recvRates' = [a \in Address |-> Aged(recvRates[a])] /\ received' = received
         /\ passed' = [k \in Kinds |-> [a \in Address |-> Kept(Older(passed[k][a]))]]
         /\ hits' = [l \in Limiter |-> [c \in Client |-> Older(hits[l][c])]]
         /\ tried' = [l \in Limiter |-> [c \in Client |-> Kept(Older(tried[l][c]))]]
    BY DEF Tick
  <1>11. WindowsTyped'
    <2>1. \A w \in Window : Aged(w) \in Window
      BY WindowWith
    <2>2. QED
      BY <1>1, <1>10, <2>1 DEF WindowsTyped
  <1>12. WindowsOK'
    <2>1. ASSUME NEW k \in Kinds, NEW a \in Address
          PROVE  /\ Numbered(Kept(Older(passed[k][a])))
                 /\ Covers(Aged(rates[k][a]), Caps(k)', Kept(Older(passed[k][a])))
      <3>1. /\ Numbered(passed[k][a]) /\ Covers(rates[k][a], Caps(k), passed[k][a])
            /\ rates[k][a] \in Window
        BY <1>1 DEF WindowsOK, WindowsTyped
      <3>2. QED
        BY <1>9, <3>1, TickCovers
    <2>2. \A k \in Kinds, a \in Address : Kept(Older(passed[k][a])) \in SUBSET Attempt
      BY <2>1 DEF Numbered
    <2>3. QED
      BY <1>10, <2>1, <2>2 DEF WindowsOK
  <1>13. ASSUME NEW l \in Limiter, NEW c \in Client
         PROVE  /\ Numbered(Kept(Older(tried[l][c])))
                /\ Kept(Older(tried[l][c])) = Kept(Older(hits[l][c]))
                /\ Older(hits[l][c]) \in SUBSET Attempt
                /\ Recent(Kept(Older(tried[l][c]))) <= Recent(tried[l][c])
    <2>1. /\ Numbered(tried[l][c]) /\ tried[l][c] = Kept(hits[l][c])
          /\ hits[l][c] \in SUBSET Attempt
      BY <1>1 DEF AttemptsOK, AttemptsTyped
    <2>2. Kept(Older(tried[l][c])) = Kept(Older(hits[l][c]))
      BY <2>1 DEF Kept, Older
    <2>3. Older(hits[l][c]) \in SUBSET Attempt
      <3>1. ASSUME NEW t \in Kept(hits[l][c])
            PROVE  [age |-> t.age + 1, n |-> IF t.age + 1 = Hour THEN 0 ELSE t.n] \in Attempt
        <4>1. t \in Attempt /\ t.age < Hour
          BY <2>1 DEF Kept
        <4>2. t.age + 1 \in Age /\ t.n \in Nat
          BY <4>1, AttemptIs, HourTyped
        <4>3. QED
          BY <4>2 DEF Attempt
      <3>2. QED
        BY <2>1, <3>1 DEF Older
    <2>4. Recent(Kept(Older(tried[l][c]))) <= Recent(tried[l][c])
      <3> DEFINE S == tried[l][c]
                 O == Kept(Older(S))
      <3>1. Numbered(S) /\ Numbered(O)
        BY <2>1, OlderCounts
      <3> HIDE DEF O, S
      <3>2. \A R : Numbered(R) => Kept(R) = R /\ Since(R, Hour) = R
        <4>1. \A R : Numbered(R) => Since(R, Hour) = R
          BY AttemptIs DEF Numbered, Since
        <4>2. QED
          BY <4>1, OneMoreCounts
      <3>3. Since(O, Hour) = O /\ Since(S, Hour - 1) = S
        <4>1. \A t \in S : t.age <= Hour - 1
          BY <3>1, AttemptIs, HourTyped DEF Numbered
        <4>2. QED
          BY <3>1, <3>2, <4>1 DEF Since
      <3>4. Cardinality(Since(O, (Hour - 1) + 1)) <= Cardinality(Since(S, Hour - 1))
        BY <3>1, OlderCounts, HourTyped DEF O
      <3>5. (Hour - 1) + 1 = Hour
        BY HourTyped
      <3>6. Cardinality(O) <= Cardinality(S)
        BY <3>3, <3>4, <3>5
      <3>7. QED
        BY <3>1, <3>2, <3>6 DEF Recent, O, S
    <2>5. QED
      BY <2>1, <2>2, <2>3, <2>4, OlderCounts
  <1>14. AttemptsTyped' /\ AttemptsOK'
    <2>1. \A l \in Limiter, c \in Client : Kept(Older(tried[l][c])) \in SUBSET Attempt
      BY <1>13 DEF Numbered
    <2>2. QED
      BY <1>10, <1>13, <2>1 DEF AttemptsTyped, AttemptsOK
  <1>15. WithinLimits
    <2>1. \A l \in Limiter, c \in Client :
              /\ tried'[l][c] = Kept(Older(tried[l][c])) /\ Recent(tried'[l][c]) <= Recent(tried[l][c])
              /\ Recent(tried[l][c]) \in Nat /\ Recent(tried'[l][c]) \in Nat
      <3>1. \A S : Numbered(S) => Recent(S) \in Nat
        BY OneMoreCounts, FS_CardinalityType DEF Recent, Numbered
      <3>2. QED
        BY <1>10, <1>13, <3>1, TriedCounts
    <2>2. QED
      BY <2>1 DEF WithinLimits
  <1>16. QED
    BY <1>8, <1>11, <1>12, <1>14, <1>15, RatesInvNext

LEMMA StartsRight == RatesInit => RatesInv
  <1> SUFFICES ASSUME RatesInit
               PROVE  RatesInv
    OBVIOUS
  <1>1. SettingsTyped
    BY DEF RatesInit, InitSettings, SettingsTyped, Setting, NoPost
  <1>2. \A l \in LimitKey : InForce(meta, l) \in Nat
    BY <1>1, InForceIs DEF SettingsTyped
  <1>3. LatelyOK
    <2>1. lately = [l \in LimitKey |-> {InForce(meta, l)}]
      BY DEF RatesInit
    <2>2. \A l \in LimitKey : IsFiniteSet({InForce(meta, l)})
      BY FS_Singleton
    <2>3. QED
      BY <1>2, <2>1, <2>2 DEF LatelyOK
  <1>4. LimitsOK
    BY <1>1, <1>3 DEF RatesInit, LimitsOK
  <1>5. WindowsTyped /\ AttemptsTyped
    <2>1. [age |-> Hour, used |-> 0] \in Window
      BY HourTyped DEF Window
    <2>2. QED
      BY <2>1 DEF RatesInit, WindowsTyped, AttemptsTyped
  <1>6. /\ IsFiniteSet({}) /\ Cardinality({}) = 0 /\ Kept({}) = {}
        /\ \A n : Since({}, n) = {}
        /\ \A m, n : Between({}, m, n) = {}
    BY FS_EmptySet DEF Kept, Since, Between
  <1>7. Numbered({})
    BY <1>6 DEF Numbered
  <1>8. ASSUME NEW k \in Kinds
        PROVE  Covers([age |-> Hour, used |-> 0], Caps(k), {})
    <2>1. Caps(k) \in [Past -> Nat]
      BY <1>4, CapsTyped DEF LimitsOK
    <2>2. \A n \in Past : Caps(k)[n] >= 0 /\ Caps(k)[n] \in Nat
      BY <2>1
    <2> DEFINE w == [age |-> Hour, used |-> 0]
    <2>3. w.age = Hour /\ ~(Hour < Hour)
      BY HourTyped
    <2> HIDE DEF w
    <2>4. Covers(w, Caps(k), {})
      <3>1. \A n : Cardinality(Since({}, n)) = 0 /\ Cardinality(Between({}, w.age, n)) = 0
        BY <1>6
      <3>2. QED
        BY <1>6, <2>2, <2>3, <3>1 DEF Covers
    <2>5. QED
      BY <2>4 DEF w
  <1>9. WindowsOK
    BY <1>7, <1>8 DEF RatesInit, WindowsOK
  <1>10. AttemptsOK
    BY <1>6, <1>7 DEF RatesInit, AttemptsOK
  <1>11. QED
    BY <1>4, <1>5, <1>9, <1>10, RatesInvIs

LEMMA RatesSteps == RatesInv /\ [RatesNext]_ratesVars => RatesInv' /\ WithinLimits
  <1> SUFFICES ASSUME RatesInv, [RatesNext]_ratesVars
               PROVE  RatesInv' /\ WithinLimits
    OBVIOUS
  <1>1. ASSUME NEW from \in Address, NEW to \in SUBSET Address, NEW size \in Size,
               NEW limit \in Limits("send"), NEW byteLimit, HandleSend(from, to, size, limit, byteLimit)
        PROVE  RatesInv' /\ WithinLimits
    <2>1. RatesInv'
      BY <1>1, SendStep
    <2>2. UNCHANGED tried
      BY <1>1 DEF HandleSend
    <2>3. QED
      BY <2>1, <2>2, TriedCounts
  <1>2. ASSUME NEW kind \in Kind, NEW a \in Address, CountOperation(kind, a)
        PROVE  RatesInv' /\ WithinLimits
    <2>1. kind \in Kinds
      BY RateAssumption
    <2>2. RatesInv'
      BY <1>2, <2>1, OperationStep
    <2>3. UNCHANGED tried
      BY <1>2 DEF CountOperation
    <2>4. QED
      BY <2>2, <2>3, TriedCounts
  <1>3. ASSUME NEW a \in Address, NEW ip \in Client, PushSubscribe(a, ip)
        PROVE  RatesInv' /\ WithinLimits
    BY <1>3, SubscribeStep
  <1>4. ASSUME NEW ip \in Client, NEW limit \in RegisterLimits, RegisterFrom(ip, limit)
        PROVE  RatesInv' /\ WithinLimits
    BY <1>4, RegisterStep
  <1>5. CASE ChangeSettings
    <2>1. UNCHANGED tried
      BY <1>5 DEF ChangeSettings, counted
    <2>2. QED
      BY <1>5, <2>1, ChangeStep, TriedCounts
  <1>6. CASE Tick
    BY <1>6, TickStep
  <1>7. CASE UNCHANGED ratesVars
    <2>1. LimitsOK /\ WindowsTyped /\ AttemptsTyped /\ WindowsOK /\ AttemptsOK
      BY RatesInvIs
    <2>2. UNCHANGED <<rates, recvRates, hits, passed, received, tried>> /\ UNCHANGED unlimited
      BY <1>7 DEF ratesVars, counted
    <2>3. LimitsOK' /\ \A k \in Kinds : Caps(k)' = Caps(k)
      BY <2>1, <2>2, SameLimits
    <2>4. WindowsTyped' /\ AttemptsTyped' /\ AttemptsOK'
      BY <2>1, <2>2 DEF WindowsTyped, AttemptsTyped, AttemptsOK
    <2>5. WindowsOK'
      BY <2>1, <2>2, <2>3 DEF WindowsOK
    <2>6. QED
      BY <2>2, <2>3, <2>4, <2>5, RatesInvNext, TriedCounts
  <1>8. QED
    BY <1>1, <1>2, <1>3, <1>4, <1>5, <1>6, <1>7 DEF RatesNext

THEOREM RatesInvariant == RatesSpec => []RatesInv
  <1>1. RatesInv /\ [RatesNext]_ratesVars => RatesInv'
    BY RatesSteps
  <1>2. QED
    BY <1>1, StartsRight, PTL DEF RatesSpec

\* Every window and every attempt of the limiters stays within its type, and no
\* limit in force is ever below the lowest value the server accepts.
THEOREM RatesTypeCorrect == RatesSpec => []RatesTypeOK
  <1>1. RatesInv => RatesTypeOK
    BY DEF RatesInv
  <1>2. QED
    BY <1>1, RatesInvariant, PTL

\* A counting window lets no more through than the highest limit in force since
\* it began, and any hour no more than twice the highest of that hour.
THEOREM WindowsCapped == RatesSpec => []WindowsCap
  <1>1. ASSUME RatesInv, NEW k \in Kinds, NEW a \in Address
        PROVE  /\ rates[k][a].age < Hour =>
                      Cardinality(Since(passed[k][a], rates[k][a].age)) <= Highest(k, rates[k][a].age)
               /\ Recent(passed[k][a]) <= 2 * Highest(k, Hour - 1)
    <2> DEFINE w == rates[k][a]
               S == passed[k][a]
    <2>1. /\ Numbered(S) /\ Covers(w, Caps(k), S) /\ w \in Window
          /\ Caps(k) \in [Past -> Nat]
          /\ \A n \in Past : /\ Caps(k)[n] = Highest(k, n)
                             /\ \A m \in 0 .. n : Caps(k)[m] <= Caps(k)[n]
      BY <1>1, RatesInvIs, CapsTyped DEF WindowsOK, WindowsTyped, LimitsOK
    <2>2. /\ Hour - 1 \in Past /\ Hour \in Nat /\ w.age \in 0 .. Hour
          /\ w.age < Hour => w.age \in Past /\ w.age \in 0 .. Hour - 1
      BY <2>1, WindowWith, HourTyped DEF Past
    <2> HIDE DEF w, S
    <2>3. \A t \in S : t.age \in Nat /\ t.age < Hour
      BY <2>1, AttemptIs DEF Numbered
    <2>4. /\ Cardinality(Between(S, w.age, Hour - 1)) <= Caps(k)[Hour - 1]
          /\ Cardinality(Between(S, w.age, Hour - 1)) \in Nat
          /\ IsFiniteSet(Between(S, w.age, Hour - 1))
      BY <2>1, <2>2, BetweenCounts DEF Covers
    <2>5. Recent(S) = Cardinality(S) /\ IsFiniteSet(S)
      BY <2>1, OneMoreCounts DEF Recent, Numbered
    <2>6. CASE w.age = Hour
      <3>1. Since(S, Hour - 1) = S
        BY <2>2, <2>3 DEF Since
      <3>2. Cardinality(S) <= Caps(k)[Hour - 1] /\ Cardinality(S) \in Nat /\ Caps(k)[Hour - 1] \in Nat
        BY <2>1, <2>2, <2>5, <2>6, <3>1, FS_CardinalityType DEF Covers, Past
      <3>3. QED
        BY <2>1, <2>2, <2>5, <2>6, <3>2 DEF w, S
    <2>7. CASE w.age < Hour
      <3>1. /\ Cardinality(Since(S, w.age)) <= Caps(k)[w.age]
            /\ Cardinality(Since(S, w.age)) \in Nat /\ IsFiniteSet(Since(S, w.age))
            /\ Caps(k)[w.age] \in Nat /\ Caps(k)[Hour - 1] \in Nat
            /\ Caps(k)[w.age] <= Caps(k)[Hour - 1]
        BY <2>1, <2>2, <2>7, SinceCounts DEF Covers
      <3>2. /\ S = Since(S, w.age) \cup Between(S, w.age, Hour - 1)
            /\ Since(S, w.age) \cap Between(S, w.age, Hour - 1) = {}
        BY <2>2, <2>3 DEF Since, Between
      <3>3. Cardinality(S) = Cardinality(Since(S, w.age)) + Cardinality(Between(S, w.age, Hour - 1))
        <4>1. Cardinality({}) = 0
          BY FS_EmptySet
        <4> DEFINE A == Since(S, w.age)
                   B == Between(S, w.age, Hour - 1)
        <4>2. /\ IsFiniteSet(A) /\ IsFiniteSet(B) /\ Cardinality(A) \in Nat /\ Cardinality(B) \in Nat
              /\ A \cap B = {} /\ S = A \cup B
          BY <2>4, <3>1, <3>2
        <4> HIDE DEF A, B
        <4>3. Cardinality(A \cup B) = Cardinality(A) + Cardinality(B) - Cardinality(A \cap B)
          BY <4>2, FS_Union
        <4>4. Cardinality(S) = Cardinality(A) + Cardinality(B)
          <5>1. Cardinality(A \cap B) = 0 /\ Cardinality(S) = Cardinality(A \cup B)
            BY <4>1, <4>2, Zenon
          <5>2. QED
            BY <4>2, <4>3, <5>1
        <4>5. QED
          BY <4>4 DEF A, B
      <3>4. QED
        BY <2>1, <2>2, <2>4, <2>5, <2>7, <3>1, <3>3 DEF w, S
    <2>8. QED
      BY <2>2, <2>6, <2>7
  <1>2. RatesInv => WindowsCap
    BY <1>1 DEF WindowsCap
  <1>3. QED
    BY <1>2, RatesInvariant, PTL

\* An attempt of a client goes through only within the largest limit of the
\* endpoints that share its attempts, and no attempt of the hour is forgotten.
THEOREM AttemptsCapped == RatesSpec => AttemptsCap
  <1>1. RatesInv /\ [RatesNext]_ratesVars => [WithinLimits]_ratesVars
    BY RatesSteps
  <1>2. AttemptsCap <=> [][WithinLimits]_ratesVars
    BY DEF AttemptsCap, WithinLimits
  <1>3. QED
    BY <1>1, <1>2, RatesInvariant, PTL DEF RatesSpec

=============================================================================
