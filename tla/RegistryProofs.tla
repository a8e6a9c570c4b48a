--------------------------- MODULE RegistryProofs ---------------------------
(***************************************************************************)
(* TLAPS proofs about accounts and setup, module Registry.                 *)
(***************************************************************************)
EXTENDS Registry, TLAPS

-----------------------------------------------------------------------------
(* The invariant.                                                          *)

SettingUp == {"ensureAdmin", "setDomain", "setInitialized", "answer"}

\* Until setup has been completed once there are only admin accounts, and none
\* is disabled: nobody registers before the server serves.
BeforeService ==
    /\ phase \in {"wizard", "ensureAdmin", "setDomain", "setInitialized"} => ~initialized
    /\ phase \in {"answer", "serving"} => initialized
    /\ ~initialized => \A a \in Address : Exists(a) => acct[a].admin /\ ~acct[a].disabled

\* A setup that has come far enough left what it has written behind it.
SetupWritten ==
    /\ phase \in SettingUp => setup.password \in Password /\ setup.domain \in Domain
    /\ phase \in {"setDomain", "setInitialized", "answer"} => Exists(AdminKey(setup.domain))
    /\ phase \in {"setInitialized", "answer"} => domain = setup.domain

RegistryInv == TypeOK /\ BeforeService /\ SetupWritten /\ InitializedHasAdmin

-----------------------------------------------------------------------------
(* Names and records.                                                      *)

LEMMA KeyIs ==
    /\ \A a \in Address : Lower[a] \in Address /\ Lower[a] \in Key
    /\ \A k \in Key : k \in Address /\ Lower[k] = k
    /\ \A d \in Domain : AdminKey(d) \in Key
  <1>1. \A a \in Address : Lower[a] \in Address /\ Lower[Lower[a]] = Lower[a]
    BY RegistryAssumption DEF Address, Lower
  <1>2. \A d \in Domain : AdminOf(d) \in Address
    BY RegistryAssumption DEF Address, AdminOf
  <1>3. QED
    BY <1>1, <1>2 DEF Key, AdminKey

\* A name that is registered has a key, once there is a domain.
LEMMA NamedKeyIs ==
    ASSUME domain \in Domain
    PROVE  \A name \in Local : NamedKey(name) \in Key /\ NamedKey(name) \in Address
  <1>1. \A name \in Local : <<name, domain>> \in Address
    BY DEF Address
  <1>2. QED
    BY <1>1, KeyIs DEF NamedKey

LEMMA NewAccountIs ==
    \A pw \in Password : \A admin \in BOOLEAN :
        /\ NewAccount(pw, admin) \in Account /\ NewAccount(pw, admin) # NoAccount
        /\ NewAccount(pw, admin).password = pw /\ NewAccount(pw, admin).admin = admin
        /\ NewAccount(pw, admin).disabled = FALSE
  <1> SUFFICES ASSUME NEW pw \in Password, NEW admin \in BOOLEAN
               PROVE  /\ NewAccount(pw, admin) \in Account /\ NewAccount(pw, admin) # NoAccount
                      /\ NewAccount(pw, admin).password = pw /\ NewAccount(pw, admin).admin = admin
                      /\ NewAccount(pw, admin).disabled = FALSE
    OBVIOUS
  <1>1. NewAccount(pw, admin) \in Account
    BY DEF NewAccount, Account
  <1>2. NewAccount(pw, admin) # NoAccount
    BY <1>1, RegistryAssumption DEF Account
  <1>3. QED
    BY <1>1, <1>2 DEF NewAccount

\* Whatever address a member is given, it is free.
LEMMA NamesAreFree ==
    ASSUME NEW base, NEW taken, NEW a \in AddressesFor(base, taken)
    PROVE  a \notin taken
  BY DEF AddressesFor

\* A team's names are neither in use nor the owner's.
LEMMA AllocationsAreFree ==
    ASSUME NEW owner, NEW bases, NEW names \in Allocations(owner, bases)
    PROVE  /\ names \in [DOMAIN bases -> Address]
           /\ \A i \in DOMAIN bases : ~Exists(names[i]) /\ names[i] # owner
  <1> DEFINE taken(ns, i) ==
                {a \in Address : Exists(a)} \cup {owner} \cup {ns[j] : j \in 1 .. (i - 1)}
  <1>1. /\ names \in [DOMAIN bases -> Address]
        /\ \A i \in DOMAIN bases : names[i] \in AddressesFor(bases[i], taken(names, i))
    BY DEF Allocations
  <1>2. \A i \in DOMAIN bases : names[i] \notin taken(names, i)
    BY <1>1, NamesAreFree
  <1>3. QED
    BY <1>1, <1>2

\* What a team's registration writes: an account for its owner and one for
\* each name, and an edge between them.
TeamWritten(owner, D, names, pw, memberPw) ==
    /\ acct' = [a \in Address |-> acct'[a]]
    /\ \A a \in Address : acct'[a] = IF a = owner THEN NewAccount(pw, FALSE)
                                     ELSE IF \E i \in D : names[i] = a THEN NewAccount(memberPw, FALSE)
                                     ELSE acct[a]
    /\ \A t \in told' : t \in told \/ t = <<owner, pw>> \/ \E i \in D : t = <<names[i], memberPw>>
    /\ subs' = subs \cup {<<owner, Lower[names[i]]>> : i \in D}
    /\ UNCHANGED process

LEMMA PutTeamIs ==
    ASSUME NEW owner \in Address, NEW D, NEW names \in [D -> Address],
           NEW pw \in Password, NEW memberPw \in Password,
           \A i \in D : names[i] # owner, PutTeam(owner, names, names, pw, memberPw)
    PROVE  TeamWritten(owner, D, names, pw, memberPw)
  <1> DEFINE given == {<<owner, pw>>} \cup {<<names[i], memberPw>> : i \in D}
             chosen(a) == CHOOSE g \in given : g[1] = a
  <1>1. /\ acct' = [a \in Address |-> IF \E g \in given : g[1] = a
                                      THEN NewAccount(chosen(a)[2], FALSE) ELSE acct[a]]
        /\ told' = told \cup given
        /\ subs' = subs \cup {<<owner, Lower[names[i]]>> : i \in D}
        /\ UNCHANGED process
    BY DEF PutTeam
  <1>2. \A g \in given : g[1] = owner => g[2] = pw
    OBVIOUS
  <1>3. \A g \in given : g[1] # owner => g[2] = memberPw /\ \E i \in D : names[i] = g[1]
    OBVIOUS
  <1>4. <<owner, pw>> \in given /\ \A i \in D : <<names[i], memberPw>> \in given
    OBVIOUS
  <1>5. ASSUME NEW a, \E g \in given : g[1] = a
        PROVE  chosen(a) \in given /\ chosen(a)[1] = a
    BY <1>5
  <1>6. ASSUME NEW a \in Address
        PROVE  acct'[a] = IF a = owner THEN NewAccount(pw, FALSE)
                          ELSE IF \E i \in D : names[i] = a THEN NewAccount(memberPw, FALSE)
                          ELSE acct[a]
    <2>1. CASE a = owner
      <3>1. <<owner, pw>>[1] = owner
        OBVIOUS
      <3>2. chosen(a)[2] = pw
        BY <1>2, <1>4, <1>5, <2>1, <3>1
      <3>3. QED
        BY <1>1, <1>4, <2>1, <3>1, <3>2
    <2>2. CASE a # owner /\ \E i \in D : names[i] = a
      <3>1. \E g \in given : g[1] = a
        <4>1. PICK i \in D : names[i] = a
          BY <2>2
        <4>2. <<names[i], memberPw>>[1] = a
          BY <4>1
        <4>3. QED
          BY <1>4, <4>2
      <3>2. chosen(a)[2] = memberPw
        BY <1>3, <1>5, <2>2, <3>1
      <3>3. QED
        BY <1>1, <2>2, <3>1, <3>2
    <2>3. CASE a # owner /\ ~\E i \in D : names[i] = a
      <3>1. ~\E g \in given : g[1] = a
        BY <1>3, <2>3
      <3>2. QED
        BY <1>1, <2>3, <3>1
    <2>4. QED
      BY <2>1, <2>2, <2>3
  <1>7. \A t \in told' : t \in told \/ t = <<owner, pw>> \/ \E i \in D : t = <<names[i], memberPw>>
    BY <1>1
  <1>8. acct' = [a \in Address |-> acct'[a]]
    <2> HIDE DEF given, chosen
    <2>1. QED
      BY <1>1
  <1>9. subs' = subs \cup {<<owner, Lower[names[i]]>> : i \in D}
    BY <1>1
  <1>10. QED
    BY <1>1, <1>6, <1>7, <1>8, <1>9 DEF TeamWritten

-----------------------------------------------------------------------------
(* Every step.                                                             *)

\* A registered team: neither its owner nor its members were there before.
LEMMA TeamIs ==
    ASSUME domain \in Domain, NEW name \in Local, NEW bases \in Team, NEW pw \in Password,
           NEW memberPw \in Password, RegisterTeam(name, bases, pw, memberPw)
    PROVE  /\ phase = "serving" /\ ~Exists(NamedKey(name))
           /\ \E names \in Allocations(NamedKey(name), bases) :
                 /\ names \in [DOMAIN bases -> Address]
                 /\ \A i \in DOMAIN bases : ~Exists(names[i]) /\ names[i] # NamedKey(name)
                 /\ TeamWritten(NamedKey(name), DOMAIN bases, names, pw, memberPw)
  <1>1. PICK names \in Allocations(NamedKey(name), bases) :
           PutTeam(NamedKey(name), names, names, pw, memberPw)
    BY DEF RegisterTeam
  <1>2. /\ names \in [DOMAIN bases -> Address]
        /\ \A i \in DOMAIN bases : ~Exists(names[i]) /\ names[i] # NamedKey(name)
    BY AllocationsAreFree
  <1>3. TeamWritten(NamedKey(name), DOMAIN bases, names, pw, memberPw)
    BY <1>1, <1>2, NamedKeyIs, PutTeamIs
  <1>4. QED
    BY <1>2, <1>3 DEF RegisterTeam

LEMMA TeamTyped ==
    ASSUME TypeOK, domain \in Domain, NEW name \in Local, NEW bases \in Team, NEW pw \in Password,
           NEW memberPw \in Password, RegisterTeam(name, bases, pw, memberPw)
    PROVE  /\ acct' \in [Address -> Account \cup {NoAccount}] /\ UNCHANGED process
           /\ told' \in SUBSET (Address \X Password) /\ subs' \in SUBSET (Key \X Key)
  <1> DEFINE owner == NamedKey(name)
  <1>1. PICK names \in [DOMAIN bases -> Address] : TeamWritten(owner, DOMAIN bases, names, pw, memberPw)
    BY TeamIs
  <1>2. /\ owner \in Address /\ owner \in Key
        /\ NewAccount(pw, FALSE) \in Account /\ NewAccount(memberPw, FALSE) \in Account
    BY NamedKeyIs, NewAccountIs
  <1> HIDE DEF owner
  <1>3. \A a \in Address : acct'[a] \in Account \cup {NoAccount}
    BY <1>1, <1>2 DEF TeamWritten, TypeOK
  <1>4. acct' \in [Address -> Account \cup {NoAccount}]
    BY <1>1, <1>3 DEF TeamWritten
  <1>5. told' \in SUBSET (Address \X Password)
    BY <1>1, <1>2 DEF TeamWritten, TypeOK
  <1>6. subs' \in SUBSET (Key \X Key)
    <2>1. \A i \in DOMAIN bases : <<owner, Lower[names[i]]>> \in Key \X Key
      BY <1>2, KeyIs
    <2>2. QED
      BY <1>1, <2>1 DEF TeamWritten, TypeOK
  <1>7. QED
    BY <1>1, <1>4, <1>5, <1>6 DEF TeamWritten

\* The repair of keys moves records, and leaves those that are in place.
LEMMA NormalizeIs ==
    ASSUME TypeOK, NormalizeAccountCase
    PROVE  /\ acct' \in [Address -> Account \cup {NoAccount}]
           /\ \A k \in Key : Exists(k) => acct'[k] = acct[k]
           /\ (\A a \in Address \ Key : ~Exists(a)) => acct' = acct
           /\ \A a \in Mixed : acct'[Lower[a]] # NoAccount
  <1>1. PICK won \in SUBSET Mixed :
           /\ \A a \in Mixed : \E b \in won : Lower[b] = Lower[a]
           /\ acct' = [a \in Address |->
                       IF a \notin Key THEN NoAccount
                       ELSE IF a \notin {k \in Key : Exists(k)} /\ \E b \in won : Lower[b] = a
                       THEN acct[CHOOSE b \in won : Lower[b] = a] ELSE acct[a]]
    BY DEF NormalizeAccountCase, Rewrite
  <1>2. won \subseteq Address
    BY DEF Mixed
  <1>3. ASSUME NEW a \in Address
        PROVE  acct'[a] \in Account \cup {NoAccount}
    <2>1. CASE \E b \in won : Lower[b] = a
      <3>1. (CHOOSE b \in won : Lower[b] = a) \in Address
        BY <1>2, <2>1
      <3>2. QED
        BY <1>1, <3>1 DEF TypeOK
    <2>2. CASE ~\E b \in won : Lower[b] = a
      BY <1>1, <2>2 DEF TypeOK
    <2>3. QED
      BY <2>1, <2>2
  <1>4. acct' \in [Address -> Account \cup {NoAccount}]
    BY <1>1, <1>3
  <1>5. \A k \in Key : Exists(k) => acct'[k] = acct[k]
    BY <1>1, KeyIs
  <1>6. ASSUME \A a \in Address \ Key : ~Exists(a)
        PROVE  acct' = acct
    <2>1. won = {}
      BY <1>6 DEF Mixed
    <2>2. \A a \in Address : acct'[a] = acct[a]
      BY <1>1, <1>6, <2>1 DEF Exists
    <2>3. QED
      BY <1>1, <2>2 DEF TypeOK
  <1>7. ASSUME NEW a \in Mixed
        PROVE  acct'[Lower[a]] # NoAccount
    <2>1. Lower[a] \in Key /\ Lower[a] \in Address
      BY <1>7, KeyIs DEF Mixed
    <2>2. CASE Exists(Lower[a])
      BY <1>5, <2>1, <2>2 DEF Exists
    <2>3. CASE ~Exists(Lower[a])
      <3>1. PICK c : c \in won /\ Lower[c] = Lower[a] /\ c = CHOOSE b \in won : Lower[b] = Lower[a]
        BY <1>1, <1>7
      <3>2. acct'[Lower[a]] = acct[c]
        BY <1>1, <2>1, <2>3, <3>1
      <3>3. QED
        BY <3>1, <3>2 DEF Mixed, Exists
    <2>4. QED
      BY <2>2, <2>3
  <1>8. QED
    BY <1>4, <1>5, <1>6, <1>7

\* A record with another password or flag.
LEMMA AccountWith ==
    ASSUME NEW r \in Account
    PROVE  /\ \A pw \in Password : /\ [r EXCEPT !.password = pw] \in Account
                                   /\ [r EXCEPT !.password = pw].password = pw
                                   /\ [r EXCEPT !.password = pw].admin = r.admin
                                   /\ [r EXCEPT !.password = pw].disabled = r.disabled
           /\ \A flag \in BOOLEAN : /\ [r EXCEPT !.disabled = flag] \in Account
                                    /\ [r EXCEPT !.disabled = flag].password = r.password
                                    /\ [r EXCEPT !.disabled = flag].admin = r.admin
                                    /\ [r EXCEPT !.disabled = flag].disabled = flag
  BY DEF Account

\* What service does: it needs a started server and leaves setup alone.
LEMMA ServeTyped ==
    ASSUME TypeOK, domain \in Domain, Serve
    PROVE  phase = "serving" /\ UNCHANGED process /\ TypeOK'
  <1>1. ASSUME NEW name \in Local, NEW pw \in Password, CreateAccount(name, pw)
        PROVE  phase = "serving" /\ UNCHANGED process /\ TypeOK'
    <2>1. NewAccount(pw, FALSE) \in Account /\ NamedKey(name) \in Address
      BY NamedKeyIs, NewAccountIs
    <2>2. acct' \in [Address -> Account \cup {NoAccount}]
      BY <1>1, <2>1 DEF CreateAccount, TypeOK
    <2>3. told' \in SUBSET (Address \X Password)
      BY <1>1, <2>1 DEF CreateAccount, TypeOK
    <2>4. QED
      BY <1>1, <2>2, <2>3 DEF CreateAccount, process, TypeOK
  <1>2. ASSUME NEW name \in Address, NEW pw \in Password, ResetPassword(name, pw)
        PROVE  phase = "serving" /\ UNCHANGED process /\ TypeOK'
    <2>1. acct[name] \in Account
      BY <1>2 DEF ResetPassword, Exists, TypeOK
    <2>2. acct' \in [Address -> Account \cup {NoAccount}] /\ told' \in SUBSET (Address \X Password)
      BY <1>2, <2>1, AccountWith DEF ResetPassword, TypeOK
    <2>3. QED
      BY <1>2, <2>2 DEF ResetPassword, process, TypeOK
  <1>3. ASSUME NEW name \in Local, NEW bases \in Team, NEW pw \in Password, NEW memberPw \in Password,
               RegisterTeam(name, bases, pw, memberPw)
        PROVE  phase = "serving" /\ UNCHANGED process /\ TypeOK'
    BY <1>3, TeamIs, TeamTyped DEF process, TypeOK
  <1>4. ASSUME NEW account \in Address, NEW disabled \in BOOLEAN, SetAccountDisabled(account, disabled)
        PROVE  phase = "serving" /\ UNCHANGED process /\ TypeOK'
    <2>1. acct[account] \in Account
      BY <1>4 DEF SetAccountDisabled, Exists, TypeOK
    <2>2. acct' \in [Address -> Account \cup {NoAccount}]
      BY <1>4, <2>1, AccountWith DEF SetAccountDisabled, TypeOK
    <2>3. QED
      BY <1>4, <2>2 DEF SetAccountDisabled, process, TypeOK
  <1>5. CASE NormalizeAccountCase
    BY <1>5, NormalizeIs DEF NormalizeAccountCase, Rewrite, process, TypeOK
  <1>6. QED
    BY <1>1, <1>2, <1>3, <1>4, <1>5 DEF Serve

\* A server that serves has a domain.
LEMMA ServiceHasDomain ==
    ASSUME RegistryInv, phase = "serving"
    PROVE  domain \in Domain
  BY DEF RegistryInv, BeforeService, InitializedHasAdmin, TypeOK

\* Service is the only one to need it.
LEMMA ServeNeedsDomain ==
    ASSUME RegistryInv, Serve
    PROVE  domain \in Domain
  BY ServiceHasDomain DEF Serve, CreateAccount, RegisterTeam, ResetPassword, SetAccountDisabled,
     NormalizeAccountCase, Rewrite

\* An account under a lowercase key stays, with its role; its owner is told of
\* a new password, and nothing else that was told of the account stands.
LEMMA KeysPersist ==
    ASSUME RegistryInv, [Next]_vars, NEW k \in Key, Exists(k)
    PROVE  /\ acct'[k] # NoAccount /\ acct'[k].admin = acct[k].admin
           /\ acct'[k].password # acct[k].password =>
                 /\ <<k, acct'[k].password>> \in told'
                 /\ \A t \in told' : t[1] = k => t[2] = acct'[k].password
  <1>1. k \in Address /\ Lower[k] = k /\ acct[k] \in Account /\ TypeOK
    BY KeyIs DEF RegistryInv, TypeOK, Exists
  <1>2. ASSUME NEW name \in Local, NEW pw \in Password, CreateAccount(name, pw)
        PROVE  acct'[k] = acct[k]
    BY <1>1, <1>2 DEF CreateAccount, Exists, TypeOK
  <1>3. ASSUME NEW account \in Address, NEW pw \in Password, ResetPassword(account, pw)
        PROVE  /\ acct'[k] # NoAccount /\ acct'[k].admin = acct[k].admin
               /\ acct'[k].password # acct[k].password =>
                     /\ <<k, acct'[k].password>> \in told'
                     /\ \A t \in told' : t[1] = k => t[2] = acct'[k].password
    <2>1. CASE account = k
      <3>1. /\ acct'[k] = [acct[k] EXCEPT !.password = pw]
            /\ told' = {t \in told : t[1] # k} \cup {<<k, pw>>}
        BY <1>1, <1>3, <2>1 DEF ResetPassword, TypeOK
      <3>2. acct'[k] \in Account /\ acct'[k].password = pw /\ acct'[k].admin = acct[k].admin
        BY <1>1, <1>3, <3>1, AccountWith
      <3>3. acct'[k] # NoAccount
        BY <3>2, RegistryAssumption DEF Account
      <3>4. QED
        BY <3>1, <3>2, <3>3
    <2>2. CASE account # k
      BY <1>1, <1>3, <2>2 DEF ResetPassword, TypeOK, Exists
    <2>3. QED
      BY <2>1, <2>2
  <1>4. ASSUME NEW name \in Local, NEW bases \in Team, NEW pw \in Password, NEW memberPw \in Password,
               RegisterTeam(name, bases, pw, memberPw)
        PROVE  acct'[k] = acct[k]
    <2>1. domain \in Domain
      BY <1>4, ServiceHasDomain DEF RegisterTeam
    <2>2. PICK names \in Allocations(NamedKey(name), bases) :
             /\ ~Exists(NamedKey(name)) /\ \A i \in DOMAIN bases : ~Exists(names[i])
             /\ TeamWritten(NamedKey(name), DOMAIN bases, names, pw, memberPw)
      BY <1>4, <2>1, TeamIs
    <2>3. NamedKey(name) # k /\ \A i \in DOMAIN bases : names[i] # k
      BY <2>2
    <2>4. QED
      BY <1>1, <2>2, <2>3 DEF TeamWritten
  <1>5. ASSUME NEW account \in Address, NEW disabled \in BOOLEAN, SetAccountDisabled(account, disabled)
        PROVE  /\ acct'[k] # NoAccount /\ acct'[k].admin = acct[k].admin
               /\ acct'[k].password = acct[k].password
    <2>1. CASE account = k
      <3>1. acct'[k] = [acct[k] EXCEPT !.disabled = disabled]
        BY <1>1, <1>5, <2>1 DEF SetAccountDisabled, TypeOK
      <3>2. QED
        BY <1>1, <3>1, AccountWith, RegistryAssumption DEF Account
    <2>2. CASE account # k
      BY <1>1, <1>5, <2>2 DEF SetAccountDisabled, TypeOK, Exists
    <2>3. QED
      BY <2>1, <2>2
  <1>6. CASE NormalizeAccountCase
    BY <1>1, <1>6, NormalizeIs DEF Exists
  <1>7. CASE EnsureAdmin
    BY <1>1, <1>7 DEF EnsureAdmin, PutAdmin, Exists, TypeOK
  <1>8. ASSUME acct' = acct
        PROVE  /\ acct'[k] # NoAccount /\ acct'[k].admin = acct[k].admin
               /\ acct'[k].password = acct[k].password
    BY <1>8 DEF Exists
  <1>9. QED
    BY <1>2, <1>3, <1>4, <1>5, <1>6, <1>7, <1>8
       DEF Next, Serve, Process, StartServer, WizardSetup, SetDomain, SetInitialized, WizardAnswer,
           Crash, Exists, vars

-----------------------------------------------------------------------------
(* The invariant is kept.                                                  *)

LEMMA InvInit == Init => RegistryInv
  <1> SUFFICES ASSUME Init PROVE RegistryInv
    OBVIOUS
  <1>1. TypeOK
    BY DEF Init, TypeOK, NoSetup
  <1>2. BeforeService /\ SetupWritten /\ InitializedHasAdmin
    BY DEF Init, BeforeService, SetupWritten, InitializedHasAdmin, Exists, SettingUp
  <1>3. QED
    BY <1>1, <1>2 DEF RegistryInv

LEMMA InvProcess ==
    ASSUME RegistryInv, Process
    PROVE  RegistryInv'
  <1> USE DEF RegistryInv
  <1>1. CASE StartServer
    <2>1. phase' \in {"serving", "wizard"} /\ phase' = IF initialized THEN "serving" ELSE "wizard"
      BY <1>1 DEF StartServer
    <2>2. QED
      BY <1>1, <2>1 DEF StartServer, TypeOK, BeforeService, SetupWritten, SettingUp,
         InitializedHasAdmin, Exists, AdminKey
  <1>2. ASSUME NEW pw \in Password, NEW d \in Domain, WizardSetup(pw, d)
        PROVE  RegistryInv'
    <2>1. /\ setup' \in [password : Password \cup {NoPassword}, domain : Domain \cup {NoDomain}]
          /\ setup'.password \in Password /\ setup'.domain \in Domain
      BY <1>2 DEF WizardSetup
    <2>2. QED
      BY <1>2, <2>1 DEF WizardSetup, TypeOK, BeforeService, SetupWritten, SettingUp,
         InitializedHasAdmin, Exists, AdminKey
  <1>3. CASE EnsureAdmin
    <2> DEFINE k == AdminKey(setup.domain)
    <2>1. k \in Address /\ phase = "ensureAdmin" /\ ~initialized /\ setup.password \in Password
      BY <1>3, KeyIs DEF EnsureAdmin, PutAdmin, BeforeService, SetupWritten, SettingUp
    <2>2. /\ NewAccount(setup.password, TRUE) \in Account
          /\ NewAccount(setup.password, TRUE) # NoAccount
          /\ NewAccount(setup.password, TRUE).admin /\ ~NewAccount(setup.password, TRUE).disabled
      BY <2>1, NewAccountIs
    <2>3. \A a \in Address : acct'[a] = IF a = k /\ acct[k] = NoAccount
                                        THEN NewAccount(setup.password, TRUE) ELSE acct[a]
      BY <1>3 DEF EnsureAdmin, PutAdmin, TypeOK
    <2>4. acct' \in [Address -> Account \cup {NoAccount}]
      BY <1>3, <2>2 DEF EnsureAdmin, PutAdmin, TypeOK
    <2>5. /\ phase' = "setDomain" /\ UNCHANGED <<subs, initialized, domain, setup, told>>
      BY <1>3 DEF EnsureAdmin, PutAdmin
    <2>6. BeforeService'
      BY <2>1, <2>2, <2>3, <2>5 DEF BeforeService, Exists
    <2>7. SetupWritten'
      BY <2>1, <2>2, <2>3, <2>5 DEF SetupWritten, SettingUp, Exists, AdminKey
    <2>8. TypeOK' /\ InitializedHasAdmin'
      BY <2>1, <2>4, <2>5 DEF TypeOK, InitializedHasAdmin
    <2>9. QED
      BY <2>6, <2>7, <2>8
  <1>4. CASE SetDomain
    BY <1>4 DEF SetDomain, TypeOK, BeforeService, SetupWritten, SettingUp, InitializedHasAdmin,
       Exists, AdminKey
  <1>5. CASE SetInitialized
    <2>1. /\ phase = "setInitialized" /\ phase' = "answer" /\ initialized' = TRUE
          /\ UNCHANGED <<acct, subs, domain, setup, told>>
      BY <1>5 DEF SetInitialized
    <2>2. domain \in Domain /\ domain = setup.domain /\ Exists(AdminKey(domain))
      BY <2>1 DEF SetupWritten, SettingUp
    <2>3. domain # NoDomain /\ AdminKey(domain) \in Address /\ ~initialized
      BY <2>1, <2>2, KeyIs, RegistryAssumption DEF BeforeService
    <2>4. InitializedHasAdmin'
      BY <2>1, <2>2, <2>3 DEF InitializedHasAdmin, BeforeService, Exists, AdminKey
    <2>5. TypeOK' /\ BeforeService' /\ SetupWritten'
      BY <2>1 DEF TypeOK, BeforeService, SetupWritten, SettingUp, Exists, AdminKey
    <2>6. QED
      BY <2>4, <2>5
  <1>6. CASE WizardAnswer
    <2>1. setup.password \in Password /\ setup.domain \in Domain
      BY <1>6 DEF WizardAnswer, SetupWritten, SettingUp
    <2>2. told' \in SUBSET (Address \X Password)
      BY <1>6, <2>1, KeyIs DEF WizardAnswer, TypeOK
    <2>3. setup' \in [password : Password \cup {NoPassword}, domain : Domain \cup {NoDomain}]
      BY <1>6 DEF WizardAnswer, NoSetup
    <2>4. QED
      BY <1>6, <2>2, <2>3 DEF WizardAnswer, TypeOK, BeforeService, SetupWritten, SettingUp,
         InitializedHasAdmin, Exists, AdminKey
  <1>7. CASE Crash
    <2>1. setup' \in [password : Password \cup {NoPassword}, domain : Domain \cup {NoDomain}]
      BY <1>7 DEF Crash, NoSetup
    <2>2. QED
      BY <1>7, <2>1 DEF Crash, TypeOK, BeforeService, SetupWritten, SettingUp,
         InitializedHasAdmin, Exists, AdminKey
  <1>8. QED
    BY <1>1, <1>2, <1>3, <1>4, <1>5, <1>6, <1>7 DEF Process

LEMMA InvServe ==
    ASSUME RegistryInv, Serve
    PROVE  RegistryInv'
  <1>1. phase = "serving" /\ UNCHANGED process /\ TypeOK' /\ TypeOK
    BY ServeNeedsDomain, ServeTyped DEF RegistryInv
  <1>2. initialized /\ domain \in Domain
    BY <1>1 DEF RegistryInv, BeforeService, InitializedHasAdmin, TypeOK
  <1>3. BeforeService' /\ SetupWritten'
    BY <1>1, <1>2 DEF process, BeforeService, SetupWritten, SettingUp
  <1>4. InitializedHasAdmin'
    <2>1. AdminKey(domain) \in Key /\ Exists(AdminKey(domain)) /\ acct[AdminKey(domain)].admin
      BY <1>2, KeyIs DEF RegistryInv, InitializedHasAdmin
    <2>2. [Next]_vars
      BY DEF Next
    <2>3. acct'[AdminKey(domain)] # NoAccount /\ acct'[AdminKey(domain)].admin
      BY <1>1, <2>1, <2>2, KeysPersist
    <2>4. QED
      BY <1>1, <1>2, <2>3, RegistryAssumption DEF process, InitializedHasAdmin, Exists, AdminKey
  <1>5. QED
    BY <1>1, <1>3, <1>4 DEF RegistryInv

LEMMA Invariance == Spec => []RegistryInv
  <1>1. RegistryInv /\ UNCHANGED vars => RegistryInv'
    BY DEF vars, RegistryInv, TypeOK, BeforeService, SetupWritten, InitializedHasAdmin, Exists, AdminKey
  <1>2. RegistryInv /\ [Next]_vars => RegistryInv'
    BY <1>1, InvProcess, InvServe DEF Next
  <1>3. QED
    BY <1>2, InvInit, PTL DEF Spec

-----------------------------------------------------------------------------
(* What the registry promises.                                             *)

\* A database that counts as initialized has a domain and its admin account,
\* wherever a setup was cut and with whatever input it was repeated
\* (BootstrapSystem over EnsureAdmin, SetDomain, SetInitialized).
THEOREM AdminExists == Spec => []InitializedHasAdmin
  <1>1. RegistryInv => InitializedHasAdmin
    BY DEF RegistryInv
  <1>2. QED
    BY <1>1, Invariance, PTL

\* No operation loses an account under a lowercase key or changes its role, and
\* none changes its password without telling the owner: registration, a team
\* with random names, a reset, NormalizeAccountCase.
THEOREM AccountsStay == Spec => AccountsPersist
  <1>1. RegistryInv /\ [Next]_vars =>
            [\A k \in Key : Exists(k) =>
                /\ acct'[k] # NoAccount
                /\ acct'[k].admin = acct[k].admin
                /\ acct'[k].password # acct[k].password => <<k, acct'[k].password>> \in told']_vars
    BY KeysPersist DEF RegistryInv
  <1>2. QED
    BY <1>1, Invariance, PTL DEF Spec, AccountsPersist

-----------------------------------------------------------------------------
(* Passwords that were handed out.                                         *)

\* No step loses the account of an address: it stays where it is or its
\* lowercase form comes into use.
LEMMA AddressesPersist ==
    ASSUME RegistryInv, [Next]_vars, NEW a \in Address, Exists(a)
    PROVE  Exists(a)' \/ Exists(Lower[a])'
  <1>1. acct[a] \in Account /\ TypeOK
    BY DEF RegistryInv, TypeOK, Exists
  <1>2. CASE a \in Key
    BY <1>2, KeysPersist DEF Exists
  <1>3. CASE a \notin Key /\ NormalizeAccountCase
    BY <1>1, <1>3, NormalizeIs DEF Mixed, Exists
  <1>4. ASSUME NEW name \in Local, NEW pw \in Password, CreateAccount(name, pw)
        PROVE  Exists(a)'
    BY <1>1, <1>4 DEF CreateAccount, Exists, TypeOK
  <1>5. ASSUME NEW account \in Address, NEW pw \in Password, ResetPassword(account, pw)
        PROVE  Exists(a)'
    <2>1. acct'[a] = acct[a] \/ acct'[a] = [acct[a] EXCEPT !.password = pw]
      BY <1>1, <1>5 DEF ResetPassword, TypeOK
    <2>2. acct'[a] \in Account
      BY <1>1, <1>5, <2>1, AccountWith
    <2>3. QED
      BY <2>2, RegistryAssumption DEF Account, Exists
  <1>6. ASSUME NEW account \in Address, NEW disabled \in BOOLEAN, SetAccountDisabled(account, disabled)
        PROVE  Exists(a)'
    <2>1. acct'[a] = acct[a] \/ acct'[a] = [acct[a] EXCEPT !.disabled = disabled]
      BY <1>1, <1>6 DEF SetAccountDisabled, TypeOK
    <2>2. acct'[a] \in Account
      BY <1>1, <1>6, <2>1, AccountWith
    <2>3. QED
      BY <2>2, RegistryAssumption DEF Account, Exists
  <1>7. ASSUME NEW name \in Local, NEW bases \in Team, NEW pw \in Password, NEW memberPw \in Password,
               RegisterTeam(name, bases, pw, memberPw)
        PROVE  Exists(a)'
    <2>1. domain \in Domain
      BY <1>7, ServiceHasDomain DEF RegisterTeam
    <2>2. PICK names \in Allocations(NamedKey(name), bases) :
             /\ ~Exists(NamedKey(name)) /\ \A i \in DOMAIN bases : ~Exists(names[i])
             /\ TeamWritten(NamedKey(name), DOMAIN bases, names, pw, memberPw)
      BY <1>7, <2>1, TeamIs
    <2>3. QED
      BY <2>2 DEF TeamWritten, Exists
  <1>8. CASE EnsureAdmin
    BY <1>1, <1>8 DEF EnsureAdmin, PutAdmin, Exists, TypeOK
  <1>9. ASSUME acct' = acct
        PROVE  Exists(a)'
    BY <1>9 DEF Exists
  <1>10. QED
    BY <1>2, <1>3, <1>4, <1>5, <1>6, <1>7, <1>8, <1>9
       DEF Next, Serve, Process, StartServer, WizardSetup, SetDomain, SetInitialized, WizardAnswer,
           Crash, vars

\* What is told in a step is true after it.
LEMMA NewlyToldWorks ==
    ASSUME RegistryInv, [Next]_vars, NEW t \in told', t \notin told
    PROVE  /\ t[1] \in Address /\ acct'[t[1]] # NoAccount
           /\ acct'[t[1]].admin \/ acct'[t[1]].password = t[2]
  <1> USE DEF RegistryInv
  <1>1. acct \in [Address -> Account \cup {NoAccount}]
    BY DEF TypeOK
  <1>2. CASE WizardAnswer
    <2> DEFINE k == AdminKey(setup.domain)
    <2>1. setup.domain \in Domain /\ domain = setup.domain /\ initialized
      BY <1>2 DEF WizardAnswer, SetupWritten, SettingUp, BeforeService
    <2>2. k \in Key /\ Exists(k) /\ acct[k].admin
      BY <2>1, KeyIs DEF InitializedHasAdmin
    <2>3. t = <<k, setup.password>> /\ acct' = acct
      BY <1>2 DEF WizardAnswer
    <2> HIDE DEF k
    <2>4. QED
      BY <2>2, <2>3, KeyIs DEF Exists
  <1>3. ASSUME NEW name \in Local, NEW pw \in Password, CreateAccount(name, pw)
        PROVE  /\ t[1] \in Address /\ acct'[t[1]] # NoAccount
               /\ acct'[t[1]].admin \/ acct'[t[1]].password = t[2]
    <2>1. domain \in Domain
      BY <1>3, ServiceHasDomain DEF CreateAccount
    <2>2. NamedKey(name) \in Address /\ t = <<NamedKey(name), pw>>
      BY <1>3, <2>1, NamedKeyIs DEF CreateAccount
    <2>3. acct'[NamedKey(name)] = NewAccount(pw, FALSE)
      BY <1>1, <1>3, <2>2 DEF CreateAccount
    <2>4. QED
      BY <2>2, <2>3, NewAccountIs
  <1>4. ASSUME NEW account \in Address, NEW pw \in Password, ResetPassword(account, pw)
        PROVE  /\ t[1] \in Address /\ acct'[t[1]] # NoAccount
               /\ acct'[t[1]].admin \/ acct'[t[1]].password = t[2]
    <2>1. t = <<account, pw>> /\ acct[account] \in Account
      BY <1>1, <1>4 DEF ResetPassword, Exists
    <2>2. acct'[account] = [acct[account] EXCEPT !.password = pw]
      BY <1>1, <1>4 DEF ResetPassword
    <2>3. acct'[account] \in Account /\ acct'[account].password = pw
      BY <2>1, <2>2, AccountWith
    <2>4. acct'[account] # NoAccount
      BY <2>3, RegistryAssumption DEF Account
    <2>5. QED
      BY <2>1, <2>3, <2>4
  <1>5. ASSUME NEW name \in Local, NEW bases \in Team, NEW pw \in Password, NEW memberPw \in Password,
               RegisterTeam(name, bases, pw, memberPw)
        PROVE  /\ t[1] \in Address /\ acct'[t[1]] # NoAccount
               /\ acct'[t[1]].admin \/ acct'[t[1]].password = t[2]
    <2> DEFINE owner == NamedKey(name)
               D == DOMAIN bases
    <2>1. domain \in Domain /\ owner \in Address
      BY <1>5, ServiceHasDomain, NamedKeyIs DEF RegisterTeam
    <2>2. PICK names \in [D -> Address] :
             /\ \A i \in D : names[i] # owner
             /\ TeamWritten(owner, D, names, pw, memberPw)
      BY <1>5, <2>1, TeamIs
    <2> HIDE DEF owner, D
    <2>3. CASE t = <<owner, pw>>
      <3>1. acct'[owner] = NewAccount(pw, FALSE)
        BY <2>1, <2>2 DEF TeamWritten
      <3>2. QED
        BY <2>1, <2>3, <3>1, NewAccountIs
    <2>4. ASSUME NEW i \in D, t = <<names[i], memberPw>>
          PROVE  /\ t[1] \in Address /\ acct'[t[1]] # NoAccount
                 /\ acct'[t[1]].admin \/ acct'[t[1]].password = t[2]
      <3>1. names[i] \in Address /\ names[i] # owner
        BY <2>2, <2>4
      <3>2. acct'[names[i]] = NewAccount(memberPw, FALSE)
        BY <2>2, <2>4, <3>1 DEF TeamWritten
      <3>3. QED
        BY <2>4, <3>1, <3>2, NewAccountIs
    <2>5. t = <<owner, pw>> \/ \E i \in D : t = <<names[i], memberPw>>
      BY <2>2 DEF TeamWritten
    <2>6. QED
      BY <2>3, <2>4, <2>5
  <1>6. ASSUME told' = told
        PROVE  FALSE
    BY <1>6
  <1>7. QED
    BY <1>2, <1>3, <1>4, <1>5, <1>6
       DEF Next, Serve, Process, StartServer, WizardSetup, EnsureAdmin, PutAdmin, SetDomain,
           SetInitialized, SetAccountDisabled, NormalizeAccountCase, Rewrite, Crash, vars

\* No address that an owner was told goes out of use, and the password last
\* told with a lowercase key opens its account: at a registration, a team's,
\* setup or a reset, whatever names collide and however the domain is spelled.
THEOREM HandedOutPasswordsWork == Spec => []ToldWorks
  <1>1. Init => ToldWorks
    BY DEF Init, ToldWorks
  <1>2. RegistryInv /\ ToldWorks /\ [Next]_vars => ToldWorks'
    <2> SUFFICES ASSUME RegistryInv, ToldWorks, [Next]_vars, NEW t \in told'
                 PROVE  /\ Exists(t[1])' \/ Exists(Lower[t[1]])'
                        /\ t[1] \in Key =>
                              /\ Exists(t[1])'
                              /\ acct'[t[1]].admin \/ acct'[t[1]].password = t[2]
      BY DEF ToldWorks, Exists
    <2>1. CASE t \notin told
      BY <2>1, NewlyToldWorks DEF Exists
    <2>2. CASE t \in told
      <3>1. t[1] \in Address /\ Lower[t[1]] \in Key
        BY <2>2, KeyIs DEF RegistryInv, TypeOK
      <3>2. Exists(t[1])' \/ Exists(Lower[t[1]])'
        <4>1. CASE Exists(t[1])
          BY <3>1, <4>1, AddressesPersist
        <4>2. CASE Exists(Lower[t[1]])
          BY <3>1, <4>2, KeysPersist DEF Exists
        <4>3. QED
          BY <2>2, <4>1, <4>2 DEF ToldWorks
      <3>3. ASSUME t[1] \in Key
            PROVE  Exists(t[1])' /\ (acct'[t[1]].admin \/ acct'[t[1]].password = t[2])
        <4>1. Exists(t[1]) /\ (acct[t[1]].admin \/ acct[t[1]].password = t[2])
          BY <2>2, <3>3 DEF ToldWorks
        <4>2. QED
          BY <3>3, <4>1, KeysPersist DEF Exists
      <3>4. QED
        BY <3>2, <3>3
    <2>3. QED
      BY <2>1, <2>2
  <1>3. QED
    BY <1>1, <1>2, Invariance, PTL DEF Spec

-----------------------------------------------------------------------------
(* Teams.                                                                  *)

\* A step that makes edges registers a team: it brings the owner and each
\* member into being, and links the owner to exactly the others.  That holds
\* for a member under a key that is not lowercase as well; the end of its edge
\* is then its lowercase form (subKey).
THEOREM TeamsTakeTheirOwn == Spec => TeamEdgesAreOwn
  <1> DEFINE Own == subs' # subs =>
                 \E owner \in New \cap Key :
                     subs' = subs \cup {<<owner, Lower[a]>> : a \in New \ {owner}}
  <1>1. RegistryInv /\ [Next]_vars => [Own]_vars
    <2> SUFFICES ASSUME RegistryInv, [Next]_vars, subs' # subs
                 PROVE  \E owner \in New \cap Key :
                           subs' = subs \cup {<<owner, Lower[a]>> : a \in New \ {owner}}
      OBVIOUS
    <2>1. PICK name \in Local, bases \in Team, pw \in Password, memberPw \in Password :
             RegisterTeam(name, bases, pw, memberPw)
      BY DEF Next, Serve, CreateAccount, ResetPassword, SetAccountDisabled, NormalizeAccountCase,
         Rewrite, Process, StartServer, WizardSetup, EnsureAdmin, PutAdmin, SetDomain,
         SetInitialized, WizardAnswer, Crash, vars
    <2> DEFINE owner == NamedKey(name)
               D == DOMAIN bases
    <2>2. domain \in Domain /\ owner \in Address /\ owner \in Key
      BY <2>1, ServiceHasDomain, NamedKeyIs DEF RegisterTeam
    <2>3. PICK names \in [D -> Address] :
             /\ ~Exists(owner) /\ \A i \in D : ~Exists(names[i]) /\ names[i] # owner
             /\ TeamWritten(owner, D, names, pw, memberPw)
      BY <2>1, <2>2, TeamIs
    <2> HIDE DEF owner, D
    <2>4. NewAccount(pw, FALSE) # NoAccount /\ NewAccount(memberPw, FALSE) # NoAccount
      BY NewAccountIs
    <2>5. New = {owner} \cup {names[i] : i \in D}
      <3>1. \A a \in Address : acct'[a] = IF a = owner THEN NewAccount(pw, FALSE)
                                          ELSE IF \E i \in D : names[i] = a THEN NewAccount(memberPw, FALSE)
                                          ELSE acct[a]
        BY <2>3 DEF TeamWritten
      <3>2. ASSUME NEW a \in Address
            PROVE  a \in New <=> (a = owner \/ \E i \in D : names[i] = a)
        BY <2>3, <2>4, <3>1 DEF New, Exists
      <3>3. New \subseteq Address /\ {owner} \cup {names[i] : i \in D} \subseteq Address
        BY <2>2, <2>3 DEF New
      <3>4. QED
        BY <3>2, <3>3
    <2>6. subs' = subs \cup {<<owner, Lower[a]>> : a \in New \ {owner}}
      <3>1. New \ {owner} = {names[i] : i \in D}
        BY <2>3, <2>5
      <3>2. {<<owner, Lower[a]>> : a \in New \ {owner}} = {<<owner, Lower[names[i]]>> : i \in D}
        BY <3>1
      <3>3. QED
        BY <2>3, <3>2 DEF TeamWritten
    <2>7. QED
      BY <2>2, <2>5, <2>6
  <1>2. QED
    BY <1>1, Invariance, PTL DEF Spec, TeamEdgesAreOwn

=============================================================================
