------------------------------ MODULE Registry ------------------------------
(***************************************************************************)
(* The accounts bucket as a registry of credentials                        *)
(* (internal/store/account.go, with the setup wizard and the admin         *)
(* handlers that write it): bootstrap of a fresh installation, single and  *)
(* team registration, the admin's reset and disable, and the repair of     *)
(* keys that are not lowercase.                                            *)
(*                                                                         *)
(* Every transaction is one action.  The process may die between any two   *)
(* of them and be started again.                                           *)
(***************************************************************************)
EXTENDS Integers, Sequences

CONSTANTS
    Local,          \* spellings of local parts
    LowerLocal,     \* strings.ToLower on them
    Domain,         \* spellings of domains that the wizard may be given
    LowerDomain,    \* strings.ToLower on them
    AdminName,      \* "admin"
    Password,
    Team,           \* the lists of member names a team may be registered with
    Suffixed,       \* member name -> the names with -2, -3, ... appended
    BotName,        \* the names "bot-" + 8 random characters
    NoName,         \* an empty slot in a list of names
    NoAccount, NoPassword, NoDomain

ASSUME RegistryAssumption ==
    /\ LowerLocal \in [Local -> Local]
    /\ \A n \in Local : LowerLocal[LowerLocal[n]] = LowerLocal[n]
    /\ LowerDomain \in [Domain -> Domain]
    /\ \A d \in Domain : LowerDomain[LowerDomain[d]] = LowerDomain[d]
    /\ AdminName \in Local
    /\ Suffixed \in [Local -> SUBSET Local]
    /\ BotName \subseteq Local
    /\ Team \subseteq Seq(Local \cup {NoName}) /\ NoName \notin Local /\ NoDomain \notin Domain
    /\ NoAccount \notin [password : Password, admin : BOOLEAN, disabled : BOOLEAN]

VARIABLES
    acct,           \* the accounts bucket: key -> record
    subs,           \* edges <<superior, subordinate>> made by team registration
    initialized,    \* meta "initialized"
    domain,         \* meta "domain"
    phase,          \* what the process is doing
    setup,          \* the wizard form being worked on
    told            \* history: the <<address, password>> pairs that owners were given

vars == <<acct, subs, initialized, domain, phase, setup, told>>

process == <<initialized, domain, phase, setup>>

\* An address is a local part and a domain, both as spelled: the possible keys
\* of the bucket.
Address == Local \X Domain

Lower == [a \in Address |-> <<LowerLocal[a[1]], LowerDomain[a[2]]>>]

Key == {Lower[a] : a \in Address}

Account == [password : Password, admin : BOOLEAN, disabled : BOOLEAN]

NewAccount(pw, admin) == [password |-> pw, admin |-> admin, disabled |-> FALSE]

NoSetup == [password |-> NoPassword, domain |-> NoDomain]

\* GetAccount lowercases what it is asked for; the updates do not.
Lookup(a) == acct[Lower[a]]
Exists(a) == acct[a] # NoAccount

\* adminAddress, and the key that EnsureAdmin writes.
AdminOf(d) == <<AdminName, d>>
AdminKey(d) == Lower[AdminOf(d)]

\* The key of an account that is registered under a name.
NamedKey(name) == Lower[<<name, domain>>]

-----------------------------------------------------------------------------
(* Start, setup and death of the server process.                           *)

\* An initialized database is served, any other one gets the wizard.
StartServer ==
    /\ phase = "down"
    /\ phase' = IF initialized THEN "serving" ELSE "wizard"
    /\ UNCHANGED <<acct, subs, initialized, domain, setup, told>>

WizardSetup(pw, d) ==
    /\ phase = "wizard"
    /\ phase' = "ensureAdmin"
    /\ setup' = [password |-> pw, domain |-> d]
    /\ UNCHANGED <<acct, subs, initialized, domain, told>>

PutAdmin(k) ==
    /\ phase = "ensureAdmin"
    /\ phase' = "setDomain"
    /\ acct' = [acct EXCEPT ![k] = IF @ = NoAccount THEN NewAccount(setup.password, TRUE) ELSE @]
    /\ UNCHANGED <<subs, initialized, domain, setup, told>>

\* Mutant of EnsureAdmin: any admin will do.
EnsureSomeAdmin ==
    IF \E a \in Address : Exists(a) /\ acct[a].admin
    THEN phase = "ensureAdmin" /\ phase' = "setDomain"
         /\ UNCHANGED <<acct, subs, initialized, domain, setup, told>>
    ELSE PutAdmin(AdminKey(setup.domain))

\* An admin account that exists already is left as it is.
EnsureAdmin == PutAdmin(AdminKey(setup.domain))

SetDomain ==
    /\ phase = "setDomain"
    /\ phase' = "setInitialized"
    /\ domain' = setup.domain
    /\ UNCHANGED <<acct, subs, initialized, setup, told>>

SetInitialized ==
    /\ phase = "setInitialized"
    /\ phase' = "answer"
    /\ initialized' = TRUE
    /\ UNCHANGED <<acct, subs, domain, setup, told>>

\* The wizard reports success and hands the store over to the server.
WizardAnswer ==
    /\ phase = "answer"
    /\ phase' = "serving"
    /\ told' = told \cup {<<AdminKey(setup.domain), setup.password>>}
    /\ setup' = NoSetup
    /\ UNCHANGED <<acct, subs, initialized, domain>>

Crash ==
    /\ phase # "down"
    /\ phase' = "down"
    /\ setup' = NoSetup
    /\ UNCHANGED <<acct, subs, initialized, domain, told>>

-----------------------------------------------------------------------------
(* Registration.                                                           *)

CreateAccount(name, pw) ==
    /\ phase = "serving"
    /\ ~Exists(NamedKey(name))
    /\ acct' = [acct EXCEPT ![NamedKey(name)] = NewAccount(pw, FALSE)]
    /\ told' = told \cup {<<NamedKey(name), pw>>}
    /\ UNCHANGED <<subs, process>>

\* The addresses a member may get when those in taken are gone: the name asked
\* for, in lowercase, else that with a suffix, else a random one; an empty slot
\* is random.  The domain, and the random characters, stay as they are spelled.
AddressesFor(base, taken) ==
    LET free(names) == {<<n, domain>> : n \in names} \ taken
        wanted == LowerLocal[base]
    IN  IF base = NoName THEN free(BotName)
        ELSE IF free({wanted}) # {} THEN free({wanted})
        ELSE IF free(Suffixed[wanted]) # {} THEN free(Suffixed[wanted])
        ELSE free(BotName)

\* What a list of members may get, one after the other, under owner.
Allocations(owner, bases) ==
    LET taken(members, i) ==
            {a \in Address : Exists(a)} \cup {owner} \cup {members[j] : j \in 1 .. (i - 1)}
    IN  {members \in [DOMAIN bases -> Address] :
            \A i \in DOMAIN bases : members[i] \in AddressesFor(bases[i], taken(members, i))}

\* Members enter under their addresses as allocated; subKey lowercases the edges.
PutTeam(owner, members, edgesTo, pw, memberPw) ==
    LET given == {<<owner, pw>>} \cup {<<members[i], memberPw>> : i \in DOMAIN members}
    IN  /\ acct' = [a \in Address |->
                       IF \E g \in given : g[1] = a
                       THEN NewAccount((CHOOSE g \in given : g[1] = a)[2], FALSE) ELSE acct[a]]
        /\ told' = told \cup given
        /\ subs' = subs \cup {<<owner, Lower[edgesTo[i]]>> : i \in DOMAIN edgesTo}
        /\ UNCHANGED process

\* Mutants of RegisterTeam: names are not checked against the bucket; edges
\* go to the names that were asked for.
RegisterTeamUnchecked(name, bases, pw, memberPw) ==
    /\ phase = "serving"
    /\ ~Exists(NamedKey(name))
    /\ NoName \notin {bases[i] : i \in DOMAIN bases}
    /\ LET members == [i \in DOMAIN bases |-> <<LowerLocal[bases[i]], domain>>]
       IN PutTeam(NamedKey(name), members, members, pw, memberPw)

RegisterTeamAsAsked(name, bases, pw, memberPw) ==
    /\ phase = "serving"
    /\ ~Exists(NamedKey(name))
    /\ NoName \notin {bases[i] : i \in DOMAIN bases}
    /\ \E members \in Allocations(NamedKey(name), bases) :
          PutTeam(NamedKey(name), members, [i \in DOMAIN bases |-> <<bases[i], domain>>],
                  pw, memberPw)

\* Owner, members and edges in one transaction; without a name left for some
\* member it rolls back.
RegisterTeam(name, bases, pw, memberPw) ==
    /\ phase = "serving"
    /\ ~Exists(NamedKey(name))
    /\ \E members \in Allocations(NamedKey(name), bases) :
          PutTeam(NamedKey(name), members, members, pw, memberPw)

-----------------------------------------------------------------------------
(* The admin's operations.                                                 *)

\* The records under keys that are not lowercase.
Mixed == {a \in Address \ Key : Exists(a)}

\* won: for each lowercase key, the first record to move there.
Rewrite(keep) ==
    /\ phase = "serving"
    /\ \E won \in SUBSET Mixed :
          /\ \A a \in Mixed : \E b \in won : Lower[b] = Lower[a]
          /\ \A a, b \in won : Lower[a] = Lower[b] => a = b
          /\ acct' = [a \in Address |->
                         IF a \notin Key THEN NoAccount
                         ELSE IF a \notin keep /\ \E b \in won : Lower[b] = a
                         THEN acct[CHOOSE b \in won : Lower[b] = a]
                         ELSE acct[a]]
    /\ UNCHANGED <<subs, process, told>>

\* Mutant of NormalizeAccountCase: a record that moves wins.
NormalizeUppercaseWins == Rewrite({})

\* Each record moves to its lowercase key; a record that is there already wins.
NormalizeAccountCase == Rewrite({k \in Key : Exists(k)})

\* Mutant of SetAccountDisabled: no lockout guard.
SetDisabledUnguarded(account, disabled) ==
    /\ phase = "serving"
    /\ Exists(account)
    /\ acct' = [acct EXCEPT ![account].disabled = disabled]
    /\ UNCHANGED <<subs, process, told>>

\* The guard compares what the admin typed with the address of the admin.
SetAccountDisabled(account, disabled) ==
    /\ phase = "serving"
    /\ ~(disabled /\ account = AdminOf(domain))
    /\ Exists(account)
    /\ acct' = [acct EXCEPT ![account].disabled = disabled]
    /\ UNCHANGED <<subs, process, told>>

ResetPassword(account, pw) ==
    /\ phase = "serving"
    /\ Exists(account)
    /\ acct' = [acct EXCEPT ![account].password = pw]
    /\ told' = {t \in told : t[1] # account} \cup {<<account, pw>>}
    /\ UNCHANGED <<subs, process>>

-----------------------------------------------------------------------------
Init ==
    /\ acct = [a \in Address |-> NoAccount]
    /\ subs = {}
    /\ initialized = FALSE
    /\ domain = NoDomain
    /\ phase = "down"
    /\ setup = NoSetup
    /\ told = {}

Process ==
    \/ StartServer
    \/ \E pw \in Password, d \in Domain : WizardSetup(pw, d)
    \/ EnsureAdmin \/ SetDomain \/ SetInitialized \/ WizardAnswer
    \/ Crash

Serve ==
    \/ \E name \in Local, pw \in Password :
          \/ CreateAccount(name, pw)
          \/ \E bases \in Team, memberPw \in Password : RegisterTeam(name, bases, pw, memberPw)
    \/ \E account \in Address :
          \/ \E pw \in Password : ResetPassword(account, pw)
          \/ \E disabled \in BOOLEAN : SetAccountDisabled(account, disabled)
    \/ NormalizeAccountCase

Next == Process \/ Serve

Spec == Init /\ [][Next]_vars

-----------------------------------------------------------------------------
(* Properties.                                                             *)

\* Every variable stays within its type.
TypeOK ==
    /\ acct \in [Address -> Account \cup {NoAccount}]
    /\ subs \in SUBSET (Key \X Key)
    /\ initialized \in BOOLEAN
    /\ domain \in Domain \cup {NoDomain}
    /\ phase \in {"down", "wizard", "ensureAdmin", "setDomain", "setInitialized",
                  "answer", "serving"}
    /\ setup \in [password : Password \cup {NoPassword}, domain : Domain \cup {NoDomain}]
    /\ told \in SUBSET (Address \X Password)

\* Wherever setup was cut and however often it was repeated, a database that
\* counts as initialized has a domain, and the admin account of that domain.
InitializedHasAdmin ==
    initialized => domain # NoDomain /\ Exists(AdminKey(domain)) /\ acct[AdminKey(domain)].admin

\* An address that an owner was told never goes out of use: there is an account
\* under it or, after a repair, under its lowercase form.  Where the address is
\* a lowercase key, the password last told with it opens that account.  (Of
\* admins see SetupPasswordWorks, of other addresses MembersCanLogIn.)
ToldWorks ==
    \A t \in told :
        /\ Exists(t[1]) \/ Exists(Lower[t[1]])
        /\ t[1] \in Key => Exists(t[1]) /\ (acct[t[1]].admin \/ acct[t[1]].password = t[2])

\* The accounts that a step brings into being.
New == {a \in Address : ~Exists(a) /\ acct'[a] # NoAccount}

\* A registration that makes edges makes them from a new owner to exactly the
\* other accounts it brings into being, each under its lowercase form.
TeamEdgesAreOwn ==
    [][subs' # subs =>
          \E owner \in New \cap Key :
              subs' = subs \cup {<<owner, Lower[a]>> : a \in New \ {owner}}]_vars

\* An account under a lowercase key is never lost to another operation, keeps
\* its role, and whoever changes its password gives the new one to its owner.
AccountsPersist ==
    [][\A k \in Key : Exists(k) =>
          /\ acct'[k] # NoAccount
          /\ acct'[k].admin = acct[k].admin
          /\ acct'[k].password # acct[k].password => <<k, acct'[k].password>> \in told']_vars

\* The comment of RegisterTeam: "the returned members carry the ACTUAL
\* addresses": what a member was told opens its account.
MembersCanLogIn ==
    \A t \in told : /\ Lookup(t[1]) # NoAccount
                    /\ Lookup(t[1]).admin \/ Lookup(t[1]).password = t[2]

\* The comment of handleRegisterTeam: the team is "an owner account plus its
\* subordinate bot accounts": nobody else's account is at an end of its edges.
TeamsTakeNobodyElse ==
    [][\A e \in subs' \ subs : ~Exists(e[1]) /\ ~Exists(e[2])]_vars

\* The lockout guard of handleAdminSetDisabled: "the admin cannot disable
\* itself".
AdminStaysEnabled ==
    initialized => ~acct[AdminKey(domain)].disabled

\* BootstrapSystem "creates the admin account with the given password": once
\* the wizard has reported success, that password is the one that works.
SetupPasswordWorks ==
    \A t \in told : LET a == Lookup(t[1]) IN a # NoAccount /\ a.admin => a.password = t[2]

\* The comment of getAccountInTx: "Account keys are always lowercase".
KeysLowercase == \A a \in Address \ Key : ~Exists(a)

=============================================================================
