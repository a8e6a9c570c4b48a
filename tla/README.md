# A formal model of agentmail

TLA+ modules, TLC configurations and TLAPS proofs for agentmail, a mail system
for AI agents: `agentmail-server` keeps accounts and mail in a bbolt database
behind an HTTP interface, and `agentmail-gateway` is an MCP subprocess that one
agent session uses to reach it. Paths below are relative to the repository.

The model is about the control of the program: which transactions a request is
made of, what each of them checks and writes, what is held in memory between
them, and what happens when requests, timers, goroutines and crashes come
between. The text of messages, names, hashes, wording and layout are left out.

1. [Inventory](#1-inventory)
2. [How the modules correspond to the code](#2-how-the-modules-correspond-to-the-code)
3. [Runs and what they show](#3-runs-and-what-they-show)
4. [Bounds](#4-bounds)
5. [Fairness and deadlock](#5-fairness-and-deadlock)
6. [Proofs](#6-proofs)
7. [Where the code and its own words differ](#7-where-the-code-and-its-own-words-differ)
8. [Abstractions](#8-abstractions)
9. [What is not modelled](#9-what-is-not-modelled)
10. [Plan](#10-plan)

To repeat a check, in this directory: `tlc -workers 2 -config MailStore.cfg
MCMailStore.tla` for a run, `tlapm StoreProofs.tla` for the proofs of a module
(minutes for each of the eight from nothing).

## 1. Inventory

### The components that are modelled

**Mail store** (`src/internal/store/message.go`). State, in bbolt buckets: the
bodies by ULID, one inbox, sent and unread index per account, and the liveness
stamp `lastread:<uuid>`. Operations: `Send`, `GetMessage`, `MarkRead`,
`MarkAllRead`, the listings, `CountUnread`, `CountInbox`, `TouchLastReadPull`.
Hard: one bbolt transaction is atomic, an operation is not. An id is drawn before
the transaction that commits it; `GetMessage` checks visibility in one
transaction and reads the body in the next; `MarkAllRead` collects in one and
clears in another; the three numbers of an inbox answer come from three.
Right means: the indexes agree with the bodies, delivery is all or nothing,
only participants read, what a request learned is still true when it is used.

**Files** (`src/internal/store/files.go`, `src/internal/server/handlers_files.go`,
`filesTTLLoop` of `server.go`). State: metadata and content in two buckets, the
`allowed` list of each file, snapshots in the messages that name it. Operations:
upload under two limits, renewal, deletion, `SendWithAttachments`, download in
two transactions, the sweep of expired files in two. Hard: the sweep against
the owner; grants against renewals; `SendWithAttachments` is a second copy of
the code of `Send`.

**Subordinates** (`src/internal/store/subs.go`,
`src/internal/server/handlers_subs.go`). State: edges from superior to
subordinate. Operations: declare, revoke, remove with a notification (a third
copy of the code of `Send`), the superior's view of a message in three
transactions, its list of a mailbox in four, registering a subordinate in three.
Hard: both ends remove at once, the relation ends between two transactions of a
view, mail arrives between the two halves of a list.

**Topics and correspondences** (`src/internal/store/threads.go`, `ReadThread` of
`message.go`). They keep nothing; a topic is a connected component of the
`in_reply_to` graph over the mail that the caller and its subordinates can see; a
correspondence is a page cut out of two lists, each read from the newest mails of
one box. Hard: union-find over Go maps, whose order is random; collection in one
transaction per account, or per box, while mail arrives; a window that counts mail
of all peers, a merge by seconds, and an offset into what has been merged.

**Accounts and setup** (`src/internal/store/account.go`, the wizard, the start of
`agentmail-server`). State: credentials and flags by address, the domain, the
flag `initialized`. Operations: `EnsureAdmin`, `SetDomain` and `SetInitialized` of
the bootstrap, registration of one account or of a team, reset, disable, the
repair of keys that are not lowercase. Hard: the bootstrap may be cut after any
transaction and repeated with other input; names of a team collide; an address
has many spellings and its key only one.

**Sessions** (`src/internal/store/tokens.go`, `authAccount` of `server.go`,
`ChangePassword`). State: passwords, tokens with their expiry. Operations: issue,
resolve with throttled renewal, log out, change the password. Hard: a change is
four transactions of one request.

**Rate limits and settings** (`src/internal/server/server.go`,
`src/internal/server/ratelimit.go`, `src/internal/store/store.go`,
`handleAdminSetLimits`). State, in memory: windows per kind and address as
typed, a byte budget per recipient as the sender spelled it, attempts per client IP; in the meta bucket: the limits and
switches. Hard: the ends of windows, endpoints with different limits over the
same attempts, the sweep of old attempts within a call, and limits that the
admin changes one after the other in a request that may be refused half-way.

**Directory, registration and showcase** (`handleProfileSelf`, `handleRegister`,
`handleRegisterTeam` and `handleSend` of `src/internal/server/handlers_api.go`,
`handleRegisterSubordinate` of `handlers_subs.go`, `src/internal/store/showcase.go`,
the switches of `handlers_admin.go`). State:
visibility, signature, preferences and the disabled flag in one record per
account; public copies of mail, at most 1000. Hard: a request reads the
record, asks for a switch and writes in transactions of their own; several
writers share a record; the id of a copy is older than its transaction.

**Overviews** (`src/internal/store/mgmt.go`, `src/internal/server/handlers_mgmt.go`,
`ReadAllAccountsMessages`). They keep nothing: a superior's table and graph of its
subordinates' mail, and the admin's list of all mail, computed from the bodies.
Hard: relation and bodies are read in two transactions; a message is met at its
sender and at each recipient and must count once; table, nodes and edges are cut
by different rules.

**Notification pushes** (`src/internal/server/pushsend.go`, `push.go`,
`src/internal/store/pushsubs.go`). State: subscriptions and quiet hours in bbolt;
timers and counts in memory under a lock. Operations: a goroutine per recipient
joins the aggregation window or counts for the summary; timers flush both; an
endpoint that is gone is pruned. Hard: an arrival between the firing of a timer
and its flush, quiet hours over midnight, an endpoint that changes hands during
a push.

**MCP gateway** (`src/internal/gateway/server.go`, `tools.go`). State, in memory:
access codes with expiry and a budget of writes; the agent keeps `since_id`.
Operations: authenticate, tool calls, `wait_for_new_mail`, which polls, and
`send_email`, which uploads its attachments one by one before the mail, over an
HTTP client without retries (`src/internal/httpclient/client.go`). Hard: the
continuity of a watch over several waits, ids that are committed out of order,
pages of bounded length, an exhausted code, a request that is given up on and
served all the same.

### How they interact

The gateway calls the server over HTTP. A handler authenticates (Sessions),
passes the rate limits, runs transactions of the store (Mail store, Files,
Subordinates), and after a delivery starts a goroutine for each recipient
(Notification pushes). Files and Subordinates write the indexes of the mail
store themselves, in transactions of their own. The web panel, the Android
wrapper and the gateway are all clients of the same HTTP interface. Between
transactions, what a request knows is in the memory of its goroutine; a crash
takes it, with the timers, the windows and the access codes.

### The other components

The rest of the HTTP client, the HTTP server, the admin, information and
management handlers and the settings, display names, audit log, setup page, configuration,
commands, web panel, Android wrapper, build and release: see
[section 9](#9-what-is-not-modelled).

## 2. How the modules correspond to the code

A bbolt transaction is one action. A request that needs several is a sequence of
actions with a program counter (`pc`, `job`, `work`, `find`, `call`), so requests
interleave between their transactions, and what the code keeps in local variables
is kept in a record (`req`, `job`). Memory under one mutex is one action too.
`PROJECT.json` maps each definition to the lines it stands for.

| Module | Models | State | Composition |
|---|---|---|---|
| `MailStore` | `message.go` | `accounts`, `messages`, `inbox`, `sent`, `unread`, `lastRead`; `pc`, `req` of each request; `now` | |
| `Mailbox` | what a mail store promises: a message is posted once, its copies go from unread to read | `post`, `box` | abstract; implemented by `MailStore` under the mapping `Abstract` |
| `Files` | `files.go`, `handlers_files.go` | `files`, `data`, `attached`, `doomed` (what the sweep has collected), `download` | extends `MailStore`; uses its `Deliver`, with `SendWithAttachments` next to it |
| `Subordinates` | `subs.go`, `handlers_subs.go` | `subs`, `job` of each request, history `removals` | extends `MailStore`: all its requests run beside the jobs, and removals draw ids from `FreshId` |
| `Overview` | `mgmt.go`, `handlers_mgmt.go`, `ReadAllAccountsMessages` | `job` of `Subordinates`, with the relation and the bodies a request read; the answer is a function of them | extends `Subordinates`, next to all of which it is checked |
| `Components` | `deriveComponents` of `threads.go` | `inReplyTo`, `uf`, `todo`, `find`, `group` | |
| `Threads` | `ThreadByRoot` and `ReadThread` | `msgs`, `read` | takes from `Components` that topics are components |
| `Registry` | `account.go`, wizard, start of the server | `acct`, `subs`, `initialized`, `domain`, `phase`, `setup`, history `told` | |
| `Sessions` | `tokens.go`, authentication, `ChangePassword` | `password`, `disabled`, `tokens`; `pc`, `req`, history `used` | |
| `Settings` | the limits and switches of `store.go`, `handleAdminSetLimits` | `meta`, `post` (what a request has still to store), history `posts` | extended by the modules whose requests read settings |
| `RateLimits` | `server.go`, `ratelimit.go` | `rates`, `recvRates`, `hits`, histories `passed`, `received`, `tried`, `lately`, `ceiling` | extends `Settings` |
| `Portal` | profile, registration of all three kinds, directory, showcase | `accounts`, `requests`, `showcase`, `clock`; histories `sent`, `shown`, `removed`, `during` | extends `Settings` |
| `Push` | `pushsend.go`, `push.go`, `pushsubs.go` | `minute`, `dnd`, `subs`, `gone`, `pending`, `latestFrom`, `digestCount`, `digestTimers`, `stale`, `work` of each goroutine | |
| `Gateway` | `gateway/server.go`, `tools.go` | `inbox` (the server's side), `codes`, `call`, the agent's `last`; histories | |
| `SendEmail` | `send_email`, `httpclient/client.go` | `requests` under way, `files` and `mails` of the server; histories `answers`, `sends` | extends `Gateway`: a send is one of its calls and spends its codes |
| `StoreProofs` | theorems about `MailStore`, its refinement of `Mailbox`, and `Files`, `Subordinates` and `Overview` | | extends `Files` and `Overview`, which extend `MailStore` |
| `TopicsProofs` | theorems about `Components` and `Threads` | | extends both |
| `GatewayProofs` | theorems about `Gateway` and `SendEmail` together | | extends `SendEmail` |
| `SettingsProofs` | theorems about `Portal` and `RateLimits` | | extends both |
| `PushProofs`, `SessionsProofs`, `RegistryProofs` | theorems about one module each | | extend it |
| `NumberSets` | lemmas on least, greatest and newest elements of finite sets of numbers | | used by `StoreProofs`, `GatewayProofs` and `SettingsProofs` |
| `MC...` | instances for TLC | | |

Some correspondences that are not one to one:

- Addresses. `Address` holds every spelling, `Lower` is `strings.ToLower` and `Key`
  its range. Each operation lowercases exactly where the code does; where the code
  compares raw strings (the quota of a file, a token, a subscription) the model
  does. Several of the counterexamples in section 7 come from this.
- `SendCommit` is the transaction of `Send` together with the answer after it:
  "no valid recipients" is reported when the body is stored already, so it is a
  `sendFailed` that has written.
- `FreshId` says that no two requests in flight draw one ULID. They have 80 random
  bits; two ids of one millisecond may be in any order, and so may the commits.
- A definition called a mutant in its comment (`DeliverUnmarked`, `SweepRecords`, ...)
  belongs to no specification: it is the code with a plausible mistake, kept to
  show that the property it is listed with can fail.
- What a check compares with may be old. `lately` holds what was in force of a limit
  since the last tick, and a check of `RateLimits` takes any of it, as the limit is
  read before the lock; `Portal` has the transactions of a request one by one.
- A lost request is one that stays in `requests` of `SendEmail` and is never served;
  one that is served after `GiveUp` is a late one.
- History variables record what happened and are read by properties alone.

## 3. Runs and what they show

The runs that are listed in `PROJECT.json`, with the distinct states of each:

| Configuration | Properties | States | What it shows |
|---|---|---|---|
| `MailStore.cfg` | `ReplyForest`, `InboxCountsAgree`, `RequestsCurrent`, `GotOnlyVisible`, `ReadsAreOwned`, `ImplementsMailbox`, `LastReadMonotone` | 2 189 218 | Two concurrent requests over two messages with crashes and a clock: counts and the read path hold, nobody reads what is not his, and the interleaved transactions implement `Mailbox` |
| `Files.cfg` | `HalvesTogether`, `RecipientsMayDownload`, `SnapshotsHonest`, `ExpiredFilesGo` | 265 880 | Sweep, owner, mail and downloads interleave: metadata and content go together, grants are never lost, and expired files go |
| `Overview.cfg` | `IndexesConsistent`, `ViewedBelongsToTarget`, `ListHasNoGap`, `OverviewComplete`, `EdgesCountOnce`, `DeliveryAtomic`, `RemovalAtomic` | 229 498 | A second writer of the indexes keeps them right; a removal and its notification are one; views and lists read in several transactions stay right; the overview misses nothing and counts nothing twice |
| `Components.cfg` | `JoinedAreConnected`, `GroupsAreTopics`, `Terminates` | 5 586 | For all edges between three visible messages and one hidden, in every order, union-find computes the components and ends |
| `Threads.cfg` | `TopicBetween`, `PageBetween` | 4 128 735 | Topics and pages of correspondences read while three accounts send: what is shown lies between what there was and what there is, and what is missing is accounted for |
| `Registry.cfg` | `InitializedHasAdmin`, `ToldWorks`, `TeamEdgesAreOwn`, `AccountsPersist` | 501 545 | Setup cut and repeated with another domain, another spelling of it or another password, teams whose names collide or are random, resets, disabling and the repair of keys, in domains of either case |
| `Sessions.cfg` | `ActiveTokenLives`, `RevocationsJustified` | 1 195 974 | Rolling expiry within its two bounds; nobody is logged out without cause |
| `RateLimits.cfg` | `WindowsCap`, `AttemptsCap` | 421 998 | All limits are reached, and the highest in force is not passed while the admin changes them |
| `Portal.cfg` | `ShowcaseFaithful`, `PermittedInCourse`, `FieldsApart` | 1 509 082 | Nothing becomes public without a permission that held in the course of its request; accounts come into being in three ways only, of which the registration of one account had its permission; the writers of a record spare each other's fields; the showcase keeps the newest of what was delivered |
| `Push.cfg` | `ArrivalsCovered`, `AggregationSpacing`, `EndpointsKeepOwner` | 820 824 | No arrival is left without a timer or a flush; bursts collapse; pruning spares an endpoint that has changed hands |
| `Gateway.cfg` | `WatchFaithful`, `RefusalsFinal`, `SendWhole` | 4 594 245 | What a watch can miss is exactly named; a refused code stays refused; a mail with attachments is delivered whole or not at all |
| `PushStarved.cfg` | `DigestAnnounced` is violated | 1 322 | See section 7 |

What some of the properties say, since it is easy to read more into them:

- `WatchFaithful` does not say that a watch misses nothing. It says what it misses:
  mail below a page that was answered with `possibly_more`, mail committed below
  an id that could be seen already (`late`), and mail before a second baseline
  (`passedOver`). The second baseline is the case that contradicts the tool's
  description (`NothingMissed`, section 7).
- `WindowsCap` bounds each window by the highest limit in force since it began and any
  hour by twice that. That is what a window that starts afresh gives; that it is not a
  sliding window is `SlidingCap` (section 7). It speaks of an address as it is typed,
  which is what the maps of the code are keyed by, and not of an account: another
  spelling of the address is another window. That the limit of an account does not
  follow is `AccountCap` (section 7).
- `ToldWorks` says of every address that was told that it does not go out of use,
  and of lowercase keys that the password opens them. A member of a team is told
  its name with the domain as spelled at setup, which need not be a lowercase key:
  of those `MembersCanLogIn` speaks, and the code does not keep it (section 7). In
  the same way `TeamEdgesAreOwn` says that the edges of a team lead to the lowercase
  forms of the accounts it has brought into being, and `TeamsTakeNobodyElse`, that
  these are nobody else's, fails where a member's key is not lowercase. `ToldWorks`
  excepts admins, of whom `SetupPasswordWorks` speaks.
- `OverviewComplete` is one direction: what was in a subordinate's boxes when the
  overview was asked for is counted. The other direction does not hold
  (`OverviewVisible`). `PermittedInCourse` says that a permission held at some time
  between the start and the end of the request, not at its end (`SwitchFinal`). Of the
  three ways in which accounts come into being only `handleRegister` asks for a
  permission; of the other two the property says what they create (one account,
  for a superior that exists; an owner with at least one member). That a team comes
  into being with registration off is `RegistrationAllowed` (section 7).
- `PageBetween` does not say that a page shows all there is: it names what is missing.
  What was there when the read began and is not shown lies below the window of its
  box, or belongs to an earlier page, or to a later one, counting what came in during
  the read. That the window loses mail that no page shows is `WholeIndexesRead`, and that mail
  to the peer as a copy is not counted at all is `RecipientsCovered` (section 7).
- `SendWhole` does not promise that a mail that the agent was told had failed is
  not delivered: an error of the last request leaves that open, and the answer
  then counts as `unknown`.

Every property of a passing run has a mutant in `PROJECT.json`: a change of one
definition that a mistake in the code would amount to, under which TLC finds the
property violated.

Further configurations, to be run by hand:

- The type invariants (`TypeOK`, `FilesTypeOK`, `ThreadsTypeOK`) and the inductive invariants of
  section 6: add one to the configuration of its module; the latter need an MC module
  that extends the module of the proofs.
- The configurations of section 7.

## 4. Bounds

| Configuration | Instance | Why it is enough |
|---|---|---|
| `MailStore.cfg` | 2 addresses, 2 ids, 2 requests in flight (symmetric), mail to either address, pages of 1, clock to 1 | Every hazard here is between two requests, or a request and the commit it did not see; two ids give a reply, ids that commit in the other order, and a page that is not the whole inbox; two values of the clock give the order of two stamps. Accounts register at any time, so a recipient may be unknown. That spellings are one address is left to the proofs, which are for any `Lower` |
| `Files.cfg` | 2 files of size 1, 3 spellings, 1 message, TTL 1, clock to 2, 1 download | One file that the sweep has collected and another that it has not; time for a file to be renewed and then expire. The limits do not bite here: `FilesClaims.cfg` is about them |
| `Overview.cfg` | 3 addresses, one of which is superior (`Superior`), 2 ids, 1 request of the mail store and 1 job, lists and contacts of 1, windows from id 0 or 2 | Mail arrives between any two transactions of a view, a list or an overview, from the other request or as a notification; a subordinate, a superior and an account outside, each as sender and recipient; more contacts than fit. Removals by both ends interleave as two steps. Edges in both directions and spellings are left to the proofs, which are for any `Superior` and any `Lower` |
| `Components.cfg` | 3 visible messages, 1 hidden, every function of edges | With three there are chains, forks, self loops, cycles of two and three, and a path that halving shortens |
| `Threads.cfg` | 3 accounts, 1 of which may get copies, 3 messages, 1 reader with 1 subordinate and 1 stranger, the first and the second page of 1, windows of 1 beyond the page (`Margin`, 200 in the code), two messages in one second | A topic that is joined through a message that arrived late, and one with a part the reader cannot see; mail of others that fills a window, a page that shifts under arrivals, mail to oneself on both sides, ties |
| `Registry.cfg` | 4 local parts, one of them with a capital, 2 passwords (symmetric), 3 domains, two of which differ by case, teams of 1 random and of 2 names | Two setups that differ in both inputs or only in the case of the domain; names that collide with each other by case, with an account, with a suffix and with a random name; keys that are not lowercase through the name or the domain |
| `Sessions.cfg` | 2 spellings of 1 address, 2 tokens, 2 requests, TTL 3, slack 1, clock to 4 | A token may be renewed, renewal may be withheld, and it may expire, before and after a use |
| `RateLimits.cfg` | 1 address in 1 spelling, since windows of two never touch (`RateLimitsClaims.cfg` has two, the theorems any number), 2 clients, hours of 2 ticks, limits of 0 to 3, 1 request of the admin with two limits, sweep above 1 client | A window may start at each tick of another; an attempt of each age; a client whose attempts are swept in the call of another; limits that go up, down and to "no limit", and a request that is refused after its first field was stored |
| `Portal.cfg` | 3 accounts, 1 of which exists, 2 requests at a time and 3 in all, 2 of the admin, showcase of 1, clock to 1, 2 ids in a millisecond | Two saves of one profile, or two copies that compete for the last place, with the switch going off and on between any two transactions; an account, a subordinate and a team may be registered next to them; two milliseconds for the order of ids |
| `Push.cfg` | 2 accounts, 1 endpoint, 2 goroutines, days of 2 minutes, window of 1, arrivals counted to 1 | A timer fires while an arrival is handled; the endpoint passes from one to the other while it is pruned. One arrival or more is all that `ArrivalsCovered` asks |
| `PushStarved.cfg` | 1 account, days of 4 minutes, quiet hours over midnight | Both sides of midnight |
| `Gateway.cfg` | 2 mails, 2 codes with 1 write each, page of 1, any first cursor, ids in any order, 2 attachments | More mail than a page, a mail below the cursor, one budget that is spent while another is not, an upload that fails after another has succeeded |

Each bound is a constant: `MaxTime`, `MaxMsg`, `MaxCount`, `Day`, `Hour`, `Cap`,
`ListLimit`, `TopContacts`, `Superior`, `MaxPosts`, `MaxRequests`,
`MaxIds`, `Margin`, `Page`,
`ShowcaseCap`, `MaxAttached`, `PollLimit`, `CodeTTL`, `Timeout`, `TTL`. Ids, file ids, tokens and
access codes are used up and never reused, as in the code, so they bound the length
of a run as well: a system that could go on for ever with fresh ids stops when the
set of ids is empty.

Symmetry is used for requests, jobs, clients, accounts and codes that no
definition tells apart, and never in a run with a liveness property.

## 5. Fairness and deadlock

Only three runs are about liveness; the other specifications have no fairness.

- `FilesFairSpec`: weak fairness of `SweepCollect` and strong fairness of
  `SweepDelete`. `filesTTLLoop` (`server.go:291`) sweeps at startup and once a day for
  as long as the process runs, and a process that crashes is started again. The
  strong form says that the process is not killed within each of its sweeps for
  ever.
- `FairSpec` of `Components`: weak fairness of the one loop that is running.
- `FairSpec` of `Push`: weak fairness of each goroutine, strong fairness of a timer
  that is due and of time (strong, since arrivals may occupy the goroutines of the
  instance again and again). No more is claimed than that the summary is
  starved in spite of it.

Nothing obliges a caller to make a request.

`CHECK_DEADLOCK FALSE` is in the configurations of `MailStore`, `Files`,
`Overview`, where the ids or the clock run out and all requests have been
answered, of `Components`, which terminates, and of `Gateway`, where the codes run
out. In the other runs deadlock is checked.

## 6. Proofs

Each theorem holds for every value of the constants within the assumptions of its
module. For each specification there is an inductive invariant (`Inv`, `FilesInv`,
`OverviewInv`, `GatewayInv`, `PushInv`, `SessionsInv`, `RegistryInv`, `ThreadsInv`, `PortalInv`,
`RatesInv`), of which TLC
found no violation on the configuration of section 3 before it was proved; below, for
each, why the properties alone are not inductive. Steps are taken one action at a
time, and a temporal theorem combines its state-level facts at the end.

The assumptions are those of the modules. Beside the plain ones (`Lower` is idempotent,
ids are finite in number, bounds are naturals) they are:

- a value that stands for "none" is no other value (`NoFile`, `NoCode`, `NoTimer`, `Fired`,
  `NoToken`, `NoAccount`, `NoDomain`);
- the grants of a file are keys (`Grants`), as `handlers_files.go` lowercases them.

Finiteness is needed for counts: an inbox, a page or a list has a cardinality.

### The mail store (`StoreProofs`, first part)

| Theorem | Statement |
|---|---|
| `TypeCorrect` | `Spec => []TypeOK` |
| `StoreConsistent` | `Spec => [](IndexesConsistent /\ ReplyForest)` |
| `RepliesFormForest` | `Spec => []ReplyForest` |
| `RequestsStayCurrent` | `Spec => []RequestsCurrent` |
| `ReadersAreParticipants` | `Spec => []GotOnlyVisible` |
| `InboxAnswersAgree` | `Spec => []InboxCountsAgree` |
| `SendAnswersHonest` | `Spec => []SendOutcome` |
| `DeliveryIsAtomic` | `Spec => DeliveryAtomic` |
| `ReadsAreOwnersReads` | `Spec => ReadsAreOwned` |
| `StampsAdvance` | `Spec => LastReadMonotone` |
| `Refinement` | `Spec => ImplementsMailbox` |

`ReplyForest` is not inductive by itself: that a new message
closes no cycle needs that nothing stored names it as its parent, which follows
from the other half of the same invariant, that parents are stored. `StoreInv`
joins it with `RefsResolve` and `UnreadWithinInbox`, and holds by what `Deliver`
writes. For the requests, `RequestsCurrent` says what each program counter has
established and that an id in flight belongs to one send; with it the invariant is

    Inv == TypeOK /\ StoreInv /\ RequestsCurrent

The lemma `StoreGrows` says what no step undoes: bodies stay as they are and
references are never taken away. So the facts of a request survive the steps of all
others (`OthersCurrent`), and only its own steps need a look (`MoveCurrent`,
`StepCurrent`). `GotOnlyVisible` follows from `Inv` directly: an id that was in an
index of the caller is still there, and references resolve to participants.
`InboxCountsAgree` and `SendOutcome` are extended by one step back
(`AnswerOrigin`): an answer comes out of the transaction before it. The action
properties follow from `Inv` step by step.

The refinement maps a copy to what the two indexes say of it (`CopyState`). Initial
states map to initial states (`MailboxInit`). `SendCommit` is the abstract `Post`
(`DeliverPosts`), for which `Inv` is needed: the id of a send in flight is not stored
yet, and an id that is not stored is in no index, so no copy of it existed. The updates of
`MarkRead` and `MarkAllRead` are `Read` of their owner, or change nothing if another
request has cleared the markers in between (`MarkingReads`). All other transactions leave
the mailboxes as they are. `LastReadMonotone` needs that no stamp is later than the clock.

### Attachments, superiors, overviews (`StoreProofs`, second part)

| Theorem | Statement |
|---|---|
| `FilesTypeCorrect` | `FilesSpec => []FilesTypeOK` |
| `HalvesStayTogether` | `FilesSpec => []HalvesTogether` |
| `SnapshotsStayHonest` | `FilesSpec => []SnapshotsHonest` |
| `RecipientsKeepAccess` | `FilesSpec => []RecipientsMayDownload` |
| `AttachmentsDeliveredAtomically` | `FilesSpec => DeliveryAtomic` |
| `IndexesStayConsistent` | `OverviewSpec => []IndexesConsistent` |
| `ViewsBelongToTarget` | `OverviewSpec => []ViewedBelongsToTarget` |
| `ListsHaveNoGap` | `OverviewSpec => []ListHasNoGap` |
| `OverviewsComplete` | `OverviewSpec => []OverviewComplete` |
| `EdgesCount` | `OverviewSpec => []EdgesCountOnce` |
| `DeliveriesAtomic` | `OverviewSpec => DeliveryAtomic` |
| `RemovalsAtomic` | `OverviewSpec => RemovalAtomic` |

`Files` has its own next-state relation over the variables of the store, so `StoreInv`
is carried along rather than taken from the theorems about `Spec`; the lemmas about `Deliver`
are the same. `RecipientsMayDownload` is not inductive alone: a file id that a message
names must never come to be another file's, hence `LiveMinted` (what lives was given
out) and `SnapshotsHonest` (what is named was given out). What a renewal, an extension
of the grants or the sweep leaves of a record is one lemma (`Kept`, `KeptGrants`).

In `Overview` a job carries what it read some transactions ago. `OverviewInv` says for
each step of a job what is still true of that (`ViewHonest`, `ListHonest`, `ScanHonest`), and
that every message has a recipient in To, on which the graph depends. Those facts are
about sets that only grow, so the steps of all others keep them (`OthersHonest`), with
the notification of a removal treated as a delivery (`StoreStep`). A list is built of
two that are each complete for one index; that merging and cutting them leaves no gap is
`MergedComplete`, and rests on `NumberSets`: the newest n of a finite set of ids are n or
all of them, and all newer than the rest. `EdgesCountOnce` is about what the answer
is computed to: a message is met at its sender and at each recipient, and the sets
that an edge counts are shown to be disjoint (`SidesDisjoint`), so their sizes add up.

### Topics and correspondences (`TopicsProofs`)

| Theorem | Statement |
|---|---|
| `TypeCorrect` | `Spec => []TypeOK` |
| `Soundness` | `Spec => []JoinedAreConnected` |
| `Correctness` | `Spec => []GroupsAreTopics` |
| `ThreadsTypeCorrect` | `ThreadsSpec => []ThreadsTypeOK` |
| `TopicsLieBetween` | `ThreadsSpec => []TopicBetween` |
| `PagesLieBetween` | `ThreadsSpec => []PageBetween` |

The union-find is proved for any set of messages, also an infinite one, any edges,
cycles included, and any order of the maps. "The root of x" is a recursive notion, and
"connected" is one of paths; neither is used. Two messages are connected when no
colouring that is constant along the visible edges tells them apart, and the
invariant speaks of colourings: those constant along the edges are constant along
the forest (`Sound`); those constant along the forest are constant along the edges
that have been taken (`Taken`); find stays within one colour (`Finding`); a group is
named by a root of its message's colour (`Grouped`); and there is a colouring
that is constant along the forest and tells its roots apart, with a function to
the naturals that descends to them (`Forest`). When a union hangs root `a` under
root `b`, that last colouring is recoloured from `a` to `b`, which is the heart of
the proof. `GroupsAreTopics` then is: same group, hence same colour for each
colouring along the edges; and if connected, then the colouring that tells roots
apart has to give them one root.

For `Threads` the same notion of a topic gives what the invariant needs: a topic of more
messages contains that of fewer (`TopicGrows`), and one that holds a message holds its
visible parent (`TopicClosed`). That the earliest message is the only root
(`TopicRoot`) would be an induction along replies; the proof instead takes the least set
that holds a root and every reply to one of its own, and the rest, as a colouring of two
colours. It tells no connected messages apart (`TopicSplits`), and a younger root would be in
one part and an older one in the other.

A correspondence is bounded from both sides while it is read (`Paging`): what is collected
of a box lies between what was there at first and is still within the window (`Was`)
and what is there now (`Is`). An arrival only adds to the one and only pushes out of the
other (`SendWidens`), also after the box has been read. The place of an entry in a list is
the number of entries before it, and grows with the list (`RankGrows`); so its place in the
merged list, where the page is cut, lies between its places in `Was` and in `Is`, which is
what `PageBetween` says. Nothing is assumed of copies, windows or seconds.

### The gateway and its sends (`GatewayProofs`)

| Theorem | Statement |
|---|---|
| `RefusedStaysRefused` | `SendSpec => []RefusalsFinal` |
| `WatchStaysFaithful` | `SendSpec => []WatchFaithful` |
| `SendsStayWhole` | `SendSpec => []SendWhole` |

`GatewayInv` has six parts: types (`Typed`); codes that are known were issued and not refused
(`CodesKnown`); the writes of a code that were served, that are on their way and that
the call in progress may still make are together no more than what it was charged
(`Budget`), which is what a late request makes necessary; what lies below the cursor of a
watch is accounted for, at each of the steps of a poll (`Watching`); mails, requests
for mails and answers belong to sends that were begun, and at most one of them is
the mail of a send (`Outgoing`); and what the loop over the attachments has done so
far is on the server (`Uploading`). `WatchFaithful` is not inductive because a poll holds
a page that it read before mail arrived, and `SendWhole` because a request may be served
after the agent was told of the failure.

### Pushes (`PushProofs`)

| Theorem | Statement |
|---|---|
| `PushTypeCorrect` | `Spec => []TypeOK` |
| `ArrivalsStayCovered` | `Spec => []ArrivalsCovered` |
| `FlushesAreSpaced` | `Spec => AggregationSpacing` |
| `OwnersKeepEndpoints` | `Spec => EndpointsKeepOwner` |

Between the firing of a timer and its flush the timer is neither armed nor gone:
`Covered` says that it then has a flush under way, which the property leaves out and the
steps of other goroutines need. `Spaced` says that the time left on an armed timer and
the time since the last flush make up a window, and that no two goroutines flush one
address at once.

### Sessions (`SessionsProofs`)

| Theorem | Statement |
|---|---|
| `SessionsTypeCorrect` | `Spec => []TypeOK` |
| `ActiveTokensLive` | `Spec => []ActiveTokenLives` |
| `LogoutsAreJustified` | `Spec => RevocationsJustified` |

Both bounds on the life of a token are in the invariant, with the fact that no token
was used in the future; a renewal that is withheld needs both, as the slack is
compared with the expiry and not with the last use.

### Accounts and setup (`RegistryProofs`)

| Theorem | Statement |
|---|---|
| `AdminExists` | `Spec => []InitializedHasAdmin` |
| `AccountsStay` | `Spec => AccountsPersist` |
| `HandedOutPasswordsWork` | `Spec => []ToldWorks` |
| `TeamsTakeTheirOwn` | `Spec => TeamEdgesAreOwn` |

That an initialized database has its admin, wherever setup was cut, needs what each
phase has written (`SetupWritten`), and that before the first service only admins exist
(`BeforeService`): otherwise the account that `EnsureAdmin` finds and leaves alone
could be anybody's. `HandedOutPasswordsWork` rests on three facts about a step: what it
tells is true after it (`NewlyToldWorks`), no address goes out of use
(`AddressesPersist`, where the repair of keys is the case that matters), and a lowercase
key only changes its password if what was told of it before is replaced
(`KeysPersist`). None of the theorems assumes anything about the case of domains or
names; what fails for want of it is in section 7 (`MembersCanLogIn`,
`TeamsTakeNobodyElse`, `KeysLowercase`, `AdminStaysEnabled`).

### The directory, registration and the showcase (`SettingsProofs`)

| Theorem | Statement |
|---|---|
| `PortalTypeCorrect` | `Spec => []TypeOK` |
| `ShowcaseStaysFaithful` | `Spec => []ShowcaseFaithful` |
| `PermissionsInCourse` | `Spec => PermittedInCourse` |
| `WritersKeepApart` | `Spec => FieldsApart` |

`InCourse` says at each step of a request what its earlier transactions have found, and
that `during` remembers it: a request that waits to save `visible` was listed or permitted
at some time. The three requests that create accounts end in one action each, which joins
new records to the old (`WithIs`, `CreatingIs`); `CreatingPermitted` says what each of them
creates and with what permission, and all other steps leave the accounts that there
are (`WritersAre`). `Unique` says that numbers of mails and ids of copies are used once,
those of the requests under way included, and `Wanted` that what is to be copied was
delivered. With unique ids the showcase keeps to its cap (`TeeCaps`): all it holds but the
oldest is newer than the oldest, and of those there are fewer than the cap.

### The rate limits (`SettingsProofs`)

| Theorem | Statement |
|---|---|
| `RatesTypeCorrect` | `RatesSpec => []RatesTypeOK` |
| `WindowsCapped` | `RatesSpec => []WindowsCap` |
| `AttemptsCapped` | `RatesSpec => AttemptsCap` |

What was let through under an address is a set of attempts with their ages, and what counts is its
cardinality, so that no sum is needed. A tick maps it to a set no larger
(`OlderCounts`), and one more is one more at every age (`OneMoreCounts`). `WindowsCap`
bounds what passed since a window began and what passed in an hour. Neither survives a
step by itself: the next tick may end the window, and then the hour holds all of the
old window and what the next lets through. `Covers` therefore bounds, for every age
`n`, what passed within the last `n` ticks of the window by the highest limit of those
ticks, and what passed before the window began likewise (`Between`): that was one window
too. `WindowsCap` is the sum of the two at the last age. The limits take part:
`CapsGrow` says that a change by the admin only raises the highest limit of the
hour, `CapsTick` that the tick moves it to the next age. For `AttemptsCap`, what was let through in
the last hour is what the limiter keeps (`tried = Kept(hits)`), before and after any sweep.

### Model-checked only

- `TypeOK` of `Gateway` and `SubsTypeOK` hold of these modules run alone. The proofs are about
  the modules that extend them, whose calls have more kinds, and have the wider types in
  `Typed` of `GatewayProofs` and `OverviewInv`.
- The quota of an account in `Files` is a sum over files, and what a fold computes for
  every input is an induction over data, which the provers used here cannot do. No
  run states it, as section 7 has a counterexample to it.
- Liveness (`ExpiredFilesGo`, `Terminates`, `DigestAnnounced`) needs fairness and `ENABLED`, which
  are beyond the proof system.

## 7. Where the code and its own words differ

Each of these properties is one that a comment or a document of the repository
states, and TLC finds a counterexample. A configuration that names several stops
at the first; keep only the line of the property in question, or run TLC with
`-continue`. `PushStarved.cfg` is listed in
`PROJECT.json` as a run and a finding; the others are kept beside it to be run by
hand.

| Configuration, property | What the code does | What is said of it |
|---|---|---|
| `PushStarved`, `DigestAnnounced` | With quiet hours over midnight, `enqueueDigest` adds a day even when midnight has passed (`pushsend.go:111`), so the timer is set for the end of the next night; mail after the next midnight sets it again, and the summary is never sent | `pushsend.go:26-27`: "ONE summary push ... fires when it closes" |
| `PushClaims`, `QuietIsQuiet` | `flushAggregated` (`pushsend.go:94`) does not look at the quiet hours: arrivals of the last minute before them are pushed in them | `docs/push/DESIGN.md:44`: 账户设置静默时段内只入队不发 (within the quiet hours, queue only, do not send) |
| `PushClaims`, `PushReachesAccount` | Recipients are passed as their sender spelled them and compared exactly (`pushsubs.go:97`): mail to `Bob` is delivered to bob and notifies none of his devices | `pushsend.go:17-18`: fans out "to every subscription of the recipient" |
| `MarkAllCount`, `MarkAllCountExact` | `MarkAllRead` returns the number of keys its View collected (`message.go:915`); another request may clear some before its Update | `message.go:871-872`: "clears every unread marker ... in one transaction and returns how many were cleared" |
| `FilesClaims`, `SweepOnlyExpired` | The sweep collects in a View and deletes in an Update without a second look (`files.go:180`): a file that was renewed in between is deleted | `files.go:159`: "removes files older than the TTL" |
| `FilesClaims`, `QuotaHolds` | `SaveFile` compares owners exactly (`files.go:85`): an account has one quota for each spelling | `files.go:52-54`: "the owner's live files' total size plus this file must stay under FileQuotaPerAcct" |
| `GatewayClaims`, `NothingMissed` | A wait on an empty inbox that times out returns `last_seen_id` "" and the next takes a new baseline (`tools.go:608`): mail in between is never returned | `tools.go:145`: "maintain a continuous watch without missing in-between mail" |
| `GatewayClaims`, `BadFileSpendsNothing` | `toolSend` calls `consumeCode` before anything else (`tools.go:336`), so a send that ends with an unreadable inline file has spent a call | `tools.go:377-380`: "Validated ... BEFORE consuming the send, so a bad attachment never burns the access-code budget" |
| `RateLimitsClaims`, `AccountCap` | Windows are kept under the address as the client typed it (`server.go:111`, `130`; `handlers_subs.go:92`; `push.go:67`), which `basicAuthAccount` returns (`server.go:377`), while the password is checked under the lowercased one (`account.go:127`): an account has a window for each spelling | `README.md:189`: "500 / hour / account" |
| `RateLimitsClaims`, `SlidingCap` | A window starts with the first operation after the last one ended (`server.go:113`): twice the limit may pass within an hour | `server.go:41`: "rateWindow is a 1-hour sliding window counter" |
| `RateLimitsClaims`, `BudgetKept` | `Send` is called with all recipients (`handlers_api.go:275`): one over its byte budget gets the mail if another is within its own | `README.md:190`: "Over-budget recipients are skipped" |
| `RegistryClaims`, `KeysLowercase` | A team member with a random name gets that name as its key, uppercase letters included (`account.go:640`), and cannot be looked up | `account.go:79-80`: "All entry points funnel through here" |
| `RegistryClaims`, `MembersCanLogIn` | A member is registered and told `name@domain` with the domain as spelled at setup (`account.go:640`), which `wizard.go:130` only trims: with an uppercase letter in it the collision check misses the account `name@t` of somebody else, and the lookup, which lowercases, finds that account or none | `account.go:542-543`: "The returned members carry the ACTUAL addresses" |
| `RegistryClaims`, `TeamsTakeNobodyElse` | For the same member, and for one with a random name in mixed case, `subKey` lowercases the end of the edge (`account.go:655`): it is the account of somebody else if one is there | `handlers_api.go:857-858`: "an owner account plus its subordinate bot accounts" |
| `RegistryClaims`, `SetupPasswordWorks` | Setup that is cut after the admin account and repeated with another password keeps the first and reports success (`account.go:463`) | `account.go:488-489`: "creates the admin account with the given password" |
| `RegistryClaims`, `AdminStaysEnabled` | The guard compares the address as typed with `admin@` and the domain as spelled at setup (`handlers_admin.go:360`): if the domain has an uppercase letter, the key passes | `handlers_admin.go:336`: "The admin cannot disable itself" |
| `SessionsClaims`, `ChangeRevokesAll` | Tokens record the address as spelled at login and are compared exactly (`tokens.go:124`): those of another spelling survive a change of the password | `tokens.go:21-22`: "Password change revokes all of them" |
| `SessionsClaims`, `ChangeReplacesVerified` | The old password is compared before the write transaction (`account.go:336`): a reset in between is overwritten | `account.go:299-300`: "verifies oldPassword against the stored hash and, on success, replaces it" |
| `SessionsClaims`, `AuthenticatedIsFound` | The update looks up the exact spelling (`account.go:323`): who authenticates in mixed case is told the account does not exist | `account.go:122-123`: lets the caller "find their record instead of silently 404ing" |
| `SessionsClaims`, `DisabledCannotAuthenticate` | `ResolveSessionToken` does not look at the account (`tokens.go:97`) | `account.go:340-342`: "A disabled account cannot authenticate" |
| `OverviewClaims`, `RemovalEndsRelation` | Two accounts may be declared under each other; a removal takes the first orientation it finds (`subs.go:117`) | `subs.go:100`: "deletes the unique edge between caller and other" |
| `OverviewClaims`, `CapHolds` | The count is read two transactions before the edge is written (`handlers_subs.go:341`): with a declaration or a second registration in between the limit is exceeded | `handlers_subs.go:340`: "cap the number of subordinates one account may provision" |
| `OverviewClaims`, `OverviewVisible` | The overview counts bodies by the addresses they name (`mgmt.go:193`): mail to an address that nobody had yet is counted for the account that registers later, whose inbox does not have it | `mgmt.go:13-14`: "All aggregates derive from subordinate read-only visible data" |
| `OverviewClaims`, `ContactsCombined` | Mail between two core accounts is counted at its sender alone (`mgmt.go:204`), so a subordinate that only receives from its superior has no contact | `mgmt.go:37`: "in+out combined" |
| `OverviewClaims`, `AllInboxDelivered` | The folder is all mail with a non-empty To (`message.go:212`), delivered or not | `message.go:173-174`: "delivered to at least one existing recipient" |
| `PortalClaims`, `SwitchFinal` | The switch is read before the save, in another transaction (`handlers_api.go:516`), and an omitted visibility is saved as it was read: an account may come to be listed after the switch went off | `handlers_admin.go:729`: "no new false→true transitions are allowed" |
| `PortalClaims`, `OmittedKept` | Omitted fields are read in one transaction and saved in another (`handlers_api.go:500`, `522`): a save of the signature undoes a change of the visibility in between | `handlers_api.go:474`: "nil = keep current (omitting must NOT reset)" |
| `PortalClaims`, `RegistrationAllowed` | `handleRegisterTeam` (`handlers_api.go:865`), which needs no account, reads no switch: an owner and its members come into being with registration off | `store.go:235-236`: "whether public account registration is allowed" |
| `ThreadsClaims`, `RecipientsCovered` | Only To is compared with the peer (`message.go:298`): a mail sent to the peer as a copy is missing | `message.go:270-271`: "whose recipients include the peer" |
| `ThreadsClaims`, `WholeIndexesRead` | Of each box the newest `limit + offset + 200` mails are read, of all peers (`message.go:281`, `286`): mail of the peer below them is missing from a page that is not full | `message.go:272`: "Full index scan per side" |

## 8. Abstractions

What the modules leave out of the code that they do model, and why that is sound
for their properties:

- A handler that is not about limits or the audit log is modelled without its
  rate check and its audit entry. A request that is refused is one that is not
  made, which every model allows; an audit error is ignored by the code.
- `Threads`: the subordinates are the same from the beginning to the end of a read;
  ids are in commit order, and the second of each message is a parameter (`Second`) that
  need not grow with them. The index of a box and the bodies of its mails are read in
  two transactions of the code and one step here, since bodies never change. A mail has
  one recipient under To.
- `Subordinates`: `ShouldAuditSubRead` is left out.
- `Registry`: profile and preferences are in `Portal`; display names are left out;
  `SetListen` of the bootstrap writes a value that nothing reads in the model.
- `Sessions`: bcrypt and the hash of a token are equality.
- `RateLimits`: a request is one action, since each of its checks takes its lock once
  and what the lock protects does not change between them; the limits it compares
  with may be any that were in force since the last tick. Whether two spellings name
  one account matters to `AccountCap` alone, as it does to the code.
- `Settings`: the limits of attachments, the listen address, the defaults of the
  portal and the switches that only hide controls of the web panel are left out.
- `Portal`: addresses have one spelling (that of a team's members is in `Registry`);
  delivery works or does not; values of preferences are on or off. A request of the
  admin is one transaction, but for the limits. The edges and the limit of
  subordinates are in `Subordinates`, and the rate limits of registration in `RateLimits`.
- `Overview`: the order of the table, message lengths, the times of last mail and of
  the last read are left out; a window is a first id, since ids carry their time. The
  mail of the instance goes to one first recipient, to whom contacts are
  attributed.
- `SendEmail`: the original of a forward is fetched or the call ends; the server serves
  a request that reaches it (what it may refuse is in `Files` and `MailStore`), and
  an error status is a `GiveUp` that the server has not served.
- `Push`: the unread count and the sender's name in a push are left out. A timer
  that is due fires, and its flush takes the lock, within the minute (`Prompt`);
  this leaves out delays of the runtime of more than a minute. Arrivals of a
  quiet period are counted to `MaxCount`, beyond which they are one.
- `Gateway`: one server, one account's inbox, and one watch that goes on with the
  loop that `duty_watch_guide` prescribes, across several processes of the gateway.
  Time is counted down. An HTTP call succeeds, or fails and ends the tool call.
- `Files`: one request of the mail store at a time is enough, since
  `SendWithAttachments` is one transaction; reading mail is in `MailStore`.

## 9. What is not modelled

| Component | Status | Reason |
|---|---|---|
| HTTP server and authentication | partly | The order of token, disabled flag and password is in `Sessions`, the handlers in the modules of what they do. Routing, decoding and the shape of answers are left out |
| Admin handlers | partly | Reset, disable and the repair of keys are in `Registry`, limits and switches in `Settings`, the showcase in `Portal`, the list of all mail in `Overview`; the rest reads indexes |
| Settings | partly | `SetDomain` and `SetInitialized` are in `Registry`, limits and switches in `Settings`; the rest is one value that decides nothing on the server |
| Setup page | partly | Its transactions are in `Registry`; writing a configuration file and opening folders is local I/O |
| Commands | partly | The choice between setup and service at the start is in `Registry` |
| HTTP client of the gateway | partly | Uploads and sends are in `SendEmail`; the other methods are calls that succeed or fail |
| Information and management handlers | partly | The overview and the directory; statistics and growth curves count what the buckets hold and change nothing |
| Display names | no | One preference, for display |
| Audit log | no | Append only, errors ignored, read by nobody for a decision |
| Configuration | no | Read once, before anything runs |
| Web panel | no | Keeps nothing on the server |
| Android wrapper | no | Patches to generated code that the repository does not build |
| Build and release | no | Tooling |

## 10. Plan

The order was: the mail store, which all else rests on; the second writers of its
indexes (files, subordinates); the views computed from it (components, threads,
overviews); accounts, sessions, settings, limits, the portal; pushes and the
gateway with its sends, which live outside the store. These are written and checked,
and the safety properties of all of them are proved.

Next are proofs, in this order:

1. That the messages of `MailStore`, taken in commit order, are the `msgs` of `Threads`, so
   that what `Threads` takes of the store (parents exist, are older, and stay) is a
   consequence of `RepliesFormForest` and of the steps of the store, not a guard.
2. An abstract specification of a login (valid, expired, revoked) that `Sessions` implements,
   as `Mailbox` is one of the store.

What could still be modelled: several servers of one gateway and the fall back to
the default server; subordinates that change during a read in `Threads`; the limits of attachments while the admin changes them.
