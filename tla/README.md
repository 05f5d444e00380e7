# Charity Chest in TLA+

This directory holds TLA+ specifications of the Charity Chest services, the TLC
configurations that check them on small instances, and TLAPS proofs about them.
The modules are translations of the code under `src/services/`; where a document
and the code disagree, the modules follow the code, and section 5 lists the difference.

## 1. The system

| Component | Where | State | Operations |
|---|---|---|---|
| Organisation membership | `admin/backend/internal/handler/organization.go`, `middleware/acl.go` | `organizations`, `org_members` | add, update, remove a member; create, update, delete an organisation |
| Plans and subscriptions | `handler/billing.go` | `organizations.plan`, `.stripe_subscription_id`, `billing_cleanup_jobs`, Stripe | open a checkout, two Stripe webhooks, inline cleanup, cancel, assign enterprise |
| Password recovery | `handler/auth_password_reset.go`, `auth_mailer.go` | `password_reset_tokens`, `users.password_hash` | forgot (throttled, mail in the background), reset (one transaction) |
| Accounts and login | `handler/auth.go`, `internal_api.go` | `users` | register, login, MFA, Google find-or-create, their internal twins |
| Profile, MFA, roles | `handler/profile.go`, `system.go`, `admin.go` | `users` | read-modify-write of the whole user row |
| Cache-aside layer | `internal/cache` | Valkey keys | get, set, delete, delete by pattern around every read and write |
| Middleware | `internal/middleware` | none | JWT, service key, system role, organisation role |
| Root seeding | `cmd/seed-root` | `users` | check, then create |
| Operational backend | `operational/backend/src` | none of its own | logs users in through the admin API; runs migrations at start |
| Mobile app | `operational/app/src` | token in SecureStore, token in memory, route | hydrate, sign in, sign out, refused requests |
| Admin web frontend | `admin/frontend/src` | token in `localStorage`, the React state of each page | guards and redirects; forms and lists over the API |

**How they interact.** Echo runs each HTTP request on a goroutine of its own; all
shared state is in PostgreSQL (READ COMMITTED) and, as a copy, in Valkey. Only three
places use a transaction: `AddMember`, `UpdateMember` and `ResetPassword`. Everything else is a
sequence of autocommitted statements, so anything another request does may land
between two of them. Stripe is called by the billing handlers and calls back through
the webhook. Mail is sent from a detached goroutine. The operational backend calls the admin
backend over HTTP with a timeout; the mobile app calls the operational backend, without one. The web pages call the
admin backend; each keeps what it was answered and edits it in place. Tabs share the token.

**What is hard.** Statements of two requests in an order nobody tests; a row read,
checked, and written back later (GORM `Save` writes every column, and inserts the row
when it is gone); events from Stripe delivered again, late or in another order;
failures between two of several effects; limits checked against a plan that is
changing; replicas that start together; a client that acts on what it was told some time ago, with
answers still to come, to a page that may not be there any more. `PROJECT.json` lists these hazards one by one, at their lines, with the
properties that cover them.

**What makes each component correct.**

- Membership: the cap of the plan in force is never exceeded by an addition; one row per
  user; a deleted organisation gains nobody; removal is final; nobody waits for ever.
- Billing: the plan and the subscription column agree; no refund without a durable job;
  a job tells the truth; no paid completion is dropped; an enterprise plan is not lost; a
  pro plan is paid for; every event is acknowledged in the end.
- Password recovery: a token is used at most once, and only by a reset that changed the
  password; a reset kills the other tokens; the throttle spaces the mails.
- Accounts: a second factor is on only with a confirmed secret, and off only after a code; every account
  keeps a way in; no account becomes root or stops being root. 
- Migrations: a version row exactly for what took effect, once and in order; nobody serves an older
  schema than its own; everybody comes up.
- Mobile session: once the calls of its store that have ended are taken in, the app believes no more than the store; no outage ends a session; nothing hangs.
- Web session and pages: a tab that has come to rest agrees with its token, and it does come to rest; lists,
  buttons, banners and the second factor shown agree with the server, or the reason is known.

## 2. Modules

| Module | Models | Status |
|---|---|---|
| `Plans` | plans, limits, roles, who may assign whom | done |
| `Membership` | abstract: what membership promises, without requests, transactions or locks | done, shown to be implemented |
| `OrgMembers` | the member handlers, statement by statement | done, proved about |
| `MCOrgMembers` | small instances of `OrgMembers` | done |
| `OrgMembersProofs` | theorems about `OrgMembers` | five properties and the refinement of `Membership` proved |
| `Billing` | billing handlers, the organisation row, cleanup jobs, Stripe | done, proved about |
| `MCBilling` | small instances of `Billing` | done |
| `BillingProofs` | theorems about `Billing` | six properties proved |
| `PasswordReset` | forgot, reset, the mail goroutine, token row locks | done, proved about |
| `MCPasswordReset` | small instances of `PasswordReset` | done |
| `PasswordResetProofs` | theorems about `PasswordReset` | four properties proved |
| `Accounts` | registration, find-or-create, MFA, roles: every writer of the users table | done, proved about |
| `MCAccounts` | small instances of `Accounts` | done |
| `AccountsProofs` | theorems about `Accounts` | four properties proved |
| `Migrations` | replicas of the operational backend from start to exit, `migrate.ts` statement by statement | done, proved about |
| `MCMigrations` | small instance of `Migrations` | done |
| `MigrationsProofs` | theorems about `Migrations` | five properties proved |
| `Gateway` | the operational backend's answers, as operators | done |
| `MobileSession` | provider, screens and requests of the mobile app; uses `Gateway` | done, proved about |
| `MCMobileSession` | small instance of `MobileSession` | done |
| `MobileSessionProofs` | theorems about `MobileSession` | three properties proved |
| `WebSession` | token, guards, redirects, navigation bar, sign-in and sign-out of a browser tab | done, proved about |
| `WebSessionProofs` | theorems about `WebSession` | two properties proved |
| `OrgPage`, `OrgsPage` | the page of one organisation; the list of them | done, proved about |
| `UsersPage`, `ProfilePage` | the search and role form of root; the second factor of the user | done, proved about |
| `MCAdminPages` | small instances of the four pages, of which a tab opens one | done |
| `AdminPagesProofs` | theorems about the four pages, in `MCAdminPages` | nine properties and the types proved |

### OrgMembers

One organisation (organisations do not interact). Variables: the organisation row
(`plan`, `deleted`), the request that holds its row lock (`lock`), the table
`org_members` (`rows`, and the keys its sequence has `issued`), and per request slot the
next statement (`pc`) and what the request asked for and read (`req`).

| Action | Code |
|---|---|
| `BeginWrite` | the middleware and the checks before the transaction of `AddMember`/`UpdateMember` |
| `TakeLock` | `SELECT id, plan ... FOR UPDATE` (waits for the holder; a deleted row is not found) |
| `LookupExisting`, `LookupMember` | the duplicate check; the target's row, and the early return on an unchanged role |
| `CheckPlanLimit` | `checkPlanLimit` |
| `CreateMember`, `SaveMember` | the last statement with the COMMIT |
| `BeginRemove`, `ReadMember`, `DeleteMember` | `RemoveMember`: no transaction, no organisation lock |
| `LoadOrg`, `DeleteOrg`, `SaveOrg` | `DeleteOrg` (soft), `UpdateOrg` (`Save` of the whole row read earlier) |
| `UpdatePlan` | any billing handler's UPDATE of the plan |
| `Abort` | any failure of a statement, of the connection or of the process |

Abstractions: the middleware and the checks that precede the first statement of the
handler are one step, because what they read is only the caller's role, and the model lets a
caller with any role present at that moment begin; root and system are one caller; a
body the handler refuses before any read does not start a request; the last statement and
its COMMIT are one step, since nobody sees the row in between and whoever needs it waits.
Cache invalidation after the commit belongs to the cache component. `Save` is modelled by
what GORM does: an UPDATE by primary key and, if it matched nothing, an insert with
`ON CONFLICT (id) DO UPDATE`.

### Billing

One organisation. Variables: its `plan`, `sub` (`stripe_subscription_id`) and `deleted`
columns, the table `jobs`, Stripe's `status` and `payment` of each checkout and the `events` it has
not seen answered, and `pc`/`req` as above. A checkout session, its subscription and its payment
intent are one value.

| Action | Code |
|---|---|
| `BeginCheckout`, `CreateSession` | `CreateCheckout`: the plan check, the call to Stripe |
| `ReceiveCompleted`, `UpgradeToPro` | the lookup by organisation UUID; the UPDATE to pro |
| `PersistJob`, `CleanupCancel`, `CleanupRefund`, `RecordCleanup` | the enterprise branch and `attemptEnterpriseCleanup` |
| `ReceiveDeleted`, `Downgrade` | the lookup by subscription; the UPDATE to free |
| `BeginCancel`, `CancelSubscription` | `CancelSubscription`: Stripe only |
| `BeginEnterprise`, `CancelFirst`, `Promote` | `AssignEnterprisePlan` |
| `LoadOrg`, `SaveOrg`, `DeleteOrg` | the other writers of the row |
| `Pay`, `EndSubscription` | Stripe and its customer (external) |
| `Abort` | a failed statement or call, or a crash; the event stays with Stripe |

A call to Stripe succeeds, fails, or is done with its answer lost. Stripe refuses to cancel
what has ended and to refund twice. An event is taken off `events` only by an answer that
arrives, so it can be delivered again after it was handled, while it is being handled, and in any order.
Not modelled: signature checks, `stripe_customer_id`, `attempt_count` and `last_error`
(nothing reads them), and the configuration without Stripe keys (every call answers 503).

### PasswordReset

One account (accounts share no tokens). Variables: the clock `now`; the table
`password_reset_tokens` as the tokens `stored`, their creation instants `at` and those
committed as `used`; `version`, which counts the committed changes of `users.password_hash`; the mails
`pending` in goroutines and those in the user's `inbox`; and `pc`/`req`, where `req[r].holds` is
the set of token rows the transaction of `r` has written and therefore locked.

| Action | Code |
|---|---|
| `ForgotPassword` | the throttle's COUNT; a failing COUNT is logged and the request goes on |
| `IssueToken` | the INSERT of the token, and the start of the mail's goroutine |
| `DispatchEmail` | the goroutine: sent, or refused and logged |
| `BeginReset`, `ClaimToken` | `ResetPassword` up to its compare-and-set UPDATE of the token |
| `InvalidateOthers`, `VisitToken` | the UPDATE of the user's other tokens: the rows it sees when it starts, then each row as it gets its lock |
| `SetPassword` | bcrypt, the UPDATE of the user, the COMMIT |
| `Abort`, `DetectDeadlock`, `Crash` | a rollback after a failure, one forced by PostgreSQL, the end of the process |
| `Tick` | time |

Row locks and deadlock detection are PostgreSQL's, hence external. An UPDATE that waited for a
row looks at it again afterwards (READ COMMITTED), so a token used meanwhile is passed over.
Left out: requests about unknown addresses or with malformed bodies, which change nothing.
The constant `CountMayFail` says whether the throttle's COUNT can fail. The passing run lets it; the
counterexamples do not need it.

### Accounts

The users table: `known` addresses and the row `users[e]` of each (whether there is a password, the
Google identity, the TOTP secret, whether MFA is on, the system role); `proven`, a history variable with the
secrets that a valid code was seen for; and `pc`/`req`, where `req[r].row` is the row the request
has in memory.

| Action | Code |
|---|---|
| `Register`, `SeedRoot`, `InsertUser` | `Register` and `cmd/seed-root`: the lookup, then the INSERT, which fails on either UNIQUE column |
| `FindByGoogle`, `FindByEmail` | `findOrCreateGoogleUser`, behind the browser's callback and the operational backend's call: link, or insert |
| `SetupMFA`, `EnableMFA`, `DisableMFA` | the handlers of `profile.go` up to their `Save` |
| `SaveUser` | `Save`: every column as it is in memory |
| `ReadRole`, `AssignRole` | `AssignSystemRole`: the check of the role that was read, the UPDATE of one column |
| `ResetPassword` | the UPDATE of `password_hash` (its transaction is in `PasswordReset`) |
| `Abort` | a failed statement, or the end of the process |

A sign-in that finds its identity linked, `Login`, `VerifyMFA` and the internal login change nothing
and are left out, as are the tokens they sign. The address that comes with a Google identity is any
address: it is what Google says today. A lookup that fails makes `Register` and `seed-root` go on as if nobody had
been found (`LookupMayFail`). A new secret is random, hence none of those confirmed before.

### Migrations

One database, any number of replicas. Variables: whether the `table` schema_migrations is there, its `rows`, how
often each file had its `effects`, the advisory `lock`; and per replica the number of files in its `image`, what
`loadConfig` finds in its `env`, its next step (`phase`), what its CREATE TABLE `saw`, the files `todo`, and
whether a request is `open`. Releases differ in how many files they carry, later ones more.

| Action | Code |
|---|---|
| `Start`, `Connect` | `main.ts` up to `runMigrations`: configuration, listing of the directory, the client |
| `ReadCatalog`, `CreateTable`, `CreateTableLoses` | CREATE TABLE IF NOT EXISTS: the look-up, then the creation, which fails when another replica was faster |
| `TakeLock` | `pg_advisory_lock` |
| `CheckVersion`, `RunFile`, `InsertVersion`, `Commit` | the loop: skip, or BEGIN, file, version row, COMMIT |
| `Unlock`, `Abandon` | the `finally`, after success or after an error |
| `Listen`, `Request`, `Answer`, `Signal`, `Drained`, `Exit`, `ForceExit` | serving; `shutdown` with its deadline |
| `Fail`, `Crash`, `DropSession` | a refused statement; a killed process, whose session keeps the lock until the server notices, and whose COMMIT may have been applied |

### MobileSession and Gateway

`Gateway` says what the operational backend sends for each answer of the admin backend, or for none in
time: it keeps no state. `MobileSession` has the token in the `store` and in memory, the queue `native` of
SecureStore calls not finished, the queue `done` of those that have ended but that the code behind their `await` has not
taken in, `hydration`, the `screen`, the login form (`submitting`, `prompting`, `logins` in flight),
the tokens of `GET /me` requests in flight (`mes`), what the gateway has `issued` and what has `expired`.

| Action | Code |
|---|---|
| `Index`, `AppLayout` | the two redirects at the start |
| `OnSubmit`, `Prompt`, `OnGoogleResult` | the login screen; a button is inert while disabled or loading |
| `LoginAnswered`, `LoginRefused` | the answer to either sign-in, also after its screen is gone |
| `Logout`, `MeAnswered` | the button; the answer to `me`, where a 401 signs out |
| `NativeDone` | SecureStore carries out its first call, or fails it: the store changes, memory does not |
| `Continue` | the code behind the `await` of a call that has ended: of `hydrate` (`Hydrated`), `me` (`ReadForMe`), `signIn` (`TokenSet`), `signOut` (`TokenCleared`) |
| `Expire`, `Restart` | time; the system kills the app, with the call under way done or not |

Between the two steps of a call other calls may end, screens change and answers arrive. SecureStore carries out
its calls one after the other, and what awaits them runs in the order they ended.

### The admin web app

`WebSession` is one tab. Variables: the token `stored`; at the server what is `issued` and `expired` and whether
the system is `configured`; the page shown (`route`) and the one the router is going to (`goto`); what
the navigation bar, the home page and the dashboard show of the user; the requests in flight. `Navigate`
shows a page and runs its effects (`NavbarEffect`, `PageEffect`, the system guard's request); `StatusAnswered`, `MeAnswered`,
`HandleCredentials`, `HandleMFA` and `HandleRegister` are the answers; `Follow`, the forms and the logouts
are the user; `OtherTab` and `Outside` the rest. An order to the router that comes while it is under way
replaces the earlier one (`overtaken` remembers).

The four pages that change something are modules of their own. The server carries out a request in one
step (the modules above open it up) and the page takes the answer in another, in any
order; any answer may be lost. No `fetch` of the pages has a timeout or is aborted, and the handlers' database calls do
not take the request's context, so that the server may carry out a request long after its `fetch` has
rejected or its page was left. To the page such a request is one of somebody else, and it can be left and opened again (`Leave`, `Open`)
with requests of the last visit still to be carried out.

- `OrgPage`: `rows`, `shownPlan`, `myOrgRole`, the open editor (`changing`), the disabled buttons (`busy`),
  the requests `calls`. Each control and each handler of the page is an action; `Serve` is the server, `Foreign`
  somebody else, or a request given up. `disturbed` remembers whom others, overlapping requests or lost answers concerned.
- `OrgsPage`: the initial list (`ServeList`, `Load`), creations and deletions; `Foreign` and `disturbed` as before.
- `UsersPage`: the search with its pages (`Type`, `SearchForm`, `Pagination`, `HandleSearch`) and the role form
  (`SelectRow`, `AssignForm`, `ServeAssign`, `HandleAssign`). `Elsewhere` writes a role behind the page's back; `since` remembers
  whose, after the last assignment the page waited for.
- `ProfilePage`: the three views of the second factor, its requests and the second request for the user
  that follows enabling and disabling. `Elsewhere` writes the whole row of the user, with any secret, as a `SetupMFA` given up would,
  one that was read before a request of the page included. `overwritten` remembers that it did since the last setup
  of the page, `lost` that it did, or that an answer was lost, since the page was last told of the status.

They share the token only, so `MCAdminPages` opens one of them and lets the others stand still. Their forms
check what the user typed before they send; what is displayed is left out.

## 3. Runs

| Run | Instance | Shows |
|---|---|---|
| `members` | 2 requests, 2 users, 3 row keys | `OneRowPerUser`, `CapRespected`, `DeletedOrgGainsNobody`, and that `OrgMembers` implements `Membership` (`KeepsPromise`) |
| `members_live` | 2 requests, 1 user, 2 row keys | `EveryRequestAnswered` |
| `billing` | 2 checkouts, 2 requests, 2 jobs | `PlanMatchesSub`, `RefundsHaveJobs`, `JobMarksAreTrue`, `PromotionAfterCancel`, `CompletionsAreAccounted` |
| `billing_live` | 1 checkout, 2 requests, 2 jobs | `EventsAreAcknowledged` |
| `billing_enterprise` | as `billing` with 1 job | counterexample to `EnterpriseIsKept` |
| `reset` | 2 tokens, 2 requests, 5 instants, tokens live 3, window 2 | `ResetIsAtomic`, `ResetKillsOlderTokens`, `ResetsAreAnswered` |
| `accounts` | 2 addresses, 1 Google identity, 2 secrets, 2 requests | `SecondFactorIsProven`, `AccountsCanLogIn`, `RootIsFixed` |
| `accounts_disable` | as `accounts`, lookups do not fail | counterexample to `DisablingNeedsCode` |
| `migrations` | 2 replicas, 2 files, 2 failures, any releases and environments | `OneRunner`, `RowsTellTheTruth`, `AppliedInOrder`, `ServesMigrated`, `ClosesAfterLastAnswer`, `EveryReplicaServes` |
| `mobile` | 2 tokens, 2 sign-ins in flight, 1 failing call, 1 restart, queue of 2 | `TypeOK`, `MemoryIsPersisted`, `OutageKeepsSession`, `HolderGoesHome`, `SplashEnds`, `SubmittingEnds` |
| `admin_pages` | 2 users, 2 requests in flight, 3 moves; 3 texts of 2, 1 and 0 pages; 3 secrets; 3 organisations | `RowsAgree`, `OfferedIsAllowed`, `PlanAgrees`, `ButtonsComeBack`; `PageIsOfTable`, `BannerIsTrue`; `ShownSecretIsCurrent`, `StatusIsTrue`; `ListAgrees` |
| `web_session` | 2 tokens, one of them root's, 2 status requests in flight, 3 acts | `TabAgrees`, `ComesToRest` |

`ReadPlanIsCurrent`, `LinksAreStored` and the type invariants but that of `mobile` are proved (section 4) and not run again.

**Bounds.** Two requests are enough for every race named above: each is between one
request's read and another's write. Two users reach the limits of the free plan (one owner, no
admin) and of the pro plan's single owner; three row keys allow a removal, a
resurrection and an insertion in one behaviour. Two checkouts allow one
subscription to replace another; two job keys allow an event delivered again to create a second
job. In `reset`, two tokens and two requests give the deadlock of two resets
that hold each other's token, the double redemption and the late token; five instants let a token
expire and the throttle's window pass. In `accounts`, two addresses let one identity
meet a UNIQUE column held by another account, and two secrets let one setup overtake another's
confirmation. `Emails`, `Secrets`, `RowIds`, `JobIds`, `Subs`, `Tokens` and `MaxTime` are the
only bounds of these: an insert with no key left fails as it would with an exhausted sequence, Stripe refuses one
session too many, no token is issued beyond the last, and the clock stops.

In `migrations`, two replicas race for the table and the lock, two files have an order and leave room for two
releases, and two failures let a replica fail again while the other recovers. In `mobile`, two tokens
let one session replace another with a request of the first in flight, two sign-ins overlap (password
and Google), and `MaxNative` lets a second sign-out be asked for while one is under way or has not been taken in. In `admin_pages`, two
requests overlap about one member or two, the moves include one of somebody else, and three organisations
let one be created and another deleted while the first list is on its way; three secrets leave room for one that is
stored behind the page's back between two setups. In `web_session` a token
can replace another, whose request is still in flight; three acts are a sign-in, a sign-out and a
link, or another tab's write between.

**Deadlock** is not checked where the system may stop: a deleted organisation refuses
every request, replicas exit, an app or a page waits for its user, whose acts are bounded. It is checked in `reset`
and `accounts`, where it says little: the process can always crash, and a request can always begin. That nobody waits for ever is what
`EveryRequestAnswered`, `ResetsAreAnswered`, `EveryReplicaServes`, `SplashEnds`, `SubmittingEnds` and `ComesToRest` say.

**Fairness.** `OrgMembers`: a started request runs on (weak fairness of its statements);
PostgreSQL queues the waiters of a row, so a statement that finds the row free again
and again gets it (strong fairness of the locking statements). `Billing`: Stripe delivers an event
again until it is answered 2xx, and the database, the answer's way back and the process do
not fail every single time (strong fairness of deliveries, of answers and of
persisting a job); a running request goes on. `PasswordReset`: a running request goes on, a waiter for a token row gets it
in its turn (strong fairness), and PostgreSQL's deadlock check comes round. `Migrations`: a replica runs on, one
that exited is started again (`docker-compose.yml`), and the server drops the sessions of dead clients; failures are
bounded. `MobileSession`: SecureStore ends its calls, the code behind an `await` runs, React renders, and sign-in requests end. The
last is an assumption about the platform and the gateway: the gateway gives up on the admin backend (`fetchWithTimeout`), but the app's own
`fetch` has no timeout, so a network that never lets it end would leave the login screen busy.
`WebSession`: the router arrives and requests end; what users do is bounded, so that `ComesToRest` speaks of
a tab that is left alone. Nobody is obliged to send a
request, pay, cancel, sign in or press anything, and time need not pass.

## 4. Proofs

`OrgMembersProofs` proves, for any sets of users, row keys and request slots:

- `TypeCorrect`, `PlanReadIsCurrent`, `UsersHaveOneRow`: `Spec => []TypeOK`, `[]ReadPlanIsCurrent`,
  `[]OneRowPerUser`;
- `CapHolds`: `Spec => CapRespected`; `DeletedGainsNobody`: `Spec => DeletedOrgGainsNobody`;
- `HandlersKeepPromise`: `Spec => KeepsPromise`, that is, `OrgMembers` implements `Membership`.

The argument rests on one inductive invariant, `IInv == Typing /\ Locking /\ Room`. `Typing` adds to
`TypeOK` what a request knows at each statement. `Locking` says that a request inside its
transaction holds the row, that the organisation is there and that the plan it read is the plan,
since the SELECT ... FOR UPDATE takes the row and every writer of the row waits for it; and, which the
safety properties do not say, that the member row an `UpdateMember` read is the only one its user or its
key can have until it commits, and that an `AddMember` past its duplicate check still finds
no row. `Room` says that the limit a transaction checked still has room when it
writes. Only the holder adds a member or changes a role, and RemoveMember, which
takes no lock, only shrinks counts; a row that `Save` brings back belongs to the holder. `CapRespected` and `DeletedOrgGainsNobody` follow from `IInv` step by step. For the
refinement, the role that `Membership` gives a user is the role in the user's row (`RoleOf`), which `OneRowPerUser`
makes unique. An insert and a changed role, also in a row that `Save` brings back, are a `Gain`, with the room that
`Room` kept for it; a deletion is a `Leave`; a write of the organisation is an `OrgRowChange`; every other statement, failures
and rollbacks included, is a stutter. The
assumption is `NullsAreFresh`: the values that stand for "none" are no requests, no
keys and no roles; every run evaluates it.

`BillingProofs` proves, for any sets of subscriptions, job keys and request slots: `TypeCorrect`
(`[]TypeOK`), `PlanAgrees` (`[]PlanMatchesSub`), `RefundsRecorded` (`[]RefundsHaveJobs`), `MarksTrue`
(`[]JobMarksAreTrue`), `PromotedAfterCancel` (`[]PromotionAfterCancel`) and `CompletionsAccounted`
(`CompletionsAreAccounted`). No handler locks anything, so the inductive invariant
`IInv == TypeOK /\ Ledger /\ \A r : Knows(pc[r], req[r])` cannot say that what a request read is
still so. It says what is never undone (`Kept`): an ended subscription stays ended, a refund stays made,
a job stays in its table with its subscription. `Knows` lists which of these a request counts on at each step: the
cleanup has its job, a mark it will write is true at Stripe, a promotion follows the end of the
subscription it read, and the row `UpdateOrg` will write back agrees with itself. `Ledger` relates the
row, the jobs and Stripe, and adds two facts the properties do not state: a job key names one
subscription, so that marks land on the job they are about, and no payment is taken before checkout.
The assumption is `NullsAreFresh`.

`PasswordResetProofs` proves, for any tokens, requests, lifetimes and windows: `TypeCorrect`
(`[]TypeOK`), `LinksStored` (`[]LinksAreStored`), `AtomicReset` (`ResetIsAtomic`) and `OlderTokensDie`
(`ResetKillsOlderTokens`). Its invariant adds to `TypeOK` and `LinksAreStored` what a transaction
knows at each statement (`Knows`: it holds its own token; what it holds is stored and unused; past the
start of the second UPDATE, every token known at the claim is used, held or still to be visited) and that no
row is locked twice (`Exclusive`). The assumption is `TimesAreNatural`.

`AccountsProofs` proves, for any addresses, identities, secrets and requests: `TypeCorrect`
(`[]TypeOK`), `FactorProven` (`[]SecondFactorIsProven`), `LoginKept` (`[]AccountsCanLogIn`) and
`RootFixed` (`RootIsFixed`). A row in memory can be out of date, so the invariant asks of it, as of
the rows in the table, only what cannot go out of date (`Sound`: its secret is confirmed if its MFA is on,
and it has a way in; and it says of root what the account says). Each handler keeps the row it read sound, and
writing back a whole sound row leaves a sound row; writing only its changed columns would not, as the
mutant of `SaveUser` shows. The assumption is `NullsAreFresh`.

`MigrationsProofs` proves, for any replicas, files and failures: `TypeCorrect` (`[]TypeOK`), `OneRunnerAtATime`
(`[]OneRunner`), `RowsAreTrue` (`[]RowsTellTheTruth`), `InOrder` (`[]AppliedInOrder`), `SchemaServed`
(`[]ServesMigrated`) and `DrainedFirst` (`[]ClosesAfterLastAnswer`). Whoever is in the loop holds the advisory
lock (`Good`), so nobody else adds a row under its feet; a file of its image is still to do or in the
table; and rows are never removed, which is all a replica that has left the loop relies on. The
assumptions are `HoldersAreFresh` and `FilesAreCounted`.

`MobileSessionProofs` proves, for any tokens, sign-ins, failures and restarts: `TypeCorrect` (`[]TypeOK`),
`MemoryPersisted` (`[]MemoryIsPersisted`), `OutagesKeepSession` (`OutageKeepsSession`) and `HoldersGoHome`
(`HolderGoesHome`). The argument for the third is about the queue of SecureStore: while nobody has asked to leave
and no token has expired (`Quiet`), it holds no call that clears the token, because only a 401 could ask for one; `Me` sends
none for a token that verifies (`OutageIsNo401`), whatever the admin backend does, and a request without a token
would need an earlier clearing (`Undisturbed`). For the second: memory is what the calls that have ended will make of it
when they are taken in. `Settles` says of the queue `done` that its last call to set or clear agrees with the
store, and that with none in it memory does already; a call that ends goes to the back of the queue and a continuation takes the front,
which keeps it. For the fourth: while the app opens, its first call is all
there is (`Opening`). The assumptions are `NullIsFresh` and `BoundsAreNatural`.

`AdminPagesProofs` proves of the four pages, for any users, texts, secrets, organisations and number of requests in
flight: `PagesTyped` (the four type invariants) and one theorem for each invariant of the run `admin_pages`. Each page has an invariant of its
own, and a step of the whole is a step of one page (`StepIsOfAPage`).

- `OrgPage`: `RowsTrue` (`[]RowsAgree`), `OffersAllowed` (`[]OfferedIsAllowed`), `PlanTrue` (`[]PlanAgrees`) and
  `ButtonsReleased` (`[]ButtonsComeBack`). A member whom nobody else's move, overlapping request or lost answer disturbed has
  one request in flight at most (`OneRequestEach`), so that his row is right or the answer that will put it right
  is on its way (`RowFollows`); the same goes for the plan (`PlanFollows`). That the server allows what was offered
  depends in turn on the rows, since the role in the row removed is the role the server looks at (`RowTouched`), and on the rank
  the page was loaded with (`MyRank`). A button waits exactly as long as its request is in flight
  (`ButtonsGuard`), but for the one that leaves for the checkout.
- `OrgsPage`: `ListTrue` (`[]ListAgrees`). Whatever changes before the first list has arrived crosses it (`Crossing`); of
  every other organisation the row is right or its answer is on its way (`OrgRowFollows`).
- `UsersPage`: `PageOfTable` (`[]PageIsOfTable`) and `BannerTrue` (`[]BannerIsTrue`): the server can contradict a banner of itself only
  while an assignment is in flight, and then there is no banner (`Bare`); whoever else writes a role is remembered in `since`.
- `ProfilePage`: `SecretCurrent` (`[]ShownSecretIsCurrent`) and `StatusTrue` (`[]StatusIsTrue`): every form is inert while
  loading, so one request is in flight at most (`OneAtATime`) although Cancel changes the form under it, and its kind
  says what a late answer finds (`Fits`), unless the row was `overwritten`; the status shown is so, or the request that will correct it is on its
  way (`StatusFollows`).

The assumption is `PageConstants`: the user of the page is a user, and the value that names the organisation among
the members, and the one for "no role", are fresh. The bounds (`MaxMoves`, the set `Slots`) restrict what happens and are
used nowhere.

`WebSessionProofs` proves, for any tokens and any number of acts: `TypeCorrect` (`[]TypeOK`) and `TabTrue` (`[]TabAgrees`).
`TabAgrees` is not inductive: the navigation bar reads the token only when another page appears, and a redirect to the page
already shown refreshes nothing. `Settled` says why this does no harm: where a redirect leads that follows a write of the token, the bar
is right already, because on the login page it shows nobody and on the dashboard somebody, whatever the token.
The user the dashboard shows is gone with the page (`UserHere`). The
assumptions are `TokensAssumption` and `BoundAssumption`.

**Model-checked only.** Liveness (`EveryRequestAnswered`, `EventsAreAcknowledged`, `ResetsAreAnswered`, `EveryReplicaServes`,
`SplashEnds`, `SubmittingEnds`, `ComesToRest`), which is out of the prover's reach, as ENABLED is. Every
other property that a passing run checks is a theorem.

## 5. Where code and documents disagree

Two of these are runs. For the others the formula is beside the properties of its module; TLC refutes it
when it is given as the INVARIANT or PROPERTY of that module's run (with `CountMayFail = FALSE` for `PasswordReset`, and
through a definition such as `NewRowsAreNamed == Org!NewRowsAreNamed` in `MCAdminPages` for the pages).

1. A removed member comes back when `UpdateMember` saves the row it read before the removal
   (`organization.go:335`), although "membership removal is final" (`RemovalIsFinal` in `OrgMembers`).
2. `billing_enterprise`: an enterprise plan assigned while a completed checkout is being handled is
   overwritten with pro (`billing.go:250`).
3. A subscription that ends while its completion is being handled leaves the organisation on pro for good
   (`billing.go:267`; `ProIsPaidFor` in `Billing`).
4. A token issued after a reset has invalidated the others and before it commits is still usable
   afterwards (`auth_password_reset.go:196`), although "every other outstanding token" is said to be
   invalidated (`NoTokenSurvivesReset` in `PasswordReset`).
5. Two simultaneous requests both find no recent token and both mail one (`auth_password_reset.go:107`),
   although the window is "the minimum time between two outbound emails" (`MailsAreSpaced` in `PasswordReset`).
6. `accounts_disable`: MFA that was just switched on is off again when an earlier `SetupMFA` writes
   its row back (`profile.go:73`), although deactivation "requires current TOTP code". The same Save
   undoes a password reset, a Google link or a role that came in between.
7. The comment at `billing.go:362` calls the cancellation before an enterprise promotion
   best-effort; the code and the backend's README make it a condition.
8. When the stored token cannot be deleted, the next start of the mobile app signs the user in again
   (`auth.tsx:52`), although "a storage failure must never strand the user in a logged-in state"
   (`SignedOutStays` in `MobileSession`).
9. A member just added stands in the list without name and buttons, because `AddMember` does not load the user it
   answers with (`orgs/[orgUUID]/page.tsx:126`); the page's test answers with one (`NewRowsAreNamed` in `OrgPage`).
10. A new text is searched for on the page shown last (`admin/users/page.tsx:45`): "No users found." may stand over
    users that match (`EmptyMeansNobody` in `UsersPage`).
11. The list of organisations, when it arrives, replaces what was created meanwhile (`orgs/page.tsx:35`), which
    the comment at lines 43-45 wants to avoid (`ListAgrees` in `OrgsPage` excuses these).

Four things no document speaks of came up as well. An `AssignSystemRole` or `SetupMFA` whose `fetch` has rejected can be carried
out after the next one was answered (`admin/users/page.tsx:81-89`, `profile/page.tsx:52-56`): the banner, or the QR code, then shows what is no longer
stored. `BannerIsTrue` and `ShownSecretIsCurrent` excuse just that. In both apps the 401 of an old token ends the session that
has replaced it. A sign-in whose answer arrives when the user has gone on to the dashboard leaves the role of the previous token in the
navigation bar, and a redirect that overtakes another can leave the bar as it was: it reads the token
when the path changes, and only then. `TabAgrees` is worded accordingly.

## 6. Not modelled

- **Cache-aside layer.** A reader can store what it read before a write, an invalidation can fail and is only
  logged, and SCAN can miss a key stored meanwhile. The code accepts all three and promises no more than the TTL, so
  there is nothing to hold it to; the handlers' reads and writes of the cache are left out of their modules.
- **JWT and service-key middleware.** Parses, looks up, passes or refuses, and keeps nothing.
- **Web pages.** The two password pages are a form each over `PasswordReset`; the form that opens an
  organisation by its id and the language switch keep nothing.
- **The rest.** Rendering, message catalogues, mail templates, configuration parsing and wiring have no state
  that changes after start; password hashing, TOTP and JWT signatures are taken as working.
