# Verification of the aliang portal

TLA+ specifications of the portal in this repository (a Go backend in
`backend/`, a Next.js front end in `frontend/`), the TLC configurations that
check them on small instances, and proofs that the TLA+ proof system checks for
every value of the constants.  Paths below are relative to `backend/internal/`
unless they say otherwise.

## 1. The system

The portal sells access to an upstream AI gateway ("sub2api").  It keeps users,
sessions, payments and content in a SQL database (SQLite in development,
PostgreSQL in production, several instances of the process side by side) and
calls the upstream over HTTP for everything a customer actually consumes.

| Component | State | Operations | Talks to |
|---|---|---|---|
| Fulfillment jobs (`fulfillment/`) | `als_fulfillment_jobs`, `als_fulfillment_events` | create-or-load by idempotency key, transition, apply a result, list due, claim | every executor below |
| Payment execution (`httpapi/routes.go`) | none of its own | webhook, admin post, checkout-status poll, admin replay, retry worker; recharge, key and package steps | fulfillment jobs, upstream, payment records |
| Token vault and refresh arbiter (`sub2apiauth/`, `httpapi/routes.go`) | `als_sub2api_auth_tokens` (credential, rotation state, version), a lock per user | begin, complete, reset, mark uncertain, clear, capture at login | upstream token endpoint, sessions |
| Sessions and users (`user/`, `auth/`) | `als_users`, `als_sessions`, one-time codes | register, log in, mint, extend, revoke, reset password | mail, vault |
| Scan login (`scanlogin/`) | `als_scan_codes` | init, scan, confirm, deny, poll, clean up | sessions |
| Registration gate (`httpapi/register_guard.go`, `guard/`, `user/register_email_code.go`) | in-memory counters and challenges, `als_register_email_codes` | issue a code, check a registration | mail, Turnstile, upstream |
| Wallet (`user/service.go`) | wallets, cards, transactions | redeem a card | - |
| Package grants (`httpapi/routes.go`, `proxy/passthrough.go`, `sub2api/`) | local subscriptions; upstream balance, subscriptions, groups and keys | credit, allow a group, assign or extend, make sure of a key; find, replace and lengthen the local row | upstream, fulfillment jobs |
| AI gateway (`httpapi/routes.go`) | usage rows | quota check, forward, record | upstream |
| Content (`article/`, `doc/`, `download/`, `configcenter/`, `servicedirection/`) | one table each | create, update, publish, set default, sync | - |
| Account deletion (`httpapi/account_delete_handlers.go`) | - | upstream delete, local purge, mirror purge | upstream, phone server |
| Plumbing (`db/`, `config/`, `proxy/`, `cache/`, `mailer/`, `stripe/`) | - | SQL dialects, HTTP clients, read-through cache | - |
| Users and distributors (`httpapi/routes.go`, two pages) | roles, bindings of users to distributors | create, bind, change a role, assign a package by hand | users, fulfillment jobs |
| Route handlers (`frontend/app/api/`) | the remembered configuration file | some hundred handlers that copy a call of the browser to the backend and its answer back | the backend |
| Pages (`frontend/app/`) | browser state only: lists, forms, dialogs, locks, requests under way | register, buy and wait, keys, dashboard, admin editors, consoles | the route handlers |

What is hard about it: several executors drive one payment (a redelivered
notice, workers of several instances, polls, replays) with state read in one
transaction and written in another; upstream credentials are single use, so a
lost answer, a crash between two steps or two refreshes at once can burn a
customer's login; one-time codes are read, compared and deleted in separate
statements; upstream calls may take effect although the answer is lost.  The
pages send several requests at once, their answers come in any order, and each
of them writes the same list, form, dialog or lock.

What makes each component correct:

* fulfillment: a paid job settles, once; nothing is called fulfilled that was
  not granted; the retry budget and the backoff bound the load on the upstream;
* arbiter: the upstream never sees a refresh token twice, a burnt credential is
  never presented as good, and every failure leads to a fresh login;
* scan login: a device only ever gets a session of the user who scanned and
  confirmed that very code, within its lifetime;
* package grants: a payment is credited once however often it is executed, and
  what is recorded as fulfilled has been granted and can be used;
* registration: an attempt charged to an address has paid for every check with
  artifacts of its own, and a failed attempt does not burn what it need not;
* users: somebody is left to administer; a distributor deals with users of his;
* route handlers: what a page is told is what the backend did, and the backend
  does what the page asked;
* pages: what is shown belongs to what was chosen, a lock is held for a request
  that is under way, a save discards no draft but its own, a secret is seen as long
  as the session lasts, and waiting ends;
* wallet, quota, content: no lost update, no double spend, one default.

## 2. What is modelled

Each module models whole handlers: an action is what the code does between two
points where another goroutine, request or process can intervene (an SQL
statement, an upstream call, a lock).  Data is reduced to what the properties
tell apart: a token is a number or the name of the request that minted it, an
expiry is "fresh" or not, a message has no text.

| Module | Models | Theorems in |
|---|---|---|
| `PaymentPromise` | what a paying customer may rely on | - |
| `Fulfillment` | `fulfillment/service.go`, `fulfillment/worker.go`, the executors in `httpapi/routes.go` | `FulfillmentProofs` |
| `PackageGrant` | `executePackagePurchaseFulfillment` and the client calls under it | `PackageGrantProofs` |
| `RefreshArbiter` | the refresh lock, the vault, rotation, login capture, logout | `RefreshArbiterProofs` |
| `SignInPromise` | what signing in by QR code promises | - |
| `ScanLogin` | `scanlogin/service.go` and `ScanLoginPanel.tsx` | `ScanLoginProofs` |
| `PortalRoutes` | the handlers under `frontend/app/api/`, one record each | `PortalProofs` |
| `BackendSurface` | `RegisterRoutes`: the endpoints and which of them ask for a session | `PortalProofs` |
| `PortalProxy` | one call from the browser through a handler to the backend and back | `PortalProofs` |
| `AdminEditors` | seven admin pages: articles, doc categories, doc pages, packages, downloads, software configurations, service directions | `PortalProofs` |
| `RegisterFlow` | the registration page and `httpapi/register_guard.go` | `RegisterFlowProofs` |
| `CheckoutStatus` | `checkout/status/page.tsx`, its endpoint, the webhook, and who else executes the job | `PortalProofs` |
| `KeysPage` | `keys/page.tsx` and the keys behind it | `PortalProofs` |
| `Dashboard` | the dashboard, `use-dashboard-data.ts`, `use-purchase-actions.ts` | `PortalProofs` |
| `UserDesk` | the admin page of the users, the distributor's console, their backend handlers | `UserDeskProofs` |
| `Portal` | composes the pages: one of them is open | `PortalProofs` |
| `MC*` | instances for TLC: who exists, which requests arrive, symmetry; `MCProgress` composes `Portal` with two instances of `Fulfillment`, with `RefreshArbiter` and `ScanLogin`, under their fairness | `ProgressProofs` |

### Fulfillment and PaymentPromise

`status`, `retries` and `due` are the columns `status`, `retry_count` and
"`available_at` has passed" of a job; `granted` is what upstream has done for
it, one entry per Idempotency-Key; `batch` is what a worker listed and has not
claimed; `pc`, `at`, `step`, `count`, `outcome`, `target` are the locals of an
executing goroutine.

| Action | Code |
|---|---|
| `Deliver` | the Stripe webhook and the admin post: `CreateOrLoadJobByIdempotency`, then execute if the job is open |
| `Poll`, `Replay` | the checkout-status poll and the admin replay, which retry what they find failed |
| `List`, `Claim` | one tick of a retry worker: `ListRetryDueJobs`, then `ClaimRetryableJob` job by job |
| `Reset`, `CheckTransition` | the transition to `paid_unfulfilled` before a retry |
| `Call` | one payload step upstream, with its error class |
| `Apply`, `Record` | `applyProxyResult`: the next status and count, then `TransitionJob` |
| `Finish`, `Leave` | the notice is answered, the goroutine ends |
| `Abort`, `StoreError` | a crash or cancelled request; a failed statement |
| `BackoffElapses` | time |

`TransitionJob` reads the status and updates the row in one transaction.  With
`SerialTx` (SQLite) that is one step, without it (PostgreSQL at READ COMMITTED)
two.  `PaymentPromise` is the abstract specification: a payment is accepted
once, its products are granted, and it is delivered, when all were granted, or
abandoned; both are irrevocable.  `Fulfillment` instantiates it with
`phase <- PhaseOf(status)`, the classification `deriveCheckoutStatus` shows the
customer.

### PackageGrant

This is the inside of `Call` for a package.  `Plan(j)` lists the tasks of a
purchase in the order of the code: the credit of a top-up, each standard group,
each subscription group (which a top-up skips), each group followed by its
auto-key.  An execution goes through `Start`, `Load`, then per task a `Look`
(the GET before the write) and a write under the task's Idempotency-Key, then
the local row (`Find`, `Pick`, `End`, `Insert`, `Expiry`, `Lengthen`), then
`Apply`, which records the outcome on a job that is open or that another execution
has left for a retry, as `canTransition` allows.  `view` is what the last GET showed: the body of a group grant is that
list plus one, and whether a subscription is assigned or extended depends on it.

The upstream is external and modelled from the way it is called: a key is
carried out at most once (`Write`), a repeated key is answered from the store
(`Replayed`), or refused when its body changed; while the first request of a
key runs, and when the name of a key is taken, the answer is 409 (`Conflicts`);
a call may outlive its caller (`Outlived`, `Settle`); a write may be carried out
and its answer be lost or replaced by a 5xx (a branch of `Write`).
Subscriptions lapse (`Lapse`).  A row's `days` counts package periods, and `by`
remembers which purchases paid for them.  Three more variables remember what has
happened: `alone` (no executions overlapped, no call outlived its caller),
`answered` (no two executions of one job did, and the same of calls) and `whole`
(no process died, no statement failed).

### RefreshArbiter

One user.  `refresh`, `vstate`, `version`, `expiry` are the vault row; `holder`
is the refresh lock; `consumed` and `issued` are what upstream knows of its
refresh tokens.  A request is a token refresh, a page load that needs a fresh
upstream token (`EnsureFreshUpstreamAccessToken`), a login or an admin sync.

| Action | Code |
|---|---|
| `Arrive...`, `Acquire`, `Revalidate` | the session is read, the lock taken, the session read again |
| `LoadVault`, `Match`, `Write` | the vault is read; `refreshCredentialMatches`; the UPDATE that `CasHolds` guards, of `BeginRotation`, `CompleteRotation`, `MarkRotationUncertain` or `ResetRotation` |
| `Answer` | the upstream's answer: rotated, rejected, busy or unknown |
| `Clear`, `RevokeAll` | a rejected or unknown credential is deleted and every session ended |
| `Extend` | the local session is extended and the client answered |
| `SignIn`, `Capture`, `MintSession` | a login stores its token pair and mints a session |
| `Abort`, `WriteFails`, `ClearFails`, `LoseLock` | crashes, store errors with or without effect, a broken lock connection |
| `Age`, `EndSession` | the access token nears its end; logout, expiry |

### ScanLogin

`row` is `als_scan_codes`; `life` says whether a code's deadline and its grace
have passed; a request of an app is a scan, a confirm or a deny.  `Call` reads
the clock, the conditional UPDATEs (`Scan`, `Confirm`, `Deny`) are one step
each, and compare with the clock as it was read, so a statement may be applied
late (`SeesLate`).  A confirm looks at the row, mints a session and updates
(`Look`, `Mint`, `Confirm`); who loses the update looks again (`Repeat`).  The
panel is its timer, its call in flight and the code it shows: `Fire`,
`ServeInit`, `ServeStatus`, `HandleInit`, `HandleStatus`, `CallFails`,
`Unmount`.

`SignInPromise` is the abstract specification: a code is offered, taken by a
user, and signed or closed; a session is minted only for somebody who has taken
a code, a signed code hands over one session of its taker and no other code
hands over that one, and a browser receives it only while its page is there.
`ScanLogin` instantiates it with `phase <- PhaseOf(...)` of the row's status,
`owner <- OwnerOf(...)`, the user each confirm has minted for, and what the
panel has stored.

### Route handlers: PortalRoutes, BackendSurface, PortalProxy

A handler is a record of what tells handlers apart: verb and path, whether it
demands and forwards the token, whether it copies the body and which query
parameters, whether it passes the answer through, parses it first or answers
itself, whether it catches a failing fetch.  `Handlers` is the set of all of
them, `Registered` and `Guarded` are read off `RegisterRoutes`.

| Action | Code |
|---|---|
| `Ask`, `Retry` | the browser calls, signed in or not, with or without parameters; the button is pressed again |
| `Misconfigured`, `Incomplete`, `AnswerLocally`, `Forward` | the branches of a handler, after the configuration has been read (`Remembered`: once per process) |
| `Unknown`, `Unauthorized` | the backend's mux and its session check: no such endpoint, no token |
| `Perform`, `PerformThenFail`, `Refuse` | its handler: done; done, and then a statement or the wait for the gateway failed; refused, with 401, too, where a token, password or code is not accepted |
| `Lose` | the connection is lost before or after the deed |
| `HandBack`, `GiveUp` | the answer becomes a reply |

### AdminEditors

The seven pages are one machine with policies (what a handler marks, resets and
closes, which controls are off meanwhile), each policy a record translated from
one page.  `edForm`, `edDialog`, `edSubmitting`, `edLoading`, `edBusy` and
`edBlocked` are the pages' state of those names; `edCalls` are the requests under
way with the form they were sent from, which is what a closure captures.
`Open`, `Refresh`, `New`, `Edit`, `Submit`, `Toggle`, `Delete`, `Cross`, `Cancel`,
`Type` are the administrator, `Serve` and `Refuse` the backend, and `LoadArrives`,
`EditArrives`, `Saved`, `NotSaved`, `SaveEnds`, `Toggled`, `Deleted`, `RowFails`,
`RowEnds` what follows each `await`.

### RegisterFlow

The page (`OpenPage`, `ProbeOptions`, `ChallengeArrives`, `RefreshChallenge`,
`DropTile`, `TurnstileSolved`, `SendCode`, `TypeCode`, `Submit`) collects its
artifacts, the gate checks and consumes them one after the other
(`GateTurnstile`, `GateReadsCode`, `GateConsumesCode`, `GateSlider`,
`GateAddress`, `Upstream`), several requests interleaved; `paid` is what a
request has used up.  `ShowRefusal` resets the page, `LoseAnswer` does not, so a
retry sends the same artifacts again.

### CheckoutStatus

The job, `Fulfillment` seen from afar, on a store that serialises transactions: an
execution is one step that ends (`ExecutionEnds`), with its outcome recorded or
not, for `executePaymentSuccessFulfillment` tells nobody of an error while
recording.  It is executed by the webhook (`EventArrives`, `HookMarks`,
`HookFails`), by the worker (`WorkerLists`, `WorkerClaims`), by an administrator
(`AdminLooks`) and by the polls themselves (`Look`, `PollResets`, `PollEnds`,
`PollAnswers`).  A retry reads the job, resets it to `paid_unfulfilled` in a
transaction of its own (`OtherResets`, `PollResets`) and then executes it, so two
callers may execute it at once; what a cancelled request has begun goes on
without it or is lost (`Abandon`).  The page is its polling, its timer and what it
shows: `OpenPage`, `AnswerArrives`, `ErrorArrives`, `PauseEnds`, `TimerFires`,
`ClosePage`; `Title` and `Description` are what it says.  It is opened at the
address Stripe gives after a payment, at the one after a cancellation, or at one
without a session (`"bare"`), which it does not poll for.

### KeysPage, Dashboard

The requests of the page are slots, each at its stage, and each answer writes
what its handler writes.  `KeysPage`: `loadAll` (`Provision`, `ReadList`,
`ListArrives`) runs inside `handleToggle`, `handleDelete` and the closing of the
dialog; `handleCreateKey`, `ServeCreate` and `CreateArrives` are the creation
whose secret is shown once.  A load that is refused for its session
(`DenialArrives`) takes the page away with everything on it, while the other
requests and a creation go on.  Keys are a set, and whether one is active is left
out: a toggle leaves the set as it is.  `Dashboard`: a load sent by the effect is aborted
when the range changes (`mine` goes), a `reload` is not; while data are loaded
the page shows nothing else, so the purchase card is unmounted and its state
lost, and its requests go on (`Card`, `Orphans`).

### UserDesk

`dkRoles` and `dkBound` are `als_users.role` and the bindings, `dkOnce` every
binding there has been.  A clerk is an administrator or a distributor with a page
open; each form has one request.  The backend's handlers are split where their
statements are: `ResolveRole`, `CheckRole`, `WriteRole`; `ResolveBinding`,
`CheckBinding`, `WriteBinding`; `ResolveAssignment`, `WriteAssignment`;
`CreateUser` is a transaction.

## 3. Runs

| Run | Instance | Shows |
|---|---|---|
| `fulfillment_race` | one job with a recharge and a key, a worker and two request goroutines, all callers, two faults, serial store | types, retry budget, `fulfilled` only after a grant, final is final |
| `fulfillment_stall` | as many retryable answers as the budget allows | **violated**: a job is left in `failed_retryable` |
| `fulfillment_overwrite` | a worker and two handlers, READ COMMITTED | **violated**: a final job is overwritten |
| `package_grants` | a subscription and a top-up of one customer, two goroutines, one fault | one credit, at most an assignment and an extension, fulfilled means granted; keys, groups and the local row as they should be, each under the conditions it needs |
| `package_overgrant` | one subscription, one goroutine, one fault | **violated**: one purchase is granted twice |
| `arbiter_shared` | three requests of any kind of a known user, three faults, one lost lock | no token presented twice, success is backed, ended sessions stay ended, sessions end with their family |
| `arbiter_gateway` | a gateway hides refreshes that happened | **violated**: a spent token is presented again |
| `scan_safe` | three requests of two users on one code | right session, consistent answers, decisions stand; `SignInPromise` is implemented |
| `portal` | every page in turn, several requests and people at work, lost and failing answers | the route handlers tell what happened and do as asked; no attempt at registration unpaid; the checkout page is honest; no draft is lost by the end of another save; a new secret is seen unless the session is refused, and no row of the key page is locked without a request; the dashboard is consistent; distributors keep to their own |
| `progress` | the machines that have work to finish, one in each behaviour, under their fairness | one worker retries in order; two workers exclude each other, settle every job and implement `PaymentPromise`; arbiter, panel, checkout page and dashboard come to an end |
| `lockout` | two administrators at the desk | **violated**: nobody is left to administer |
| `code` | one registration with every check on | **violated**: a refused registration has used up its code |

### Bounds

Requests, faults, retryable answers, codes and lock losses are counted and
bounded by the `Max...` constants; nothing else is.

* Fulfillment: the race lets a delivery overlap with a redelivery, a poll or a
  replay and with a worker; with three requests it was explored with two
  retryable answers as well (3.9 million states, the same invariants).
  `MaxRetries = 2` lets a count be stale by one and still be within or beyond
  the budget.  `AttemptCap` is above the budget wherever retries are counted.
* PackageGrant: one fault anywhere with two goroutines on two purchases; with
  one purchase two faults were explored as well (350 000 states, the same
  properties).  Two packages with a standard group each are enough for one to
  overwrite the groups of the other; start states cover a customer without
  row, with one of either package, with and without an expiry (a top-up gives none),
  and with or without the subscription upstream.
* RefreshArbiter: a rotation, a second request that waits for it, and a login
  between the two need three requests; three faults allow a failed write whose
  retry fails, and a crash.  A lock is lost once; what cannot be had then is
  stated for histories without a lost lock (`losses = 0`), while `NoReuse` and
  `EndedStaysEnded` are checked with it.
* ScanLogin: codes share nothing but the panel, so one code is enough for
  safety; three requests let a stranger's scan, the scanner's confirm and a
  repeated or opposite call overlap.  Giving up a code shows with two.
* `portal`: the pages share no state, so a behaviour is one of a single page and
  one run explores them all.  Two base addresses let the configuration be
  replaced; two tries let a thing be done twice.  One row, two requests at once:
  what goes wrong in an editor is two requests that write one form.  Two
  challenges, one code, one token and two requests let a retry reuse what the
  first has spent; after the last request the user leaves the form as it is
  (`MoreToSend`).  Two retries and one store error put the retry count at and
  below its budget; besides the webhook and the page one more retrier is between its
  look and its reset at a time, and any number of executions may be under way.  One
  key besides the automatic one and two requests at a time: changes, the loads that
  follow them and the load after a creation overlap and end in any order.  Two ranges and two requests let an aborted
  load come late.  Three users, two of them clerks with one request each, two
  forms: a demotion or a new binding between the look and the write of another.
* `progress`: one worker with two jobs and more retryable answers than the budget
  (a batch then holds one job while the other runs); two workers with fewer, see
  section 5; two arbiter requests with a fault and a lost lock, of a user whom
  logins find or a new one; one panel through two codes; the checkout page and the dashboard as in `portal`.

`Symmetry` is used where every definition treats the members of the set alike,
and never in a run with a liveness property.  Deadlock is not checked: when the
requests are used up and the jobs are final the system rests, as it does at
night.

### Fairness

* `Fulfillment`: goroutines run (an upstream call ends after its ten seconds at
  the latest), the worker's ticker ticks (it is re-armed every interval), time
  passes, and Stripe redelivers what was not answered 2xx.  Nobody is assumed to
  poll or replay, and there are no crashes in `progress`: see section 5.
* `RefreshArbiter`: every request that has arrived runs on, and a lock that is
  freed is handed to a waiter.  Arrivals and faults owe nothing.
* `ScanLogin`: the panel's timers fire and its calls are answered.  Users, the
  clock and the clean-up job owe nothing.
* `CheckoutStatus`: Stripe redelivers, the webhook's handler runs on, delays pass,
  whoever has begun a retry goes on, executions end (each upstream call has a
  timeout), the page's requests are answered or fail, and its pauses end.  Nobody
  has to begin a retry, and an execution that ends need not have recorded anything:
  the page may then poll for ever, and `PollingComesToAnEnd` says for which jobs
  (`Stranded`).
* `Dashboard`: requests are answered or fail, and their handlers run on.  Loading
  ends unless the range is changed for ever.

## 4. Proofs

TLAPS proves the following for every value of the constants: any number of
jobs, executors, requests, codes, faults, keys, rows, users and clerks.

| Module | Theorems |
|---|---|
| `FulfillmentProofs` | `TypeCorrect`, `BudgetHolds`, `FulfilledIsHonest`; `SettledForGood` if the store serialises transactions; `PromiseImplemented` if moreover each payment buys one product; `WorkersExclude` and `WorkersKeepThePromise` if nothing disturbs the workers (`Undisturbed`), `OneWorkerRetriesInOrder` if moreover there is one (`OneWorker`) |
| `PackageGrantProofs` | `TypeCorrect`, `CreditsOnce`, `GrantsAtMostTwice`, `FulfilledMeansGranted`, `FulfilledMeansUsable`; `RowsAreRight` if the packages of a tier are of one kind (`TierFixesValue`) |
| `RefreshArbiterProofs` | `TypeCorrect`, `NeverRevived`; `NeverPresentedTwice`, `StableCanBePresented`, `SuccessAlwaysBacked` if locks last as long as their owners and a busy answer means the token was not spent (`LockAndAnswersReliable`); `FamiliesCorrect`, `FamilyBacksSessions`, `OwnFamilyCleared` if every login takes the lock (`LoginsAreLocked`) |
| `ScanLoginProofs` | `TypeCorrect`, `OnlyTheScannersSession`, `AppsAgree`, `DecisionStands`, `LeftPanelStoresNothing`, `SignInPromised` |
| `ProgressProofs` | `WorkersTakeTurns`, `RetriesKeepOrder`, `WorkersKeepPromises`, of the specification that `progress` checks |
| `UserDeskProofs` | `DeskTypes`, `DistributorsGiveToTheirOwn`, `UsersStayWithTheirs` |
| `RegisterFlowProofs` | `RegisterTypes`, `AttemptsArePaid` |
| `PortalProofs` | `PortalTypes`, `HandlersTellTheTruth`, `HandlersDoAsAsked`, `RoutesLead`, `EditorsSaveInOrder`, `RegistrationsPay`, `CheckoutTellsTheTruth`, `KeysAreNotLost`, `HomeTellsItsRange`, `DistributorsKeepToTheirOwn` |

The arguments:

* **Fulfillment** (`IInv`).  The budget is not inductive alone: a count is
  written from a copy, so every copy (in the row, in a batch, in memory) has to
  be bounded, `CountsBounded`.  An honest `fulfilled` needs that whoever is
  about to record a success has seen the grant, `GrantPrecedesRecord`.  The
  refinement needs in addition that a checked transition is still allowed when it
  is written, `ChecksHold`; on a serial store no executor stands between check
  and UPDATE (`NoSplitTransaction`).

  `WorkersExclude` and `OneWorkerRetriesInOrder` are about what the claim
  achieves, and their hypothesis `Undisturbed` is what the code needs for it: a
  poll, a replay or a second post retries a job without a claim, an aborted
  claim or a failed statement lets the notice be delivered again while the job
  is under way, a second handler may take the redelivery, and a payment with two
  products is claimable after the first (section 5).  `Sole` says that whoever
  processes a job does so alone, that its row is `paid_unfulfilled`, which no
  claim takes, and that a notice not yet answered is in a handler's hands
  (`Answered`), so its redelivery waits.  `InOrder` says that a worker's list is
  still true of the row when the job's turn comes (`Copies`), which is what a
  second worker would break, and that the attempts made never run ahead of the
  count written (`AttemptsFit`).  With `Sole` a transition that was checked is
  still allowed when it is written (`ChecksHold`), which is all that
  `SettledForGood` and `PromiseImplemented` take from a serial store: so
  `WorkersKeepThePromise` needs none.
* **PackageGrant** (`IInv`).  The count of credits equals the number of balance
  keys carried out (`Counts`), a key runs once and never after it is done
  (`KeysOnce`), and every call carries the key of its own job (`CallShape`): so
  one credit, and at most one assignment plus one extension.  `Progress` says
  that an execution has covered the tasks it is past; a task is passed by
  carrying out its key or finding it done, and what is covered stays so.
  `PlanShape` relates the plan to the package.

  The last two theorems need more, and each its own.  `FulfilledMeansUsable` rests
  on what an execution is past (`Passed`): the tasks before its step, or the whole
  plan.  `KeysInv`: each key call carried out left its key, each execution has the
  keys it is past, each fulfilled purchase has all of them.  Keys are only added,
  so other purchases may overlap and anything may die; what has to be excluded is
  a 409 for a call that is still running, hence `answered`.  `AllowedInv` says the
  same of the standard groups.  Those are written whole, as read plus one, so
  nothing is lost only if what was read is what is there (`ViewIsNow`), which
  `Alone` gives: while `alone`, one execution is at work and no call is left
  behind.  `RowsInv`, for histories that are `Clean`: there is one active row, each
  row fits the purchases that paid for it (`RowFits`), a purchase is among them
  only after its upstream part was reported, and every place in the local part
  knows which row it is about (`PlaceFits`); a crash between the row and its expiry
  breaks it, so `Clean` excludes crashes.
  `TierFixesValue` is needed because the code finds the row by the package's
  code and decides by the package's value whether it has an expiry: an
  administrator who turns a package from days into a balance, or back, between
  two purchases of it is outside the theorem.
* **RefreshArbiter** (`Core`).  Whoever is in a rotation holds the lock
  (`LockHeld`) and a copy of the row that is exact while the version is the one
  it saw (`CopyOfRow`); a token in flight is not the one a stable row offers
  (`InFlightNotStored`), what may be written back was not used (`WriteBackGood`),
  and a token that came with a login is in nobody else's hands
  (`LoginTokenFresh`).  `NeverRevived` needs none of this, only that sessions
  not yet minted are unknown (`Unminted`).

  `Families` is the argument for the credential behind the sessions: while no
  lock was lost, a request that is neither waiting nor done holds the lock
  (`OneAtWork`), what it knows of the row is so (`RowFollows`), and a live
  session over a row that is not stable has a request on the way to settle the
  row or to end the sessions (`Ends`).  It needs `LoginsAreLocked`: a login
  under an address the local row does not carry takes no lock, and the run
  `arbiter_shared` too is about users whose logins find them.
* **ScanLogin** (`IInv`).  The token of a row was minted by a confirm of the
  user in the row (`RowShape`), what an app was told is still true of the row
  (`AnswersHold`), and what the panel holds comes from a row (`TokenPath`).
  `LeftPanelStoresNothing` needs no invariant; the runs check
  it as a part of `SignInKept`.

  `SignInPromised` maps a scan to `Take`, the mint of a confirm to `Mint`, the
  confirm to `Sign`, a denial and the clean-up job to `Close`, the panel's own steps
  to `Offer`, `Receive` and `Leave`, and everything else to a stutter.  Two things
  have to be known besides `IInv` (`KeptInv`): a request mints once, while it is the
  confirm of the user in the row (`MintsForScanner`), who stays there
  (`TakerStays`); and an answer "authorized" carries a token (`AnswersComplete`).

* **Portal** lifts the pages' theorems.  Each page's specification follows from
  the portal's, since the portal changes a page's variables only by that page's
  steps (`ProxyLift`, `EditorLift`, `CheckoutLift`, `HomeLift`, `KeysLift`;
  `RegisterLift` and `DeskLift` to instances of their theorem modules), so what a
  page keeps alone it keeps in the portal.
* **Route handlers** (`ProxyInv`).  A handler is a record, and `HandlersFit` says
  of every one of them, group by group, that its target is registered, that it
  forwards the token, the body and the query parameters its target asks for, and
  that what it answers itself is no write but a ticket (`Fits`).  Over the call:
  what is sent is what the handler copies of what was asked (`SentIsCopied`), an
  answer fits what the backend did (`AnswerFits`), a reply fits the answer
  (`ReplyFits`), at most one deed is done per try, and the next try follows a deed
  only where its answer was in doubt: lost, unreadable or an error
  (`DoneOncePerTry`), and the
  addresses used are the one the process remembers (`SentWhereRemembered`).
* **Editors** (`EditorInv`).  On a page that locks its form a save under way is the
  only one, and the form is locked (`SavesAreLocked`); an unanswered save was
  sent from what is typed (`SavesTheDraft`).
* **Dashboard** (`HomeInv`).  A load the page still listens to is for the range of
  now, since a change of the range disowns those under way (`EffectIsCurrent`);
  what is locked is on the page and awaits its answer (`LocksAreHeld`).
* **CheckoutStatus** (`CheckoutInv`).  What every step does to the job is stated
  once (`JobGoesOn`): a settled job stays as it is, since verdicts and resets pass
  `canTransition`.  So an answer under way is still true of the job (`AnswerIsTrue`)
  and what is shown is, too (`ShownIsTrue`), however many executions overlap.  Only
  the address of a payment is polled for, and a stopped page has a final status or
  an error (`StoppedForCause`).
* **KeysPage** (`KeysInv`).  The dialog is open while there is a secret to come or
  to show, on a page that is still there (`SecretHasDialog`); a page that is not
  open has no row locked; a locked row has a request under way: a handler locks the
  row it sends for, and whichever handler ends unlocks whatever row is locked.
* **UserDesk** (`IInv`).  Bindings that hold are among those there have been
  (`TablesOK`), and an assignment about to be written by a distributor was
  allowed by such a binding (`CallsFit`); `dkOnce` only grows, so the permission
  is one that did hold.
* **RegisterFlow** (`IInv`).  What a request has paid for is spent: gone from the
  gate, never issued again (`Known`, `Spent`), and two requests that both paid
  did so with different artifacts (`Apart`); the checks are passed in their order
  (`Ordered`), and before the page is open nothing has happened (`Unopened`).
* **Progress.**  In a behaviour of `MCProgress` one of two instances of
  `Fulfillment` runs, or neither.  Its specification implies theirs (`OneLift`,
  `TwoLift`), and nothing disturbs the workers (`NothingDisturbs`), so
  `WorkersExclude`, `OneWorkerRetriesInOrder` and `WorkersKeepThePromise` hold of
  what the run checks, for any jobs and any number of instances.

The assumptions are those named in the modules (`ProxyAssumption`,
`EditorAssumption`, `DashboardAssumption`, `CheckoutAssumption`, `KeysAssumption`,
`DeskAssumption`, `RegisterAssumption` and their like): numbers are numbers, and
"none" is not a key, a user, a row, a range or a call.  TLC evaluates them in the
runs, those of the pages through `PortalAssumption`; `ProgressAssumption` says that
workers and handlers are different goroutines and that there is a job.

Every invariant and action property a passing run checks, and both refinements,
are thus proved, some under the hypotheses above.  Only model-checked is liveness,
which is beyond the prover: `EverySettles`, `EveryRequestAnswered`,
`PanelMovesOn`, `PaymentIsRecorded`, `PollingComesToAnEnd` and `LoadingEnds`.

## 5. Findings

Six runs show the code doing something else than the repository says:

* `fulfillment_stall`: `applyProxyResult` may record `failed_retryable` with
  `retry_count = MaxRetries`, `ListRetryDueJobs` selects only smaller counts: the
  job is never "forced into failed_terminal" (`fulfillment/service.go:30`).
* `fulfillment_overwrite`: at READ COMMITTED, `TransitionJob`'s UPDATE by id
  overwrites a status that became final after its check.
* `arbiter_gateway`: a 5xx is taken to mean that the refresh token was not spent.
* `package_overgrant`: the key of an assignment differs from the key of an
  extension, so a purchase that fails after the assignment and is retried is
  granted twice; Idempotency-Keys do not "keep grants safe"
  (`fulfillment/worker.go:19`).
* `lockout`: `handleAdminUpdateUserRole` looks for another administrator and
  changes the role in two statements; two administrators who demote each other
  both pass, although the code answers "cannot remove the last admin role"
  (`httpapi/routes.go:5354`).
* `code`: the gate consumes the e-mail code before it looks at the slider; the
  comment at `httpapi/register_guard.go:108` says that no earlier failure wastes
  a code.

Seen while modelling, without a run of their own:

* Several callers that retry one job at once each pass the budget check, so a
  job may be retried more often than `MaxRetries`, and a listed job may be
  claimed before its new backoff; `RetriesInOrder` is therefore about one worker
  and no other callers.
* `executeBalanceRecharge` returns nil after it recorded a failure, and records
  `fulfilled` before the API key of the same payload exists: with two steps per
  payment `SingleExecutor` and `PromiseKept` do not hold.
* After a crash between the reset to `paid_unfulfilled` and the result nobody
  picks the job up unless its notice is redelivered; its checkout page polls for
  ever.  The same comes of an outcome that could not be recorded: the error is
  passed over (`httpapi/routes.go:7467`), and the webhook answers 200.
* A login under an e-mail the local row does not carry runs without the refresh
  lock; a rotation in flight may then delete the family it stored
  (`EmailDrift = TRUE`).
* With `MaxLockLoss = 1` and four requests, a late UPDATE of `BeginRotation` can
  match the row a later login inserted, since its version restarts at 0.
* `ScanLoginPanel` arms a timer after unmount when the answer is "denied" or
  "expired", and obtains one code more; `UnmountComesToRest` shows it ends there.
* A 409 for a key that is still being created lets a purchase be recorded
  fulfilled without its auto-key; two purchases at once may lose an allowed
  group, leave two active local rows or lose an extension; a crash between the
  new local row and its expiry makes the retry count two periods.
  `FulfilledIsUsable` and `LocalOnce` are stated for histories without these
  (`answered`, `alone`, `Clean`), each for those without what breaks it.
* A redemption that succeeds reloads the dashboard, which takes the card and its
  message off the page (`use-purchase-actions.ts:180`): the success is not seen.
* The checkout page goes on showing its spinner after an error has ended the
  polling (`checkout/status/page.tsx:171`).
* The e-mail code is read and deleted in two statements: two registrations may
  both pass with it (each pays for the later checks, `EveryAttemptPays`).
* Without a session in its address, or with a `checkout` other than `success` and
  `cancelled`, the checkout page says that it refreshes automatically and never
  polls (`checkout/status/page.tsx:58`, `:160`).
* The end of a deletion on the articles page goes by the row that was being edited
  when the deletion was asked for (`admin/articles/page.tsx:408`), and may reset a
  draft typed since for another row; `DraftKept` is about the ends of saves.
* On the key page an older list that arrives late replaces a newer one; a load that
  is refused for its session takes the page away, with a new key's secret if one is
  on show or on its way; and a creation that takes more than ten seconds leaves a
  key whose secret nobody has seen.

## 6. Not modelled

Planned below: one-time codes (the verification of an address, the reset of a
password), the wallet behind a redeemed card, the AI quota, the rate limiter,
refunds and disputes, account deletion, the default download, templates and tags
of the configuration centre.

Left out of the modelled parts: `handleVerifyEmail` and the countdown of the
registration page; the other cards of the dashboard, its `?checkout=` effect, the
ticket dialog and the choice of a tier; paging, sorting and statistics of the
consoles.

Left out for good: pages that only read, or that have one form with one request
(account, session profile, payments, register settings, surcharge, blog and the
other marketing pages); signature checking, image synthesis, SMTP, the HTTP
plumbing of `proxy/` apart from its error classes, caches (they hold no
authoritative state), start-up and migrations.

## 7. Plan

In order of importance.

1. `Fulfillment`, `PaymentPromise` and their proofs (done).
2. `RefreshArbiter` and its proofs (done).
3. `PackageGrant` and its proofs (done).
4. `ScanLogin` and its proofs (done).
5. `PortalRoutes`, `BackendSurface`, `PortalProxy`, `AdminEditors`, `RegisterFlow`,
   `CheckoutStatus`, `KeysPage`, `Dashboard`, `UserDesk`, `Portal`, and their
   proofs (done).
6. `OneTimeCodes` (verification and reset codes, check and then mark) and
   `Wallet` (a card is claimed by CAS, the balance written as an absolute
   value), `AIQuota` (read, then insert), `RateLimiter`, whose verdict
   `RegisterFlow` takes as a yes or no.
7. `StripeEvents`: refunds and disputes against the payment record.
8. The backend behind the editors: `Downloads` (one default per platform),
   profile configurations, `ConfigCenter`, `AccountDelete`; pure algorithms
   (version comparison, default key groups, surcharges) against reference
   definitions.

Theorems to add: what the claim still gives when customers poll and handlers
overlap on a serial store, and the invariants of 6.
