# Formal verification of the saziqo platform

TLA+ models of the parts of the platform that move money, sell runs of agents,
log users in and keep them logged in, answer requests and show lists, checked
with TLC on small instances and, for the invariants of nearly every component,
proved with TLAPS for every instance. Paths below are relative to `apps/api/src/`
unless they start with `plan/`, `docs/`, `infra/`, `packages/` or `apps/`; `agents/`
is `modules/agents/`, `web/` is `apps/web/src/`.

The platform is one NestJS process (`docs/architecture.md:5`) with one Prisma
pool on one PostgreSQL database, one Redis and one disk, and a Next.js client in
the browser. Concurrency is that of HTTP handlers interleaved at their `await`s,
of the transactions they open, and of the tabs and requests of a browser;
nothing else is distributed. Failures are a statement that fails, a transaction
that Prisma rolls back after its timeout, a Redis that does not answer or loses
a key, an answer that does not reach the browser, and the death of the process,
after which PostgreSQL rolls back what was open.

## 1. Inventory

| Component (source) | State | Operations | What is hard | What makes it correct |
|---|---|---|---|---|
| **Wallet ledger** (`core/ledger`, `core/wallets`) | `wallets.balance`, append-only `ledger_entries` | `credit`, `debit`, `transfer`, `verifyBalance`, reports | read-compute-write under row locks; lock order of transfers; death between entry and balance | the balance is the sum of the entries; no wallet below zero; every call atomic; no deadlock |
| **Payments** (`core/payments`) | `payments` row, gateway authority | `initiate`, `handleCallback` (a public URL, called any number of times with any Status), `PaymentLedgerReconciler.reconcile` | the ledger credit is committed on another connection, inside a transaction that may still fail or time out; status read before the gateway call and used after; verify may answer an error for a payment that was made | at most one credit, never without settlement; SUCCEEDED is credited; terminal is final; a settled topup reaches the wallet |
| **Refunds** (`core/payments`) | `refunds` rows | `refund`, `markRefundCompleted` | four steps in no common transaction | the refunds stay within the payment; no debit without a row |
| **Payouts** (`core/payouts`) | `payout_requests` rows | `request` (hold), `approve`, `reject`, `markPaid`, `cancel` | status checked outside the transaction that writes by id; two requests share the wallet row and deadlock | a hold is released once or paid once, never both |
| **Sessions** (`core/sessions`, `core/auth`) | `sessions` rows, refresh cookie | `issueTokens`, `rotateRefreshToken`, logout, `revokeOne`, `revokeAllForUser` | two tabs refresh together; lost answers; exceptions inside the transaction | one token is exchanged once; a replay is detected and ends the sessions |
| **OTP and login** (`core/otp`, `core/auth`) | code, attempts and cooldown in Redis, a row per code in the database | `generateAndStore`, `verify`, `consume`, `verifyOtp` | attempts counted before the comparison; compare and delete are separate; Redis and the database disagree | bounded guesses; a code opens one session; the code sent last works |
| **Users, RBAC, impersonation** (`core/users`, `core/rbac`, `core/impersonation`) | users, roles, permissions, impersonation rows, tokens in hands | boot seeding, `completeProfile`, status and role changes, `start`, `stop`, guards | a guard's reading is stale when the handler runs; deaths between two writes; tokens outlive rows | a request has the rights of its subject; an ended impersonation is over; the root admin keeps its rights |
| **Request pipeline** (`common/`, `core/audit`) | `idem:*` in Redis, audit rows | `AuditInterceptor`, `IdempotencyInterceptor`, `ResponseInterceptor`, `AllExceptionsFilter` | a retry arrives while the first request runs; the answer is stored after the effect; answers are lost | one intent, one effect; audit rows say what happened and who did it |
| **Rate limiter** (`common/middleware`) | a sorted set per address | one Lua script | routes with different limits share a window; the time is read before the script | no window holds more than the limit; a refusal does not prolong itself |
| **Marketplace: cart, checkout, runs** (`agents/services`) | cart rows, purchases, `agents_user_runs`, counters of a listing | `addItem`, `removeItem`, `mergeGuestCart`, `checkout`, `consume` | check-then-create without a lock; a SERIALIZABLE transaction retried once; consumers racing for the last run | what is granted was bought; granted = remaining + consumed; a cart row is sold once |
| **Marketplace: listings, categories** | listing status and reasons, cached sections | create, submit, approve, reject, publish, suspend, unsuspend, soft delete, `getCachedSection` | notification before the commit, audit and invalidation after it; a reader fills the cache meanwhile | reasons, trail and notices fit the status; sections hold what their queries find |
| **Marketplace: reviews** | a review per buyer, stored rating | create, edit, delete, `recomputeRating` | write, aggregate and store are three statements | the stored rating is that of the reviews |
| **Marketplace: catalog, search, library** | a visitor's cursor | `findPublished`, `searchPublished`, `findForUser`, `streamBundleForOwner` | rows move between two pages | nothing shown twice or missed; what was bought opens |
| **Files** (`core/files`) | bytes on disk, a row per content | `upload`, `softDelete`, `streamForDownload` | two stores, no common transaction; same content twice; one pass of a sanitizer | a row has its bytes; nothing is served as what it is not |
| **Notifications** (`core/notifications`) | rows, texts sent, the bell's count | `dispatch`, `markRead`, `markAllRead`, `countUnread` | a failing channel; polling races marks | no channel is forgotten; nobody reads for another; codes are not kept |
| **Paged lists** (`core/*/*.service.ts`, admin pages) | a cursor | seven lists and their pages | rows arrive and change between pages | nothing shown twice, nothing missed |
| **Module registry and loader** (`core/module-registry`) | permissions, links, install rows | boot, `onInstall`, `onBoot`, provider hooks | the process dies between hook and row; modules switched off | the hook runs once; an API that serves is whole |
| **Cart aggregator** (`core/cart`) | none | `getForUser` beside `checkout` | two implementations of one price | what is charged was shown |
| **Web client** (`web/lib/api-client.ts`, `web/store`, pages) | token, user, cookie, requests in flight | login, bootstrap, refresh, logout, impersonation, requests | several 401s at once; answers after the page changed its mind; tabs | a token is presented once; what is shown is who acts; nobody waits for ever |
| **Admin queues** (`web/app/(admin)/admin/payouts`) | cached lists, dialogs, drafts | fetch, open, type, decide | a dialog, its text and the answer belong to different rows | a text is written to the payout it was typed for |
| **persian-utils** (`packages/persian-utils`) | none | ids, IBANs, phone numbers, digits | many ways to write one number | wrong digits are found; a number has one form |
| **SMS, email, Prisma, Redis clients, config, health, infra** | none | I/O and wiring | - | - |

Interactions: a payment's reconciler calls the ledger; refunds debit and
payouts debit and credit the same wallet rows; login consumes an OTP, creates
the user and issues a session; every request passes the guards, which read the
roles, the session and the impersonation row, then the pipeline, and leaves an
audit row; the browser presents the session's cookie and must not refresh
twice; checkout turns cart rows into purchases and run balances that `consume`
spends; moderation invalidates the sections that visitors read; a listing's
module is loaded at boot.

## 2. How the models are written

One module per component, `CONSTANTS` for the sets of rows and calls, one
action per statement or step that other handlers can interleave with, with the
whole effect of the step in it. What a transaction has written and not
committed is seen by nobody (READ COMMITTED), so its writes become part of the
state in the commit action, and what the transaction does before is the locks
it takes and the values it remembers. A transaction whose handler dies leaves
no trace but the release of its locks, which is why one action models every
failure of it.

**Faults.** Several handlers are correct only in the absence of something that
can really happen. Such modules have a variable `faults`, chosen by `Init` and
never changed: any subset of a constant in `Refunds`, `Payouts`, `Sessions` and
`Marketplace`, one of the sets `FaultSets` in `Payments` and those that extend `PlatformFaults`. One run covers all the choices;
properties that hold whatever happens are stated plainly, the others name the
fault they cannot stand: `"overlap" \in faults \/ NeverReleasedTwice`. Every such
name is a statement about the code: with that fault (or, where a condition joins
several, with those together) the property is false, and
section 8 says how it comes about.

**Focus.** Small components that share no state are checked by one instance
(`MCShopfront`, `MCAccounts`, `MCRequests`, `MCOperations`) whose behaviours each
look at one of them, its `focus`; the states of the instance are the sum of
those of its parts.

**Properties and their parts.** A module states each thing it claims as a
definition of its own, with a comment that says what of the code it is about, and
conjoins those that belong together in one property for the run, the type
invariant first. Where this document names a definition, it may be such a part:

| Property | Parts, beside the type invariant |
|---|---|
| `BooksBalance` (`Ledger`) | `BalanceIsSum`, `NeverNegative`, `LockedRowsAreFresh`, `MismatchNeedsCommit` |
| `CreditsAreEarned` (`Payments`) | `SucceededIsCredited`, `CreditedIsSettled`, `CreditedNeverVoid` |
| `CallbacksDeliver` (`Payments`) | `CallbacksEnd`, `SettledIsCredited` |
| `HoldsAreExplained` (`Payouts`) | `BalanceIsExplained`, `VoidIsReleased`, `HoldReleasedOnce`, `PaidIsNotReleased` |
| `RefundsAreCovered` (`Refunds`) | `DebitIsRecorded`, `RefundsWithinPayment` |
| `ExchangesAreSafe` (`Sessions`) | `ExchangedIsRevoked`, `NoFalseAlarm`, `ExchangedOnce` |
| `CountersAreTrue` (`Marketplace`) | `RunsAreExplained`, `TotalUsersIsBuyers`, `RunsAreCounted` |
| `NothingIsSoldTwice` (`Marketplace`) | `SoldOnce`, `OwnedOnce` |
| `ModerationAgrees` (`Listings`) | `ValidatorsAgree`, `QueuedIsSellable`, `QuotaKept`, `ReasonsFitStatus`, `NoticeFitsStatus`, `TrailFitsStatus` |
| `ModerationHolds` (`Listings`) | `DeletedIsFrozen`, `RemovedLeavesSections` |
| `RatingsAgree` (`Reviews`) | `RatingIsConsistent`, `RatingIsAverage`, `FirstReviewToldOnce` |
| `VisitorsSeeAll` (`Browse`) | `CatalogShowsEachOnce`, `SearchShowsEachOnce`, `ShownCanBeOpened`, `LibraryOpens`, `CatalogEnds` |
| `FilesAgree` (`Files`) | `RowHasBytes`, `OrphansHaveCause`, `AnswerIsReadable`, `NoRawSvg`, `NoDisguise`, `RowsAreCanonical` |
| `CodesAreSafe` (`Login`) | `CodesAreSpaced`, `GuessesBounded`, `AcceptedIsFresh`, `CodeOpensOneSession`, `UserCanOnboard` |
| `RightsHold` (`Accounts`) | `ServingIsSeeded`, `RootKeepsRights`, `SubjectHasRight`, `EndedMeansEnded`, `NoImpersonatedSuperAdmin`, `TargetIsTold`, `CompletionOpensWallet` |
| `RequestsAgree` (`Pipeline`) | `AnswerIsOwn`, `AuditIsTrue`, `CodesAgree`, `EveryAttemptIsAudited` |
| `WindowKept` (`RateLimit`) | `WindowNeverExceeded`, `RefusedOnlyWhenFull`, `RetryAfterFrees` |
| `NoticesAgree` (`Notifications`) | `ResultIsTrue`, `EveryChannelIsTried`, `CodesNotStored`, `ReadByOwner` |
| `ListsAreWhole` (`Pages`) | `ShownOnce`, `NothingIsMissed`, `ReadingEnds` |
| `BrowserIsTrue` (`WebClient`) | `NoSelfReplay`, `RetryKeepsActor`, `ShownIsActed` |
| `BrowserSettles` (`WebClient`) | `LoginIsKept`, `LogoutForgets`, `StopRestores`, `LoadingEnds`, `QueriesSettle` |
| `ModulesAreWhole` (`ModuleLoader`) | `InstalledOnce`, `InstalledIsComplete`, `ServesWhole`, `LinksComplete` |
| `BootsRecover` (`ModuleLoader`) | `ServesAgain`, `DisabledIsLeftAlone` |
| `QueueIsTrue` (`AdminQueue`) | `TextFitsPayout`, `DecidedRowsLeave` |
| `PricesAgree` (`CartPrices`) | `ChargedAsShown` |
| `ChecksFindErrors` (`PersianUtils`) | `IdErrorsAreFound`, `IbanErrorsAreFound`, `PhoneIsOne` |

The others stand alone: the refinements, `AtMostOneCredit`, `TerminalIsFinal`,
`ReferenceIsFinal`, `TakesWhatItSells`, `EveryCallEnds`,
`EveryCheckoutEnds`, `SectionsAreFresh`, `NewestCodeWorks`, `DeletedStaysDeleted` and
`BellCatchesUp`.

**Mutations.** Operators that say `Mutation of X` are plausible mistakes in the
code of `X`. No specification uses them. Substituted for `X`, each makes the
property named beside it in `PROJECT.json` fail, which shows that the property
depends on that code. There is one for every property of every run that passes.

## 3. Modules

| Module | What it models |
|---|---|
| `LedgerTypes` | the calls `credit`, `debit` and `transfer` take, and the entries they insert; pure |
| `AtomicLedger` | abstract: a successful call changes balances and entries in one step |
| `Ledger` | `LedgerService`: `LockWallet` is one `SELECT ... FOR UPDATE` (lowest id first, `IsNextToLock`), `Commit` the inserts, the update and the commit; `ReadStored`, `CompareSum` the two statements of `verifyBalance`. Refines `AtomicLedger` |
| `Payments` | `initiate` (`CreatePending` ... `StoreReference`), the user and the gateway, `handleCallback` from `Receive` to `Commit`; `UpdateRow` takes the row lock, `FindEntry` and `CreditWallet` are the reconciler on connections of its own, `TransactionTimesOut` is Prisma's timeout, after which the reconciler's promise goes on. `MaySend` is who may call the public URL: a browser with what the gateway sent it, or anyone with the Authority and any Status. The gateway is external: it is modelled from how `providers/*.ts` use it. A credit is one step, as `AtomicLedger` says |
| `Refunds` | `refund` (`Ask`, `AskProvider`, `CreateRow`, `DebitWallet`) and `markRefundCompleted` (`ReadRefund`, `MarkCompleted`), with a user who spends meanwhile |
| `AtomicPayouts` | abstract: the life of a payout and its money, each operation one step |
| `Payouts` | `request` (`InsertRow`, which shares the wallet row `FOR KEY SHARE` through its foreign key, `LockForHold`, which wants it `FOR UPDATE`, `DeadlockAborts`, `CommitHold`) and the four reviews: `Read` is the check, `Stamp` or `UpdateRow`, `LockForRelease`, `CommitRelease` the writes. Refines `AtomicPayouts` without overlap |
| `Sessions` | the sessions of one user: `rotateRefreshToken` statement by statement (`FindSession`, `RevokeOld`, `CreateNew`, or the replay and the expiry branch, which throw inside the transaction), `Login`, `Logout`, `RevokeOne`, `RevokeAll`, and the browsers' cookies |
| `Marketplace` | `addItem` (`CheckItem`, `FindInCart`, `CreateRow`), `removeItem`, `checkout` (`TakeSnapshot` ... `WriteLine`, `Commit`, `SerializationFailure`, `Retry`) and `consume` (`Authorize`, `Decrement`, `CountRun`), with a moderator who suspends a listing |
| `PlatformFaults` | the constant `None` and the faults that the modules below share |
| `Login` | `generateAndStore`, `verify` and `consume` key by key and row by row, and the rest of `verifyOtp`: the user, its role, the session. Redis may forget the code, answers may come late, the process may die |
| `Accounts` | the boot seeding of permissions, roles and the root admin; both JWT guards and the permission guard as the step a request waits at before its handler; `completeProfile`, status and role changes, impersonation start and stop |
| `Listings` | a listing from its creation (the schema, the quota, the shape checks) through moderation to deletion: `lockAndLoad` under a row lock, the notification sent before the commit, the caches invalidated and the audit row written after it; the readers who fill the cached sections, each with what its query finds (`Selects`: the shelves ask for PUBLISHED, `recentActivity`, one of the `Feeds`, for sales and reviews of what is not deleted) |
| `Reviews` | post, edit and delete, each followed by the aggregate and the stored rating as statements of their own, and the notice of a first review |
| `Browse` | the pages of catalog and search with their cursors, the detail page, the library and the bundle download of one visitor, while moderators and sales change the order |
| `Files` | an upload from the MIME policy through the sanitizer (one pass; a content says how many would leave it clean), `temp/`, the rename and the row; the unique content hash; deletion and reading |
| `AtMostOnce` | abstract: an intent is done at most once and a client told of success was told the truth |
| `Pipeline` | a request's way through guards, audit, idempotency and response interceptors and the exception filter, with its client's retries. Refines `AtMostOnce` unless a fault that defeats the key is present |
| `RateLimit` | the guard's script on one address's sorted set |
| `Notifications` | `dispatch` channel by channel, the marks, and the bell that polls the unread count |
| `Pages` | the cursor of every paged list and the pages that turn it (`Matching` gives the filter of each list) |
| `ModuleLoader` | a boot: for each module permissions with their links, registration, `onInstall` and its row, `onBoot`, then the providers' own hooks; failures, deaths and restarts with other modules switched on |
| `CartPrices` | the cart adapter's price of a line and the checkout's, its commission and the maker's share |
| `WebClient` | tabs with their lanes (bootstrap, login, logout, impersonation, two queries), the shared refresh, the retry after it, the store's token and user, and an API that answers as `Sessions` and `Accounts` say |
| `AdminQueue` | the payout queue: lists by status in the query cache, dialogs, drafts, mutations and their answers |
| `PersianUtils` | the checks of ids, IBANs and phone numbers and the digit conversions; pure, a state is an input |
| `MC*` | the instances TLC checks |
| `SumProofs` | proofs: facts about sums, counts, orders and functions defined by recursion that the others cite |
| `LedgerProofs`, `PaymentsProofs`, `RefundsProofs` | the proofs about the module of that name |
| `PayoutsProofs` | the proofs about `Payouts`, `AdminQueue` and `PersianUtils` |
| `SessionsProofs` | the proofs about `Sessions`, `Login` and `WebClient` |
| `MarketplaceProofs` | the proofs about `Marketplace`, `CartPrices`, `Reviews`, `Listings` and `Browse` |
| `PlatformProofs` | the proofs about `Pipeline`, `RateLimit`, `Notifications`, `Pages`, `Accounts`, `Files` and `ModuleLoader` |

`PROJECT.json` maps each definition to the lines it stands for.

### Abstractions

- Amounts are small integers; the columns are `BigInt`/`DECIMAL` that do not
  overflow at any real sum, so width is not modelled.
- A payment's authority is named by the payment it was issued for; a session
  row by its refresh token (the code looks it up by the token's hash); a file's
  content stands for its sha256.
- The reconciler's ledger call is one atomic step, which is what the ledger
  run and proof show. The same wallet's other users do not matter to payments.
- A checkout is SERIALIZABLE: what it reads is what its first statement sees, a
  row it locks or updates must not have changed since (`stale`), and a circle of
  waiting checkouts is broken by failing one of them. PostgreSQL also aborts
  transactions whose reads and writes form a cycle; such an abort is one of the
  failures `CheckoutFails` stands for, and no property relies on it.
- FREE and ONE_TIME listings are one kind in `Marketplace`, bought once; a run
  pack grants a number of runs. What a line costs is `CartPrices`. Makers, who
  may not buy their own listing, are left out there.
- `Login` counts time in cooldowns (60 s, of which a code lives two) and calls
  a code by its row; the six digits and their hash are left out.
- In `Pipeline` the handler of an intent commits, or throws, or, under the fault
  `"partial"`, throws after it has committed something; the
  request hash is the body, since method and URL are the same for all intents.
  Its route is one with `@Audit`; on others, as the checkout is, no row is written. Hashes
  and redaction in audit rows are left out.
- `RateLimit` has one address; the check per user is never made by the code.
- The texts, prices and pictures of a listing are left out, except what the
  shape checks ask of prices and run packs.
- `WebClient` has the API in one step per request: what the API does inside is
  `Sessions`, `Accounts` and `Login`. In the application the access token has no
  code of its own for its expiry, so the branch that refreshes silently is
  modelled under the fault `"coded"`, that is, for an API that sends the code
  `web/lib/api-client.ts:3` waits for.

## 4. Runs

| Run | What it asks | Shows |
|---|---|---|
| `ledger` | three calls of credit, debit or transfer, with any wallets and amounts of the instance, deaths at any statement, and one `verifyBalance` among them | the ledger implements the atomic one; balances are sums of entries and never negative; locks keep what was read fresh; transfers do not deadlock; a `BALANCE_MISMATCH` is always the race of the two reads with a commit |
| `payments` | two payments (one topup), two callbacks with any Authority and any Status, overlapping or not, under statement failures, transaction timeouts with a pool of two connections, verify errors and "the user pays after cancelling" | nothing is credited that was not settled, nor twice unless a transaction times out; SUCCEEDED means credited; terminal is final unless callbacks that overlap disagree; every callback ends; a settled topup is credited when nothing fails |
| `payouts` | two requests for a wallet that can pay one of them, three review calls, overlapping or not, failing or not | no lost balance update, REJECTED and CANCELLED have released, no call waits for ever, although two requests of one wallet deadlock on its row; without overlap the service is the atomic life cycle |
| `payouts_twice` | a hold is released at most once, overlap or not | **violated**, see section 8 |
| `refunds` | three refunds of two payments, two confirmations, a user who spends | no debit without a refund row, nor for a payment that was no topup; without overlap refunds stay within the payment and a bank reference is final |
| `sessions` | two browsers, two refreshes, three tokens, with lost answers, expiry, logout and revocations | an exchanged token is revoked; a replay is reported of revoked tokens only; without overlap a token is exchanged once |
| `sessions_replay` | what a comment says of a replay | **violated** |
| `marketplace` | two checkouts of two carts with the same listings in opposite orders, two adds, a removal, a suspension, a consumer; failures at any statement, deadlocks, the retry | a cart row is sold once and a checkout takes what it sells; runs are what was granted less what was consumed; `totalUsers` and `totalRuns` are right; every checkout ends; a listing is bought once unless adds overlap |
| `shopfront` | `Listings`, `Reviews`, `Browse` and `Files` | no moderator's race leaves a row, a notice or a trail that contradicts the status; a deleted listing stays as it is; sections are what their queries find outside the named races, and within 60 s what is no longer to be shown is gone (a suspended listing from every section but recent activity); a rating is one of the reviews, and of all of them without overlap; the catalog ends, and shows each listing once when its order is that of the ids; rows have their bytes whatever fails, never serve disguised types, and serve SVG only as the sanitizer left it |
| `accounts` | `Login` and `Accounts` | codes are spaced, guessed at most `MAX_ATTEMPTS` times and open one session each; a boot repairs what an earlier one left; the root admin keeps its rights; a request has the rights of its subject; an ended impersonation is refused, and its target told unless a death or a lost notice comes between |
| `requests` | `Pipeline`, `RateLimit`, `Notifications` and `Pages` | an intent is done once unless a fault defeats its key; answers, audit rows and codes agree; the window is kept; no channel forgotten, no code stored; no row of a list shown twice or missed; the bell catches up and reading ends |
| `operations` | `WebClient`, `ModuleLoader`, `AdminQueue`, `CartPrices` and `PersianUtils` | a browser does not replay its own token; a retry acts as who asked; what is shown is who acts; logins last and logouts hold; an API that serves has all of its modules, installed once; a reason is written to the payout it was typed for; what is charged was shown; wrong digits are found |

### Bounds, and why they are enough

- Calls. Every hazard listed is a race of two handlers, or of two handlers and
  a third step (a gateway, a spending user). The ledger has three calls so that
  a transfer can meet one transfer in each direction, and a debit can spend
  what a credit has just brought; the payouts have three, so that an approval,
  a payment and a release of one payout meet. Sessions have two overlapping refreshes
  plus the revocations and three tokens, the third being what a second
  exchange of one token needs; refunds have three, so that two can exhaust a payment and the
  third must be refused.
- Rows. Two wallets (a transfer needs two, a deadlock no more); the ids are
  numbers because the lock order compares them, and a third id has no row, for
  `WALLET_NOT_FOUND`. Two payments, so that an Authority can be another
  payment's, one of them not a topup. Two payouts on one wallet.
- Amounts are 0 and 1 in the ledger: 0 for the refused call, 1 is enough for
  a balance to be insufficient, and three calls reach balances of 0 to 3.
- `PoolSize = 2` with two callbacks, where `"timeout"` is a fault: both transactions
  hold a connection, no connection is left for either reconciler, and Prisma's timer
  resolves it. Without that fault the pool has a connection for everybody.
- The six fault sets of `payments` (`FaultSetsOf`) are the largest that do not exempt a property, and
  the largest of all: but for `"timeout"`, which limits the pool, a fault only adds
  steps.
- In the marketplace two users with opposite carts are the smallest deadlock,
  two calls of `checkout` may also both be for one cart, and the two adds make a
  duplicate row or a row that arrives while a checkout runs. One consumer and a
  pack of one run give the race for the last run with a checkout. Six rows are
  the four of the carts and one for each add; the moderator toggles the listing
  that is bought once, and row 5, the first that is added, may be removed.
- `shopfront`: two listings of one maker with a quota of one, two slugs and two
  tasks, so that two moderators meet on one listing and two creations on the
  quota, their rows inserted in order; one reader at a time and two sections, a shelf
  and a feed, read together where the faults are `"race"` and `"redis"`, else the feed alone where listings
  are deleted and the shelf alone otherwise (`ReadHere`). Two reviewers with two ratings
  and two calls; `MaxTold` stops the count of notices at two. Four listings on
  pages of one, three sort keys so that keys tie and change, and a fallback
  threshold of two so that a search both meets and misses it. Two uploads by
  two users of any kind of bytes (an image, a text, a binary, SVG that needs no pass of the sanitizer, one, or two) on two days.
- `accounts`: one phone, two codes and two verifications, `MAX_ATTEMPTS = 2`
  for the code's five, so that two overlapping guesses reach the limit; three
  minutes, in which a code expires and a second one is sent. The root admin and
  two others, two requests at a time, one impersonation per behaviour.
- `requests`: four intents (one sent by an impersonating admin, one with the
  same key and body from somebody else, one that reuses the key for another
  body, one without a key) and three attempts, so that one intent is sent
  twice while another meets its key. Four requests in a window of two instants
  with limits 1 and 2 and a clock that runs to 4: a window fills, refuses and
  frees. Two notifications and two marks. Four rows on pages of two: a full
  page, a last page and one beyond.
- `operations`: two tabs, two queries and six tokens; three boots of two
  modules, so that one can die at any statement, another repair it and a third
  find nothing to do. Two payouts, one decision of the admin under way at a
  time; others decide only the row whose dialog is open, which is the only row
  where it matters. Ids with two varying digits and every check digit, IBANs
  with all check digits and two varying digits, five numbers, of which three
  look like prefixes, after every prefix, in every script, with a separator
  at three places; prices 1, 7, 99, 100 and percentages 0, 20, 33, 100.
- Each module of an instance is given sets of faults that include every fault
  alone or with those it can meet; all subsets would multiply states without a
  new pair of steps.
- Symmetry is used in `refunds`, `sessions` and `accounts`, which check no liveness.
- `CHECK_DEADLOCK FALSE` is said where the calls of an instance are used up and
  the system may rest.

## 5. Fairness

Weak fairness of the steps of a handler, of a page that has an answer, and of
a process that is to boot or restart, and nothing else: not of the user, of
the gateway, of arriving calls or of faults. The code justifies it: a handler's
continuation is run once its query has been answered; PostgreSQL answers
queries, and queues the waiters of a row lock in order. Since the calls of an
instance are finitely many, a lock that is released and asked for is granted to
everyone in the end, so that weak fairness says no more than that queue does.

- `EveryCallEnds` (ledger, payouts), `CallbacksDeliver` (payments) and
  `EveryCheckoutEnds` (marketplace) use the fairness of handlers. PostgreSQL finds a
  deadlock (`DeadlockAborts`) and Prisma's timer rings for each transaction that stays open
  (`TransactionTimesOut`, the one fault that is fair: it must end what waits for the pool).
- `RemovedLeavesSections`: who reads a section stores it, and Redis drops a
  section's key after its 60 seconds, a timer no later write prolongs while the
  key is there.
- `CatalogEnds`, `ReadingEnds`: the visitor goes on to the next page.
- `BellCatchesUp`: the bell asks every 30 seconds and its answers arrive.
- `LoadingEnds`, `QueriesSettle`, `StopRestores`: requests are answered or
  fail, pages handle the answers and are loaded. Fairness is per tab and lane.
- `ServesAgain`: the supervisor restarts a process that ended
  (`restart: unless-stopped`), and a boot goes on.

## 6. What is proved

Each theorem holds for every value of the constants that meets the named
assumptions of its module: ids are distinct from `None`, amounts are integers
or naturals as the types of the columns say, and, where a sum over rows or calls is
taken, they are finitely many. The assumptions are `WalletIdAssumption` and
`AmountAssumption` (`LedgerTypes`), `RequestAssumption` (`Ledger`),
`TopupAssumption` (`Payments`), `PayoutAssumption` and `CallAssumption`
(`Payouts`, `Refunds`), `RefundAssumption`, `MarketAssumption`, and
`IntentAssumption`, `KeyAssumption` and `CacheAssumption` (`Pipeline`), and one in
each of the other modules; TLC evaluates them in the runs. Those that say more
than what kind of values a constant has:

| Assumption | Says | Why the code justifies it |
|---|---|---|
| `MarketAssumption` | for `OwnedOnce`: carts begin without duplicates, and no two items are of one listing that is bought once | carts begin empty in the code; such a listing has no packs |
| `LimitAssumption` (`RateLimit`) | limits and the window are positive | the decorators name positive numbers per minute |
| `RootAssumption` (`Accounts`) | the root admin is one of the people | `SUPER_ADMIN_PHONE` is required by `config/config.schema.ts:45` |
| `ModuleAssumption` (`ModuleLoader`) | no module is listed twice, no two declare one permission | `modules.config.ts` is the list, codes begin with the module's name |
| `ReviewsAssumption` | ratings are 1 to 5 | `agents/controllers/reviews.controller.ts:25, 31` |
| `PriceAssumption` (`CartPrices`) | prices are naturals, the commission is a percentage | prices are `positive()`; nothing writes a commission but the default 20 |
| `FilesAssumption` | a purpose has its list of types | `MIME_ALLOWLIST_BY_PURPOSE` is typed by purpose |
| `ListingsAssumption`, `AccountAssumption`, `LoginAssumption`, `NoticesAssumption` | rows, calls and quotas are finitely many, names are not `None` | a table has finitely many rows |
| `BrowseAssumption` | ids and sort keys are naturals, listings are finitely many, a page has room for one | ids are generated by the database, `limit` is validated as positive |
| `PageAssumption` | ids are 1 up to some number, a page has room for one, names are not `None` | ids are drawn from a sequence, `limit` is validated as positive |
| `UtilAssumption` | an id is ten digits, an IBAN twenty-four, and the text of a phone number is that number behind one of the prefixes (`Prefixes98`, the empty one included), in any script and with separators anywhere | the patterns of `packages/persian-utils`; other inputs are refused before the checks the theorem is about |
| `QueueAssumption`, `TabAssumption` | names differ from `None`, queries from the page's own requests | names only |

Every safety property of the runs is proved; of a property that conjoins safety and
liveness the safety parts are: those of `VisitorsSeeAll` and `ListsAreWhole`, and
`DeletedIsFrozen`, `DisabledIsLeftAlone`, `LoginIsKept` and `LogoutForgets`. In the modules
of the money, the checkout and the pipeline the parts of a property are theorems of
their own, since they rest on different invariants, and the theorem on the
property (`LedgerBooksBalance`, `PaymentsCreditsAreEarned`,
`PayoutsHoldsAreExplained`, `RefundsAreAllCovered`, `SessionsExchangesAreSafe`,
`MarketplaceCountersAreTrue`, `MarketplaceSellsNothingTwice`,
`PipelineRequestsAgree`) conjoins them. Each component's theorems are about its own
specification (`LoginSpec`, `ListingsSpec`, ...), which is what its behaviours in the
instance that combines several components satisfy.

**Sums, orders, recursion** (`SumProofs`). The invariants about money are sums over
finite sets, which the community modules define by a fold, that is, by recursion over
subsets. The theorems on induction take an operator as a parameter, which the
provers cannot instantiate; instead each fact (a sum with one more term, a sum
of which one term changes, the sum of two functions) is proved of a subset that is minimal among
those that contradict it, by `MinimalSubset`. A page of a list is the first n elements of a
set in some order (`Foremost`): they are n or all, they are ahead of what is left, and
taking them from what a longer prefix took gives the same. `LeastIn` gives the least
natural of a set; a statement about a natural is proved of the least one that
contradicts it, and `RecursionExists` says in this way that a function defined by
recursion on naturals satisfies its equations.

**Ledger** (`LedgerProofs`). The inductive invariant `LedgerInv` is `TypeOK`,
the validity of running calls and `LockedRowsAreFresh`: a row lock is held by
a transaction that needs the row, and what it read is the row. The last part
is what `FOR UPDATE` buys, and without it neither of the others follows: with a stale
copy `NewBalance` would be positive although the balance has gone below the
amount. From it: `LedgerTypeOK`, `LedgerLocksAreFresh`, `LedgerNeverNegative`
(which needs it inductively, beside `NeverNegative` itself) and
`LedgerImplementsAtomicLedger`, by `CommitIsPost`: a commit is a `Post` of the
abstract ledger and every other step a stutter. `LedgerBalanceIsSum` follows
from `LinesAddUp`, that the entries of a commit add up to what it changes the
balance by, and `LedgerMismatchNeedsCommit` from `AuditInv`: the balance
`verifyBalance` compares is the sum of the entries at its first statement, so
that a difference at the second is a commit in between.

**Payments** (`PaymentsProofs`). `BaseInv` (whatever the faults): a callback that
passed its check carries the row's own Authority, the success branch is entered
after settlement, and a topup's commit is preceded by a credit; hence
`PaymentsTypeOK`, `PaymentsSucceededIsCredited`, `PaymentsCreditedIsSettled`.
`LockInv`, as long as no transaction times out: from the update to the end of
the transaction the callback holds the row, so the entry it found missing is
still missing; hence `PaymentsAtMostOneCredit`. The two claims about the status rest on one
of three invariants each, for the conditions they name. `AgreeInv`, where every callback
says what the gateway decided (no fault of `Unfaithful`): the row, the redirects and every
callback under way agree with the gateway. `AloneInv`, where callbacks of one payment do not
overlap, whatever they say: the row a callback read PENDING is PENDING until it writes
itself. `WholeInv`, where moreover none is cut off: a credit is followed by its commit. Hence
`PaymentsTerminalIsFinal` and `PaymentsCreditedNeverVoid`.

**Payouts** (`PayoutsProofs`). `Inv` (whatever the faults): the balance read under
the wallet lock stays the balance; hence `PayoutsTypeOK` (balances are
naturals: no hold overdraws the wallet) and `PayoutsVoidIsReleased`.
`FundsInv`: the balance is what the wallet had, less the holds, plus the
releases, however often a payout was released; hence
`PayoutsBalanceIsExplained`. `SerialInv`, without overlap: the status a call
checked is still there when it writes; hence `PayoutsHoldReleasedOnce`,
`PayoutsPaidIsNotReleased` and the refinement `PayoutsImplementAtomicPayouts`.

**Refunds** (`RefundsProofs`). `RefundsInv`: what a call has done at each place it
may be; hence `RefundsTypeOK` and `RefundsDebitIsRecorded`. `RoomIsKept`,
without overlap: what a call is to refund still fits what the payment has left
when it writes its row, because nobody else is refunding that payment; hence
`RefundsStayWithinPayment`. A refund with a reference is COMPLETED, and two
confirmations of one refund do not overlap; hence `RefundsReferenceIsFinal`.

**Sessions** (`SessionsProofs`). `Inv`: tokens held by browsers and calls were issued,
and the replay branch holds a revoked token; hence `SessionsTypeOK`,
`SessionsExchangedIsRevoked`, `SessionsNoFalseAlarm`. `SerialInv`, without
overlap: nobody has exchanged the token a refresh is about to exchange; hence
`SessionsExchangedOnce`.

**Marketplace** (`MarketplaceProofs`). Five invariants, each resting on the first:

- `Inv`: a cart row is locked by one checkout, what it has locked is still in
  the cart and what it has written is part of it, so that `Commit` sells rows
  that are unsold and takes them out; hence `MarketplaceTypeOK`,
  `MarketplaceSoldOnce`, `MarketplaceTakesWhatItSells`.
- `BuyersInv`: the purchases a checkout did not see have made a row stale, and
  no row it has locked is stale. A checkout that increments `totalUsers` on the
  word of its snapshot has the listing locked, so that word is still true, and
  `MarketplaceTotalUsersIsBuyers` follows by adding one element to a finite set.
- `StepKeepsCount`: each step changes `totalRuns`, what was consumed and the
  consumers between their two statements so that the equation stays; hence
  `MarketplaceRunsAreCounted`.
- `GrantsInv`: what a checkout is about to grant is the sum over the lines it
  has written. Its commit adds that sum to the runs and those lines to the
  sold ones; hence `MarketplaceRunsAreExplained`, granted = remaining + consumed.
- `OnceInv`, when adds do not overlap: an item has one row in a cart, a line that
  a checkout does not refuse was not owned in its snapshot, and by `BuyersInv`
  still is not; hence `MarketplaceOwnedOnce`. It needs the part of
  `MarketAssumption` that the carts begin without duplicates and no two items
  are of one listing that is bought once.

**Pipeline** (`PlatformProofs`), about `PipelineSpec`, which is what the pipeline's behaviours
of the run `requests` satisfy. `PipelineInv`: at each place of an attempt what came out of
it so far (`PlacesAgree`), that cached and given answers are of executions of
the same key and body (`AnswersAreOfExecutions`), and that a row is what its
attempt came to (`RowsAgree`); hence `PipelineIsTyped`, `PipelineAnswerIsOwn`,
`PipelineAuditIsTrue`, `PipelineCodesAgree` and, with an invariant of its own,
`PipelineEveryAttemptIsAudited`. `OnceInv`, unless a fault of `Defeats`
happens: attempts of one intent do not overlap (`NoneOverlaps`), an intent that
was done is known to the cache or about to be (`DoneIsKnown`), and one whose
handler runs was not done (`HandledIsNew`); hence the refinement
`PipelineImplementsAtMostOnce`.

**Lists** (`PlatformProofs`). `PagesInv`: while there is a next page, what was shown is at
the cursor or above it, and each row that has matched since the list was opened and is at
the cursor or above it was shown once (`ReadToCursor`); the rows that have matched
ever since still match (`MeantMatch`), so that the next page takes them when it comes to
them. A page is above the rest of what is below its cursor, so that the next
cursor, its least id, keeps both; a row that is committed late or ceases to match
changes nothing that was shown. Hence `ListsShowEachRowOnce`, for every one of the nine
lists, every page size and whatever happens between two pages.

**Catalog** (`MarketplaceProofs`). `BrowseInv`: as long as the order is that of the ids and the
listings stay, the visitor was shown the shelf from its top down to the cursor
(`CatalogToCursor`); a search that the full text answers alone has shown the first
`offset` hits (`SearchToOffset`); and what was shown is still on the shelf when no moderator
comes between (`ShownStays`). Hence `VisitorsSeeEachOnce`. The guard on the
order is not for the proof's sake: the cursor is an id and the order another key, see section 8.

**Checks of ids, IBANs and phone numbers** (`PayoutsProofs`). `ErrorsAreFound`: an IBAN
with one wrong digit or with two different neighbours exchanged is refused, and so is a
national id, except where the check digit 1, which stands for two remainders, comes into it; a
phone number has one canonical form in whatever way it is written.
`RemaindersAreRight`: the loop of `bigMod97` computes the remainder of the whole
number by 97, for sequences of digits of any length. The loop is a recursive function;
the remainders of two texts agree up to the first place where they differ, and since
97 is prime to 10 and more than any difference of two digits, a difference stays to the
end. For phones the text without separators carries the characters of the
number in their order (`Solid`, `Rank`), and the lengths of the prefixes tell them apart.

**Login** (`SessionsProofs`). `LoginInv`, whatever the faults: the row a call has
made or found is there (`CallsAgree`), attempts count guesses, codes are a
cooldown apart, a user without the role is one whose verification still runs
or has died (`RoleIsComing`), and a verification that looks at a code in time
uses one that has not expired (`FreshInv`). `LoginSerialInv`, without overlap: the
row to be consumed is not consumed and the consumed one has opened no session.
Hence `LoginCodesAreSafe`. `NewestInv`, when Redis at most forgets: what Redis holds
and what a verification has read there is the code sent last, and that row is the
one it finds; hence `LoginNewestCodeWorks`.

**Rate limiter, notifications, users and rights, files, modules** (`PlatformProofs`).

- `RateInv`: each request is ruled on once, and what the window holds is what was
  allowed under the time it took (`HitsAgree`); when no time is late, the window
  holds all that was allowed within it (`WindowHoldsAll`); once the oldest entry a
  refused request saw is gone there is room, unless another request took it
  (`RoomComes`). Each is a count of a finite set of entries; hence `WindowIsKept`.
- `NoticesInv`: a channel whose turn is to come has no result yet (`TurnsAgree`), a
  mark about to be written is its caller's (`MarksAgree`); hence `NoticesAlwaysAgree`.
- `AccountsInv`: what each place of a request and of a boot has established, the
  impersonations and their callers, and that an ended one was told or is about to
  be, if notices are written (`EndedIsTold`). `AloneInv`, without overlap: the permission, the session and the
  status a request was checked with still hold when it writes, and nobody who is
  being impersonated is a super admin. Hence `NobodyDoesWhatItMayNot`, the theorem on
  `RightsHold`, and `DeletedUsersStayDeleted`.
- `FilesInv`: an upload past its rename has a whole file where its row will point
  (`UploadsAgree`; by `OneDay` the day, which is part of a file's name, changes only
  under its fault),
  and a row is one of an answered upload; hence `FilesAlwaysAgree`.
- `LoaderInv`: what is merged has its row (`MergeAgrees`) and its links but for the one
  being written (`LinksAgree`), hooks run in order (`HooksAgree`), and a call of
  `onInstall` is followed by the row or cut off before it (`InstallsAgree`); hence
  `ModulesAreAlwaysWhole` and `DisabledModulesAreLeftAlone`.

**Admin queue** (`PayoutsProofs`). `QueueInv`: a dialog's request carries the text its
field had for that row, unless the cancel button left it (`DialogsAgree`, `DraftsAgree`),
and a row shown under a status has it or its list will be asked for again
(`ShownRowsAgree`); hence `QueueIsAlwaysTrue`.

**Prices, reviews, listings** (`MarketplaceProofs`).

- `ShareDivides`: the commission and the maker's share add up to the price and
  neither is negative, for every price and percentage; hence `PricesAlwaysAgree`.
- `ReviewsInv`: what an aggregate read is what the reviews were (`CallsAgree`), a
  first review is told once (`AloneAgrees`), and the stored aggregate is that of the
  reviews or about to be (`StoredAgrees`). `AggregatesFit` and `BarsAgree` are
  lemmas about sums (an average of ratings lies between 1.00 and 5.00; the bars of
  the detail page count the same reviews). Hence `RatingsAlwaysAgree`.
- `ListingsInv`: what a transaction checked under its row lock still holds when it
  writes (`RequestsAgree`); one creation counts and inserts at a time (`CountsAgree`);
  notices and trail follow the status, with the notification before the commit and the
  audit row after it (`NoticesFollow`, `TrailFollows`); a reader computes a section
  only with nothing left to invalidate (`SectionsFollow`). Each part is guarded by
  the faults its property names. Hence `ModerationAlwaysAgrees`, `SectionsStayFresh` and
  `DeletedListingsAreFrozen`.

**Browser** (`SessionsProofs`). `WebInv`: every exchange is what its place says
(`ExchangesAgree`), a tab runs one flow at a time (`FlowsAgree`), and then one part per
promise. `CookiesAgree`: where nothing excuses a replay, the cookie is in force or
the answer that replaces it is under way, and nothing else is presented;
`SilentAgrees` is what it needs when the API sends the code the client refreshes on.
`ActAgrees`: what a tab shows is who its token acts for, from the start of an
impersonation to its end. Hence `BrowserIsAlwaysTrue`. `LastingInv` adds that a bootstrap
meets no login and that who presents a cookie still has it; hence `LoginsAlwaysLast`
and `LogoutsAlwaysHold`. The first attempt at `CookiesAgree` failed: after a
refresh that failed, `failRefresh` starts to leave the page, and a late 401 of another request
then refreshes once more with the cookie that was just presented.
`NoSelfReplay` now names that case.

Where a property names a fault, the invariant behind it is guarded in the same
way (`GuardedSerialInv == "overlap" \in faults \/ ...`), since `faults` never
changes.

## 7. Model-checked only

- Liveness under fairness is beyond TLAPS: `EveryCallEnds`, `CallbacksEnd`, `SettledIsCredited`,
  `EveryCheckoutEnds`, `BellCatchesUp`, `RemovedLeavesSections`, `CatalogEnds`,
  `ReadingEnds`, `ServesAgain`, `StopRestores`, `LoadingEnds` and `QueriesSettle`.
- Deadlock, which is a statement about `ENABLED`, is checked in every run whose system
  cannot stop (section 4).

Induction over data, where a theorem needs it (sums, orders, the remainder by 97), goes by
a least counterexample, as section 6 says under *Sums, orders, recursion*.

## 8. Where the code and what is said of it differ

Shown by runs (`PROJECT.json` "findings" quotes the lines):

1. `payouts_twice`: reject and cancel that overlap both release the hold.
2. `sessions_replay`: `SESSION_REPLAY` is thrown inside the transaction that
   revoked the user's sessions, which undoes the revocation.

Shown by the exceptions of properties that pass: each names a fault without
which the property is false.

- `AtMostOneCredit`: reconcile commits its credit on connections of its own
  (`core/payments/payments.service.ts:252-276`), so only the row lock of the
  outer transaction separates two callbacks; when Prisma rolls that transaction
  back after its timeout, the second callback finds no entry and credits again.
  `core/payments/payments.service.ts:262-265` says a retry "cannot
  double-credit".
- `TerminalIsFinal`, `CreditedNeverVoid`: a callback that read PENDING and is to write CANCELLED or
  FAILED overwrites the SUCCEEDED of an OK callback that committed meanwhile. That takes
  two callbacks that overlap and disagree: a NOK the gateway did not send, which the public
  URL takes from whoever has the Authority; a `verify` that was answered with
  a 4xx or 429 for a payment that was made (`core/payments/providers/zarinpal.provider.ts:112-123, 200`);
  or a gateway that lets a user pay after cancelling. `core/payments/payments.service.ts:216` says
  "Idempotency is provided by the early-return on terminal status". Without overlap such a
  callback settles the row for good: `"verifyError"` leaves a payment that was made FAILED, which no
  later callback repairs; and one whose first callback died between credit and commit is then
  credited and void.
- `RefundsWithinPayment`: two refunds that overlap exceed the payment together.
- `ExchangedOnce`: two refreshes with one token that overlap both get a new
  pair; `core/sessions/sessions.service.ts:115` says "Atomic rotation".
- `OwnedOnce`: `runPackId` is null in the cart rows of a FREE or ONE_TIME
  listing, and the unique index takes nulls for distinct; two adds that overlap
  create two rows, and one checkout sells both.
  `agents/services/cart.service.ts:33-34` says the constraint makes the add
  idempotent.
- `CodeOpensOneSession`: two verifications that overlap open two sessions with
  one code, since both compare before either deletes.
- `ImplementsAtMostOnce`: errors are not stored, so a retry of a request that failed is
  executed again, also if its handler had committed something before it threw (`"partial"`):
  `refund` answers 422 when the wallet cannot be debited, with the gateway's refund and
  the Refund row in place (`core/payments/payments.service.ts:428-482`; the comment there
  says that row "blocks accidental retries", as it does of a full refund but not of a part), and
  `initiate` 502 with its Payment row. Nothing marks a key as being worked on, so a retry
  that overlaps the first request is executed too; a death or a Redis failure
  between the effect and the stored answer, and the expiry of the answer, allow
  a second execution. The cache is not scoped by user: who presents the key and
  the body of somebody else gets that answer (`"collide"`).
- `WindowNeverExceeded`, `RetryAfterFrees`: the time is read before the script
  runs, and routes with different limits share an address's window, so that the
  oldest entry frees no slot; `common/middleware/rate-limit.middleware.ts:31-32`
  says it does.
- `QuotaKept`: two creations that overlap exceed a maker's quota.
- `TrailFitsStatus`, `NoticeFitsStatus`: the audit row comes after the commit
  and the notification before it, so a crash loses the one and a crash or a rollback
  makes the other untrue.
- `NoRawSvg`: the sanitizer replaces each pattern once (`core/files/svg-sanitizer.ts:30-40`), so markup
  that closes around what is taken out is served as it then is (`"nested"`), if less than a tenth of the
  text is lost; `core/files/files.service.ts:109-111` says "we always serve the sanitized
  form so an in-band <script> or onclick can't ride into the browser later". The comment at
  `core/files/svg-sanitizer.ts:10-14` leaves such cases to the attachment disposition.
- `SectionsAreFresh`: a reader that computed a section before an invalidation
  stores it afterwards; a soft deletion invalidates no section at all.
- `CatalogShowsEachOnce`: the cursor of the catalog is the id of the last item
  while the order is another key (`agents/services/listings.service.ts:194-196`),
  so items are skipped and repeated; `plan/agents-module-phases-1-5.md:917`
  says "Cursor pagination works correctly". `SearchShowsEachOnce`: the substring fallback has a
  limit and no offset and repeats its items on every page.
- `LibraryOpens`: the library lists a deleted listing whose detail is 404.
- `AnswerIsReadable`: an upload whose content has a row answers with that row,
  also if it is another user's or deleted.
- `UserCanOnboard`: a death between the user's row and its role leaves an
  account that no later login repairs.
- `DeletedStaysDeleted`: `completeProfile` sets ACTIVE whatever the status was, so a
  suspended or deleted user comes back; `core/users/users.service.ts:17-18` calls
  DELETED "a terminal state". No guard and no login looks at the status.
- `TargetIsTold`: an impersonation that ends by expiry is never ended as a row,
  and its target is never told; a target id that does not exist is accepted; `dispatch`
  only logs a notice that could not be written (`"mute"`), `stop` ignores its result, and a
  second `stop` finds the row ended (`core/impersonation/impersonation.service.ts:85-107`).
- `CodesNotStored` holds although a module may override a core notification's
  channels; `CodesAgree` holds of HTTP exceptions only: what Zod and Prisma
  throw is audited as a 500 while the client sees 400, 404 or 409.
- `TextFitsPayout`: the cancel button keeps the typed text for the next row's
  dialog (`web/app/(admin)/admin/payouts/page.tsx:229, 270`).
- `ShownIsActed`: when the request after the start of an impersonation fails,
  the admin acts as the target without the banner
  (`web/app/(admin)/admin/users/[id]/page.tsx:172-181`), which
  `web/components/impersonation/impersonation-banner.tsx:80` calls the only visual cue. `NoSelfReplay`,
  `LogoutForgets`: two tabs that are restored at once present the same cookie,
  and a silent refresh under way at a logout logs the browser in again; a request
  answered late, while a page is left after a failed refresh, presents the
  cookie of that refresh again.
  `LoginIsKept`: a bootstrap that fails late undoes a login.
- `IdErrorsAreFound`: the check digit 1 stands for two remainders.

Read in the code, without a property of their own:

- The section of recent activity asks for sales and reviews of listings that are not
  deleted, whatever their status (`agents/services/listings.service.ts:486-526`), so a suspended
  listing stays in it, with its title and its slug, although its page is 404.
- The second of two payout requests of one wallet at a time may fail with a deadlock error
  although the wallet could pay both: the INSERT shares the wallet row that both then want to lock
  (`core/payouts/payouts.service.ts:52, 64`), and nothing retries.
- The refresh cookie's path is the refresh endpoint, so the browser does not
  send it to logout, and nothing is revoked (`core/auth/auth.controller.ts:107`);
  `plan/saziqo-platform-phases-1-4.md:1324` says "cookie cleared, session
  revoked". `Sessions.Logout` does what the code does.
- The API never sends the code that `web/lib/api-client.ts:3` refreshes on: an
  expired token is answered UNAUTHORIZED (`common/guards/jwt-auth.guard.ts:57-62`), so the silent
  refresh does not happen.
- The user menu's exit (`web/components/user-menu/user-menu.tsx:28-32`) posts the stop and then asks for
  the user with the ended token, which is refused (`common/guards/jwt-auth.guard.ts:75-88`): the page stays
  the target's. The toast at `users/[id]/page.tsx:177` points to that menu.
- `DELETE /users/me/sessions` revokes the caller's session too
  (`core/sessions/sessions.service.ts:240-246`); the dialog of the sessions page says
  that the present one is kept, and `plan/saziqo-platform-phases-1-4.md:1532`
  "all OTHER sessions".
- The permissions of agents name the roles `user` and `admin` as defaults
  (`agents/contract.ts:19-20`), but boot creates `super_admin` and `member` only
  (`core/rbac/bootstrap.service.ts:36, 90`), so the links are skipped and members of
  a fresh installation cannot open the library, reviews or maker pages
  (`apps/api/test/integration/agents-maker-listings.spec.ts:92-94` says so);
  `docs/operations.md:344` grants a role `admin` that nothing creates.
- Guards run before interceptors, against `docs/architecture.md:115-130`: what
  guards refuse (401, 403, 412, 429) is never audited. `docs/architecture.md:232`
  says all write endpoints accept an Idempotency-Key (some eight handlers do),
  and line 233 speaks of a limit per user, which is never active
  (`common/middleware/rate-limit.middleware.ts:116-123`).
- Two checkouts of the same listings in opposite orders may deadlock, and the
  one that is retried may deadlock or conflict again and escape, with no third
  party; `agents/services/checkout.service.ts:120-122` says a second failure
  "would indicate a genuine bug or pathological contention".
- A checkout writes purchases as COMPLETED without any ledger entry or payment.
- After a revocation by an administrator the next refresh is answered
  `SESSION_REPLAY`; `docs/operations.md:410` says `SESSION_INVALID`.
- `verifyBalance` throws `BALANCE_MISMATCH` on a race of its two statements
  with a commit; `plan/saziqo-platform-phases-8-10.md:495` says "if drift
  detected". `MismatchNeedsCommit` states what it really means.
- `refund` refuses a topup refund the wallet cannot cover, after the gateway
  has paid it back and the row exists; `docs/operations.md:394` says "the refund
  still proceeds". `markRefundCompleted` then confirms such a refund although
  its wallet debit never happened.
- A cancel that read PENDING overwrites an approval or a payment;
  `plan/saziqo-platform-phases-8-10.md:697` says it cannot.
- `web/app/(admin)/admin/payouts/page.tsx:191` says the amount is deducted on
  approval; the code holds it at the request.
- `request` of a payout validates the trimmed, upper-case IBAN and stores the
  one it was given (`core/payouts/payouts.service.ts:35`).
- The payment status EXPIRED is never set, and nothing sweeps payments whose
  callback never arrives.
- `infra/scripts`: the image names of `deploy.sh:151` are not those of
  `docker-compose.prod.yml:36, 82`; under `set -e` a failing `up -d` ends the script
  before its rollback; the quoting at `restore-drill.sh:202` makes every drill fail;
  the ERR trap of `backup.sh:206` is not inherited by its functions, so a failure
  sends no mail.

## 9. Plan

Done: every component of section 1 that has state, in the order in which money
and logins depend on them, and the proofs of section 6. What would come next:

- `MoneyFlow`: instances of `Payments`, `Refunds` and `Payouts` over
  `AtomicLedger`, with money in equal to money out plus balance.

## 10. What is not modelled, and why

- SMS, email, Redis and Prisma clients, configuration, health: I/O and wiring.
  Gateway, Redis and PostgreSQL appear as far as the code relies on them.
- JWTs and their signatures; the hashes of codes, tokens and requests; the
  redaction of audit rows; the contents of notifications and templates.
- Web pages that send one request and show its answer, and the look of all of
  them. The web application has no cart page yet; `mergeGuestCart` is a sequence
  of `addItem`.
- Run events and threshold notifications of `consume`, the view counter,
  slugs' transliteration, `reconciliationReport` and aggregates: nothing that
  is modelled depends on them.
- `clearForUser` and `removeItem` of the cart aggregator, `softDelete` of
  `UsersService`: nothing calls them.
- `infra` scripts, except what section 8 says: shell scripts run by hand or by
  cron, one at a time.
