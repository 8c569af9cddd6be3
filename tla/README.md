# A TLA+ model of the dandu backend

The repository is a NestJS backend: accounts and sessions (`src/modules/auth`), a
dashboard of stock and sales that is filled from Linnworks
(`src/modules/sku-dashboard`), and what both share (`src/common`: Redis, the e-mail
queue, guards, filters). State lives in MySQL (through Prisma), in Redis, and in BullMQ
queues. Several server processes may run at once, so what one request reads another may
change before the request's next command.

This directory holds modules that model it (`*.tla`), the configurations that TLC checks
(`*.cfg`), theorems that TLAPS proves (`*Proofs.tla`) and `PROJECT.json`, which maps every
definition to the lines it stands for. Paths below are relative to the repository, and
`auth/` stands for `src/modules/auth/application/services/`.

## The system

| Part | State | Operations | Talks to | What is hard |
|---|---|---|---|---|
| `TokenService` | Redis: a key per refresh token, the list of a user's session ids, the login lock | createSession, refreshToken, logout, logoutAllDevices, revokeAllUserTokens | user repository, Redis | lists read and written back whole; a lock with a time to live; rotation in several commands; crashes in between |
| Token version | MySQL `AuthUser.tokenVersion`; Redis copy for an hour | incrementTokenVersion (writers); `AccessTokenAuthenticator.authenticate` (readers) | both stores | read-modify-write; a read-through cache against invalidation |
| Rate limits | Redis: counter and block per e-mail and per address | checkRateLimit | Redis | increment and expiry are two commands; windows that meet |
| `LoginService` | MySQL `AuthSecurity` (failedAttempts, lockExpiresAt) | login | rate limits, repositories, TokenService | a counter from a snapshot; a reset nobody waits for |
| `RegisterService` | MySQL user, security, profile, e-mail history; Redis code | create, verifyEmail, resendVerificationEmail | unit of work, Redis, e-mail queue, TokenService | three stores, one transaction |
| E-mail queue | BullMQ jobs; MySQL e-mail history | add, process with three attempts | mail server | retries against recorded failures |
| `PasswordService` | Redis reset code and grant; MySQL password | forgotPassword, verifyPasswordResetOtp, changePassword | the same, TokenService | single use, partial failure after commit |
| `GoogleOAuthService` | Redis state parameter; MySQL user | getAuthorizationUrl, handleCallback | Google | single use, concurrent creation, linking of accounts |
| Linnworks client | session, times of the last requests | authorize, request, waitForRateLimitSlot | Linnworks | re-authorisation, slots of a rate limit, retries |
| Linnworks sync | MySQL products, stock, channels, metrics, sync log | daily job, catalogue, sales | client, repository, queue | overlapping runs, crash in the middle, replaced periods |
| Keys of the catalogue | none; decides under which keys rows are kept | rows of stock, prices and listings of an item | Linnworks, repository | names are taken for countries, channels and places; keys of two things meet |
| Dashboard queries | none; read products, stock, channels, metrics | browse, dashboard, alerts | repository | pages of one walk are queries at different times; rows of many windows and syncs |
| Product edits | MySQL product: cost, weight, dimensions | updateProduct | repository | edits of some fields overlap each other and the sync, which writes them all |
| Unit of work | MySQL transactions | execute, and the statements of repositories with and without its context | repositories, activity log | rollback, lost answers, writes outside of the transaction |
| Errors and answers | none | mapper, unit of work, exception filter | all services | what is thrown is wrapped on its way |
| CSV import, controllers, guards, metrics, logging, configuration | none of their own that decides anything | reads, wrappers | | not modelled |

For each part, what makes it correct:

- **TokenService**: no more live tokens than devices; every live token can be revoked; a token
  is exchanged for one successor; a session is taken away only when there is one too many;
  the lock excludes and does not stay.
- **Token version**: a revocation retires the tokens it is about, and for good; what the cache
  lets in by mistake is bounded in time and in cause.
- **Rate limits**: a limit is kept, and a limited subject is let in again.
- **LoginService**: the promised number of wrong passwords locks the account, as far as attempts
  do not meet; nothing but time, a success or an attempt that was under way unlocks it.
- **Registration, password, OAuth**: codes, grants and states are used once; an account is
  created once and stays what it is; whoever came in with an older password is out after a
  change.
- **E-mail**: the history calls sent only what was sent; the row of a job that ended is not left
  pending; a retry sends again only where an attempt broke after the sending.
- **Unit of work**: what it writes takes effect in one step or not at all.
- **Linnworks**: no minute has more requests than the limit, and every call ends; the log of a
  sync tells how it ended; its metrics count each order once, and a row of the catalogue is
  one row of the database; after a sync every level and price of an item is in a row of its own.
- **Product edits**: what was typed in gives way to a sync or to a later edit of the same field
  only.
- **Dashboard**: a walk through the pages shows each product once while a sync writes; a report
  is as near to the sales as its rows allow.
- **Errors**: a request is answered with the status of what went wrong.

`PROJECT.json` lists the places where these can go wrong ("hazards"), each with the
properties that watch it, or why none does.

## The modules

**Redis** says what a caller of `RedisService` sees of `get`, `set` and `del`: the value, or,
if errors are switched on (`RedisMayFail`), null for a read and an unnoticed failure for a
write. Every module over Redis uses it.

**TokenVersion** models one user's version. A *writer* is a run of `incrementTokenVersion`
(`auth/token.service.ts:254-265`) in its three awaited parts: `ReadVersion`, `WriteVersion`,
`ClearCache`; it may die between them (`AbandonIncrement`). A *checker* is a request behind
`AuthGuard` (`auth/access-token-authenticator.service.ts:31-89`): `Present`, `LookupCache`,
`ReadDatabase`, `FillCache`. `CacheExpires` is the time to live of 3600 s, `Deactivate` an
operator who blocks the user in the database (no code of the repository does it).

**TokenService** models one user's sessions (`auth/token.service.ts:26-296`). A request `r`
walks through the steps of its operation; a step is what it does up to the answer of its
next awaited command, and its local variables are fields of `req[r]`:

| operation | steps |
|---|---|
| createSession | `lock`, `store`, `addRead`, `addWrite`, `maxRead`, `evict`*, `unlock` |
| refreshToken | `lookup`, `findUser`, `store`, `addRead`, `addWrite`, `rotate`, or the revocation below and a refusal |
| logout | `forget`, `dropRead`, `dropWrite` |
| revokeAllUserTokens | `revRead`, `revoke`*, `increment` (TokenVersion's three parts) |

`refreshKeys`, `sessions` and `loginLock` are the three kinds of Redis keys. `delivered`
and `issued` are history: the refresh tokens and the versions of the access tokens that
clients hold. TokenVersion is composed by `INSTANCE` with the requests as its writers; its
clients appear as `Authenticate`. A jti is named by the number of the request that makes
it. Left out: the expiry of refresh tokens (7 days) and of the list, and the comparison of
the stored hash, which cannot fail for a token that verifies and whose key exists.

**RefreshSessions** is the abstract specification: tokens that are live and tokens that are
past; a step issues one below the limit, exchanges one for one, or ends one.
`TokenService!KeepsSessions` is that specification under the mapping
`live = delivered \cap refreshKeys`, `past = delivered \ refreshKeys`: what clients hold and
the store accepts.

**RateLimiter** models `checkRateLimit` (`auth/auth-utils.service.ts:177-214`) command by
command: `LookForBlock`, `Increment`, `SetExpiry`, `Block`. Time is a `Tick` that may fall
between any two commands; keys hold the ticks they have left. The process of a call may die
between any two commands (`Abandon`), and with `RedisMayFail` a command may not be answered,
done or not. `recent` and `unarmed` are history: calls the counter admitted, by age, and the
keys whose counter never got its time to live.

**LoginService** models `login` (`auth/login.service.ts:26-243`) for one account: the rate
limits (RateLimiter by `INSTANCE`, one call per attempt and key), the snapshot of user and
AuthSecurity (`FindUser`), the comparison and its write (`WrongPassword`), or
`RightPassword`, `OpenSession` and the reset that nobody waits for (`ResetFailedAttempts`).
Attempts overlap and die (`Die`) at any step. History: `misses`, the wrong passwords since the
last success; `met`, whether two attempts were past the limits together since then; `early`,
those that were when the lock was set.

**Access** is TokenVersion and LoginService side by side, the two ways in; `way` says which of
them a behaviour is about.

**EmailQueue** models the e-mails of one account: rows of `EmailHistory`, jobs of BullMQ
and `EmailProcessor` (`src/common/queues/email/email.processor.ts`). `Process` sends or
fails to, `MarkSent` and `MarkFailed` write what became of it; they write *all* pending rows
of the account and type, not the row of the job. `Templates` says for which types
`templates/emails` (read at `src/common/services/email.service.ts:83`) has a file. Jobs wait in no
order and for any time, and several `Workers` have one each in hand. What goes wrong (`Trouble`):
the mail server refuses, an update of the history is not answered, made or not (`SentRejected`,
`FailedRejected`), or the worker dies (`Die`) and BullMQ gives the stalled job to another one,
once. `log` is history: of each e-mail the copies the server took, the attempts that broke after
that, and whether one came to the end of a write.

**Errors** is what becomes of an exception: `toDomainException` and `mapKnownError`
(`prisma-error.mapper.ts`), `WrappedByTransaction` (the `catch` of `PrismaUnitOfWork.execute`)
and `StatusOf` (`AllExceptionsFilter`). An error is its class and its category. The requests of
AccountStore end at "ok" or at the status they are answered with (`Fail`), so that every
refusal of the services says which exception it throws.

**AccountStore** holds what the operations on one e-mail address share: its `AuthUser` row
(`user`), the sessions of its owner, the e-mails (`Mails == INSTANCE EmailQueue`, one e-mail
per request), and `req`, the course of each request. Requests are numbered as they arrive,
and what a request makes - code, grant, state, password, session - bears its number. Three
modules extend it, each with its own keys in Redis:

| module | operation | steps |
|---|---|---|
| **RegisterService** | create | `find`, `save` (with the row of the history), `setCode`, `queue`, (`markFailed`) |
| | verifyEmail | `getCode`, `findUser`, `setVerified`, `delCode`, `welcome`, `session` |
| | resendVerificationEmail | `find`, `setCode`, `record`, `queue`, (`markFailed`) |
| **PasswordService** | forgotPassword | `find`, `setCode`, `record`, `queue`, (`markFailed`) |
| | verifyPasswordResetOtp | `getCode`, `findUser`, `setGrant`, `delCode` |
| | changePassword | `getGrant`, `findUser` or `compare`, `update`, `revoke`, `delGrant`, `reload`, `session` |
| **GoogleOAuthService** | getAuthorizationUrl | `setState` |
| | handleCallback | `getState`, `delState`, `exchange`, `findProvider`, `find`, `save`, `session` |

A transaction is one step, and so are createSession and revokeAllUserTokens, whose parts
TokenService has. A client knows a code only from an e-mail that the server sent
(`CodesMailed`). `lower` says whether the address was typed without capital letters, which
decides whether the grant finds the row (`password.service.ts:302`). The Redis key of a
verification code has the address as it was typed (`register.service.ts:189`, `275`, `413`): here
all requests spell it alike. MySQL compares addresses
without regard to case and `register.service.ts:93` with, so `FindExisting` may let a
registration of a used address pass, which the unique key then refuses (`MaySave`, `NotSaved`).

**Accounts** composes them with logins (LoginService without its limits) and the worker of
the e-mail queue, so that every operation on the address meets every other over one row. An
*accident* - a crash or a query that rejects, a refused job, any trouble with an e-mail, a block,
a key that expires - may happen between any two steps. `Workloads` says which operations meet in
a behaviour, how many requests, how many at once, and how much goes wrong. `KeepsMails` says that
all of it uses the queue as EmailQueue expects; proved, it carries EmailQueue's theorems here.

**LinnworksClient** models the calls of one process (`linnworks-client.ts:121-304`): `authorize`,
its rate-limit slot (`authNap` while it sleeps) and its request (`authFetch`), then `slot`,
`nap`, `fetch` and `backoff` of the loop. `stamps` are the ages of `requestTimestamps`,
`session` the ticks until `expiresAt`; both are shared by the calls, and `Tick` ages them.
The answers of Linnworks are arbitrary; which statuses the code treats alike follows from
where it throws: an error that should not be retried is thrown inside the `try` whose `catch`
retries it, so all failures are `RequestFailed`. The delay between attempts is any time.
`sent` is history: the requests of the last minute.

**LinnworksSync** models runs of `RunLinnworksDailySyncService.execute` for one product. A run
walks through `createLog`, `stock`, `channels`, `products`, then `find` and `write` for each row
of the catalogue, `search` for each page of orders, `items`, `delete` and `insert` for each
metric, and `succeed` or, from the `catch`, `fail`. Every call may throw, or its process die,
before or after what it writes (`MishapOf`). `Rows` are the rows of stock and listings, with
whether a unique key of the schema holds for them: MySQL keeps no keys with a null
(`warehouse`, `asin`, `listingId`). `table` holds for each the quantities of the rows of the
database that have its key; `quantity` counts the changes of the stock at Linnworks, so an
older stock is a smaller number; `met` is history, the pairs of runs that were at work at the same
time. Orders differ in when they were processed, which decides the
search, the page and the windows that have them. Left out: names, prices, dimensions,
channels, the types inferred from names, batches of ids, the cap of 1000 pages.

**SkuBrowse** models a client that walks through `GET /sku-dashboard/browse` while a sync writes.
A page (`browseSkus`) is one query: the first 1000 products of the channel (`Where`, `Take`), of
them those with the state of stock asked for (`HasStatus`), of them the page after the cursor
(`Rest`, `Page`), and the next cursor. `UpsertProduct`, `UpsertStock` and `UpsertChannel` are what
a sync does to these tables. `walk` is the client, with what it was shown.

**SalesReports** models what dashboard and alerts read: a `Sync` leaves rows for each window that
has orders, which end when it begins (`Aggregated`) and are never replaced by later ones, since
their ends differ; `salesVelocity` sums the rows within a period, `InventoryAlert` those that
ended within 30 days. `synced` and `syncs` are history: the orders a sync has found, and when. Orders of one product in one channel are enough: no row mixes two.

**ProductDetails** models the fields of one product that both people and the sync write: an edit
(`UpdateProductService.execute`) finds the product and updates the fields it was given, a sync
(`upsertProducts`) finds and then creates or updates it with all of them. `before` and `overrun`
are history: the edits that were answered before an edit arrived, and whether a sync wrote since.

**Catalogue** is what `SyncLinnworksCatalogService` makes of an item: `inferCountry`,
`toSalesChannel`, `inferLocationType` and `||` decide the keys (`StockKey`, `PriceKey`,
`ListingKey`) under which `Upsert` keeps its levels, prices and listings. A text is a name with
the marks that the service looks for in it; names that differ in case only are one name, as they
are for the marks and for MySQL. `SyncCatalogue` is a whole sync of the item in one
step; `ItemChanges` is Linnworks, where anything but the product may become different, the
spelling of its SKU included.

**AtomicWrites** is the abstract specification of a unit of work: its writes take effect in one
step or not at all. **UnitOfWork** is `PrismaUnitOfWork.execute` with the statements that the
services send in it, in their order (`RegisterWrites`, `GoogleWrites`, ...), and statements of
other requests in between (`failedLogin`, `revoke`, `updateProfile`). A statement waits for rows
that another transaction has changed; `WithContext` says whether the repository was given the
transaction's client. `UnitOfWork!WritesAreWhole` is AtomicWrites, of which AccountStore takes
that a transaction is one step.

**Backend** puts Linnworks' client and sync, the dashboard and the unit of work side by side. The
sync sees of the client that a call is answered or throws, and the client nothing of the sync;
SkuBrowse, SalesReports, ProductDetails and Catalogue each know of a sync what their tables show
of it. `part` says which of them a behaviour is about; the product of all would add states and
show nothing more.

**MC...** modules give sets to the constants; **...Proofs** modules hold the theorems.
Definitions called `Mut_...` are mistakes a change of the code could make; each stands
before the definition it would replace, and a property is worth keeping only if such a
mistake breaks it.

## The runs

| run | instance | shows |
|---|---|---|
| `access` | by a token: 2 writers, 2 checkers; by a password: 2 attempts at a time on any kind of account, limits of 2 per 2 ticks, a lock of 2 ticks after 2 misses; crashes and Redis errors; fairness of the checks | `CacheCoherent`: a stale copy needs an owed `del` or an out-of-date fill (`CacheHitIsCurrent`, what that means for a hit, is proved from it). `FirstRevocationIsForever`, `RevocationRetires`: two revocations do not undo each other. `EventuallyCoherent`, `InactiveLosesCache`: the hour ends every mistake. `LockoutWhenAlone`, `StandingLockStays`: the lock, and who can lift it. `CountersExpire`, `BurstBounded` |
| `sessions` | 3 requests of any kind one at a time with a block and a checker, or 4 logins, up to 3 at a time; 2 initial sessions of at most 2; crashes, fairness | `NoOrphans`, `RevokedAll`, `RevocationOutdatesAccess`, and the refinement `KeepsSessions`, with deaths after any command; where logins race, `LockOwned`, and by it the same, with `LoginsEvictOnlySurplus`; `LockFreed` |
| `accounts` | up to 4 requests, 2 at a time in almost any pair, on an address that is free or has a user; 2 workers; up to 2 mishaps | `OneCodeOneGrant`, `OneGrantOneChange`, `OldPasswordsLoseAccess`, `VerifiedOnce`, `StateUsedOnce`, `AccountNotReplaced`, `SessionsNeedVerification`; the e-mails and their history (`SentMeansSent`, `SentOnce`, `NoRowLeftPending`) and the refinement `KeepsMails` |
| `backend` | 2 calls, 2 requests per 2 ticks, a session of 3 ticks, one retry; 2 syncs that overlap in any way, 2 rows, 2 orders, one change of the stock, one mishap; a walk through up to 4 products in pages of 1, 3 writes; 6 days with orders and syncs; 3 edits and 2 syncs of 2 fields; 72 forms of an item and one change; 3 units of work and 2 mishaps | `RateKept`, `CallsEnd`; `LogTellsOutcome`, `MetricsComplete`, `OneRowPerPlace`, `StockMovesForward`; `WalkShowsAll`; `ReportsCountSales`; `EditsSurvive`; `CatalogueShown`; `WritesAreWhole`, the refinement of AtomicWrites |
| `refresh_once` | 2 refreshes | violation of `OneSuccessor`: both refreshes of one token succeed |
| `orphans` | a refresh and a login | violation of `NoOrphans`: the list loses a live token |
| `evict` | 4 logins and refreshes one at a time, limit 3 | violation of `EvictOnlySurplus`: entries of exchanged tokens fill the list, and an idle device is thrown out below the limit |
| `three_revocations` | 3 writers | violation of `RevocationRetires`: a slow writer restores a retired version |
| `lockout_race` | 2 attempts compared at once | violation of `LockoutAfterMaxFailures`: two misses count as one |
| `burst_window` | one attempt after the other, 2 per window | violation of `AtMostMaxPerWindow`: 3 calls in the time of one window, the last of one counter and the first two of the next |
| `state_reuse` | an authorisation and 2 callbacks with its state | violation of `StateIsSingleUse`: both find the state before either deletes it |
| `duplicate_conflict` | 2 registrations of an address that is free or used | violation of `ConflictAnswered`: what the unique key refuses is answered with 500, because the unit of work wraps the exception (`prisma-unit-of-work.ts:62`) |

The eight violations are disagreements between the code and what the repository says of it;
`PROJECT.json` ("findings") quotes both sides.

**Bounds.** The hazards need few actors: two requests that overlap between a read and its
write, a third that comes after; a list one longer than the limit; a crash in the middle
and a request that meets what it left. Three serial requests allow login, exchange and
revocation in any order from a full list; four logins, up to three at a
time, allow a death with the lock held, an eviction, and a login after each. Two sessions at most (`MaxDevices = 2`) make eviction
happen at once, and the initial sessions are the oldest entries. In `access` two wrong passwords
lock, for two ticks, and two attempts are counted in a window of two: attempts come before and
after the end of each, and overlap at every step. Counters stop one or two above their limit,
where all values act alike. TokenService's requests come one at a time, or are logins: refreshes
that overlap others do not survive (`orphans`, `refresh_once`), and `NoOrphans`, `RevokedAll` and
`KeepsSessions` are the promise for clients that wait. A holder that is slower than the lock
(`"slow"`) is in no instance.

**What meets what in `accounts`.** `Encounters` are the sets of operations that can affect
each other: registration with verification and login, a resend with a verification,
registration with Google sign-in, logins with a change of the password, and with the whole
of a reset. Three requests, two at a time, with a mishap; four and none; or four one after the
other with a mishap, which is the longest history with a meaning (forgot, verify, reset, and one
that uses the same code, grant or old password again). Two mishaps over one e-mail allow a death
and a second one of the retry. `Apart` are the pairs that do not overlap in the instance:

- `Unrelated`: pairs that share nothing their steps could disturb, or whose meeting would only
  add states (logins and authorization URLs with anything but a change; a code asked for while
  another is; the exchange of a code with the use of a grant; two resends).
- `Racing`: two verifications of one address. Both may pass line 311 before either writes, and
  then both succeed; `VerifiedOnce` is the promise for verifications that do not overlap.

Callbacks with one state, checks of one code, resets with one grant, and logins with changes *do*
overlap. What is to be used once is then used by every request that has seen it before it was
deleted: `state_reuse` shows that of a state, where a comment calls it single-use. What the
properties of the passing run say is what holds all the same, of whom it holds: once a request
was *answered*, what it has used is of no use to one that arrives later (`after` is what a
request arrived after), and whatever was there when it was asked for is gone. A request that
dies in between is not answered and promises nothing: it leaves its code, its grant, or the
sessions of the old password, and its client may try again.

Two attempts per job (three in the code) are enough for one that fails and one that does not;
the theorems are for any number. All three templates are taken to be installed: the repository
has no `password-reset.html`, with which no code would arrive and half of PasswordService would
be out of reach.

**One key in the instances of LoginService.** Every attempt comes from an address of its own, so
only the limit of the e-mail is reached; the module takes any set of keys per attempt.

**Scales in `backend`.** The year of 365 days, searches of 90 and windows of 7, 30, 90 and
365 become 7 ticks, 3, and 1 and 7: a last search that is shorter than the others, a window
inside a search and one that is the year. Pages hold one order, so that two orders have two
pages. The orders lie on both sides of the end of a search, together in one, or at the two ends of the year
(`OrderTimes`). One row has a key that the database keeps unique and one has not. Two runs
overlap at every step, or follow each other after a failure or a death. `OneRowPerPlace`
says that only runs that have met leave a row twice, and `StockMovesForward` that only two that
have met leave the older of the quantities they read: each writes what it has read at its
beginning and looks at nothing, and the next sync puts it right. On the client's side two calls
and a limit of two make a call sleep, wake and find the slot taken by the other, with the
session expiring meanwhile (`Ttl`, `Margin`). The walk has pages of one, a query that returns
three products at most while a fourth may come, and stock on both sides of 0 and 50; it starts
with no product, with all, or with one missing in the middle. The windows of 7, 30, 90 and 365
days become 1, 2 and 5 of 6 days, with 2 in the place of the 30 that the alerts look back.
`WalkShowsAll` excepts walks that ask for a state of the stock while one changes: there the
product of the cursor may leave the filter, and `findIndex` starts the walk again
(`prisma-sku-dashboard.repository.ts:86`). `ReportsCountSales` bounds what reports say
from both sides. A product called dead has had no sale in the 30 days; one that is not called so
has had a sale within 30 days *or the longest window* before (`Found(today - AlertDays - d)`): the
rows of 365 days end today, and a sale of last year keeps a product off the list, whose entries
say "no synced sales in 30 days" (`prisma-sku-dashboard.repository.ts:222`). A dashboard shows no
less than each window within its period, nothing of other days, and an order at most once for
each of its rows; it adds up the windows of several lengths and syncs, and that of 7 days never
has the newest row (line 107).
Two edits that overlap and a third that comes after either, with two fields, are all that
`EditsSurvive` tells apart. The items (`SomeItems`) have texts with two marks, places without a
name or a tag, two prices with one SubSource, and listings with and without a SKU and an ASIN,
so that keys meet in each of the ways they can; `CatalogueShown` excepts those the code lets
meet: levels of places with one name, prices with one SubSource, a listing that goes by the
SubSource of a price, and a SKU that was respelled (`prisma-sku-dashboard.repository.ts:277`
compares the spelling, MySQL does not). Three units of work allow one that creates the account,
and two that write over it at once.

**Deadlock** is not checked: a user without requests in flight does nothing, and requests,
calls, runs and units are finite in number in TokenService, Accounts and Backend.

**Fairness.** Weak fairness on the steps of a request that has started: Node resumes a
handler when its awaited command is answered, and the clients of MySQL and Redis answer or
fail. Weak fairness on the expiry of keys: Redis drops a key whose time is over. None on
arrivals, crashes, errors or the blocking of a user. For the calls of LinnworksClient, weak
fairness on the steps of a call that was made - `fetch` is aborted after a time-out, and
`setTimeout` fires - and on time itself.

## The proofs

TLAPS proves, for every value of the constants:

- `TokenVersionProofs`: `TypeCorrect`; `CacheStaysCoherent`, by an invariant that also says
  that a check about to fill has read a version the row had; `CacheHitsAreCurrent`, the
  action property, from it; `FirstRevocationHolds`, whose strengthening bounds every version
  a writer has read from below; `TwoIncrementsAreSafe`, `RevocationRetires` for at most two
  writers, which is as far as it holds (run `three_revocations`). Its invariant compares
  what a pending writer has read with what a finished one had.
- `TokenServiceProofs`: `TypeCorrect`, with lemmas on what each operation does to the lists
  (appending, cutting at the surplus, dropping an entry) and to the record of a request;
  `LockIsOwned`: the login lock excludes, for any number of requests, crashes and Redis
  errors, if `"slow"` happens in no workload: no live holder outlasts the 5 s.
  The invariant adds what a request's step tells about its operation: only a login reaches
  the steps under the lock, because refreshToken shares `store`, `addRead` and `addWrite`
  without it.

  Four theorems more hold while one request at a time is at work on the sessions, which
  `OneByOne` assumes of every workload: its requests do not overlap, or they are logins, and
  the lock holds. They are `ListHoldsAll` (`NoOrphans`), `RevocationEndsAll` (`RevokedAll`) and
  `SessionsAreKept`, the refinement `KeepsSessions` step by step, if Redis answers; and
  `AccessIsOutdated` (`RevocationOutdatesAccess`). `OnlySurplusGoes`
  (`LoginsEvictOnlySurplus`) is of every workload, but says something as long as there have been
  logins only. `SessInv` says, by the step of the request at work,
  how keys, list and clients stand to each other (`Course`): before `store` nobody has the new
  token, at `addWrite` the list that was read is still the list, at `evict` the surplus is what
  `todo` holds. A crash may leave a list that is longer than the keys, never a key
  outside of it. `AgeInv` says that the list has no token twice and the dead ones in front, so
  that enforceSessionLimit, which cuts at the front, takes what a crash has left before it takes
  from a device. `VersionInv` says that an increment that has written is above every version
  issued. The assumptions are needed: in the run `orphans` a login and a refresh overlap and a
  live token leaves the list, and in `evict` refreshes, one after the other, put a live token in
  front of a dead one.

- `LoginServiceProofs`: `TypeCorrect`; `CountersDoExpire`, for any keys, limits and number of
  calls, with deaths and errors of Redis: a counter without a time to live has a call at `arm`,
  which the `INCR` that created it put there, or that call died or was not answered there, and
  then nothing ever expires it (`unarmed`);
  `BurstsAreBounded` (`BurstBounded`), on the same terms. Its
  invariant `BurstInv` says what a counter tells of the history of its key (`Windows`): what was
  admitted after it got its time to live it has counted, and all that was admitted lately is
  less than that and the limit together, because the first call of the counter before was
  admitted longer ago than a window when that counter expired.
  `LockoutHolds` (`LockoutWhenAlone`) and `LocksStand` (`StandingLockStays`), for any number of
  attempts that overlap and die. `AloneInv`: until two attempts have been inside together (`met`),
  history, counter and lock agree, one attempt at most is inside, the count it read is still the
  row's, and nobody is inside while a lock stands. `EarlyInv`: whoever is inside while a lock
  stands was inside when it was set (`early`), so nobody else can lift it. Where attempts have met
  misses are lost, as `lockout_race` shows.

- `EmailQueueProofs`, for any number of e-mails, attempts, workers and templates, workers that die
  and a database that does not answer: `TypeCorrect`, which bounds the attempts of a job;
  `SentIsSent`, whose invariant adds that a job about to write "sent" has been sent and that a sent
  e-mail keeps its job, hence its type; `NoRowIsLeft`: a row is not pending once an attempt of its
  job has come to the end of a write. Its invariant says that a job and its row are of one type
  (`RowOfJob`), so that what the job writes it writes over its own row as well. Which status a row
  then has is not claimed: a job may write "failed" over the row of another. `CopiesAreOwed`
  (`SentOnce`): every copy of an e-mail but one answers for an attempt that broke after the server
  had taken the e-mail, by a death or an update of the history that failed (`OnceInv`).
- `AccountsProofs`: `TypeCorrect`, and `MailsAreKept`, the refinement `KeepsMails` step by
  step, for any number of requests that overlap in any way, any crashes and errors. The
  invariant says what the step of a request tells about its e-mail: no row and no job before
  `record` (`save` in create), a row of its type and no job at `queue` and `markFailed`; and
  that a request about to write the user has found one. `FailGoes` says that whatever is thrown
  ends the request at a status. From it `SentIsSent`, `NoRowIsLeft` and `CopiesAreOwed` hold of
  the services, by the theorems on EmailQueue with
  `Mail <- Request`. `AccountsStand` is the action property
  `AccountNotReplaced`, by `WhoWritesUser`, which says what each step may do to the row.
  `SessionsAreVerified` is `SessionsNeedVerification`; its invariant says
  that the row is verified once a login, a verification or a callback is past its check, which
  no step undoes; a change of the password (`password.service.ts:275`) does not look.

  `StatesAreSpent`, `GrantsAreSpent` and `CodesAreSpent` let everything overlap, and are about what
  an answer promises: who comes after a request that was answered does not succeed with its
  ticket. Requests that overlap, and those that follow one that died before its `DEL`, may: the
  code looks and deletes in two commands, as `state_reuse` shows. The invariant is `Spent`: the
  ticket of a request past its `DEL` is live no more, and one past its look came after none that
  was answered for the same ticket; `Behind` adds that those whom a request came after stay
  answered, and `PastEntry`, for the grants, that who set the password has looked at its grant.
  They assume that Redis answers, since a `DEL` that fails leaves the ticket live.
  `VerifiesOnce` needs no Redis, for the row says that it is verified (`OnceInv`), but assumes that
  no two verifications overlap: of two that do, both may find the row unverified.
  `OldPasswordsAreOut` assumes nothing. `AccessInv` says that past
  `revokeAllUserTokens` no session is left of those that were answered before the change was asked for;
  and that who has compared a password and came after the request that set the row's has compared
  that one. A session of a login that overlaps the change is not covered, nor is a change that died
  before the revocation: it has not been answered.

- `LinnworksSyncProofs`: `TypeCorrect`, with the rows that are in the table; `LogTells`, whose
  invariant says at each step of a run what its log may hold; `OneRowEach` and
  `StockGoesForward`, for any number of runs, rows, mishaps and changes, in any overlap. A run
  that has met none is alone while it is at work, so what `find` saw is still so at `write`.
  `AgeInv` says that of two runs that have not met the earlier had ended when the later began, and
  has read no newer stock, and that each quantity in a row was read by some run: if an older one
  takes the place of a newer, the two runs that have read them have met.
  `EveryOrderCounts` is `MetricsComplete` for any orders, pages and overlapping runs. Its
  invariant follows the searches: what has been collected is every order before the current
  page, once; and the metrics: those of a run that has gone past one are there. It assumes
  `NotWholeSearches`, that the year is not made of whole searches, as 365 is not of 90: otherwise
  the last search ends a millisecond early and misses an order at the end.
- `BackendProofs`, on the other parts of Backend, each of which the others leave alone:
  - `EditsDoSurvive`, whose invariant adds that the edits that were over when one arrived are over
    now.
  - `RateIsNotExceeded`, whose invariant says that the requests of the last minute (`sent`) are the
    end of `stamps`, the array the code prunes from the front, so that a full minute is seen as
    full.
  - `CallsDoNotCircle`: `FromEnd` measures how far a call is from its end. No step of anybody makes
    it longer, and each step of the call makes it shorter, unless it wakes up to a full minute
    (`SleepsOn`). An attempt refreshes the session once at most (`RefreshInv`), so rejected sessions
    do not keep it. What `CallsEnd` needs besides is fairness, and that the minute goes by.
  - `WalkDoesShowAll`, whose invariant says that what matches up to the cursor was shown, once, and
    nothing behind it. A page is the lowest of the rest, so the next starts where it ends; a sync
    only adds to what matches, as long as nobody asks for a state of the stock.
  - `ReportsDoCount` (`ReportsCountSales`), for any days, sales, syncs and windows. `ReportsInv`
    says that each row is what one sync has counted in one window, and that each window of a sync
    in which something was sold has its row; what falls into the window never changes afterwards,
    because new orders are of today and a sync looks at days that are over. So sums over rows are
    bounded by sales from below and, once for each row an order is in, from above.
  - `SyncsAreShown` (`CatalogueShown`), for any items, however long: `Upsert` is a fold over the rows
    of an item, and what it leaves under the key of a row is a row with that key
    (`UpsertShows`, by induction on the rows). `Items` is assumed to hold items only.
  - `UnitsAreWhole`, that UnitOfWork implements AtomicWrites for any number of units and mishaps: an
    execution is a stutter in a transaction and an `Apply` outside of one, and a commit writes all
    that its unit has to write, because the statements that were executed are then all of them. The
    invariant says that one unit at most is creating, which holds because its pending insert locks
    the row, and that there is no account while it does.
  - `PartsAreTyped`, the type invariant of all parts together: a call that backs off has an attempt
    left (`CallsInv`), an edit that is about to be written has found its row (`RowsInv`).
  - `SyncsHoldInBackend` carries the theorems of `LinnworksSyncProofs` over to Backend.
- `FoldTheorems`: sums and folds over finite sets. The library's induction theorems take an operator
  that no prover can instantiate; here induction comes from the well-foundedness of `<` on the
  naturals (`WFMin`) and takes the *set* of what satisfies the hypothesis (`InductionOnNat`,
  `InductionOnSubsets`). The folds of the community modules are the function that `CHOOSE` picks
  among those that satisfy their equation: there is one (`FoldExists`, `SumExists`), and a sum does
  not depend on the order (`SumOfRest`). `BurstsAreBounded`, `ReportsDoCount` and `SyncsAreShown`
  rest on it.

The type invariants of TokenVersion, TokenService, LoginService and Accounts are proved and no
longer part of a run; that of Backend is proved and checked.

The assumptions are the named `ASSUME`s of the modules: naturals where the code has counts, a
null that is not a version, at least one device, items that are items.

**Only model-checked** is what ends, which takes fairness and is out of the prover's reach:
`EventuallyCoherent`, `InactiveLosesCache`, `LockFreed` and `CallsEnd`. `OneSuccessor`,
`AtMostMaxPerWindow`, `StateIsSingleUse`, `ConflictAnswered` and the other properties of the
runs that expect a violation are false where those runs look at them; `NoOrphans` and
`RevocationRetires` are theorems on the terms given above.

## Not modelled

Signatures, hashing and random numbers are trusted: a token that verifies was issued, ids do
not repeat. Wording, headers, cookies, Swagger and logging carry no state. Rows of the login
history and of the activity log are written and never read; that the latter are written in the
transaction of what they report is part of UnitOfWork. `logUpdate` and `logDelete` of the log are
never called. Rate limiting is taken to be
enabled. Metrics, configuration and start-up are left out; the throttler's state is a
library's. The CSV import parses an upload and stores nothing. Of the
dashboard, the search for a text, the
distribution of the stock, the revenue by month, and how many alerts are shown are left out.
`active` is false of a user who is blocked or suspended: no code of the repository makes one
inactive or deleted, whom login lets in and `AuthGuard` does not.

Two things that one request does alone are left as remarks. The grant of a reset holds the
address in lower case, as it was asked for, and the user the spelling of the registration: who
registered with a capital letter is refused (`password.service.ts:302`; `lower` is there for it).
And `PATCH` of the profile writes null over the fields that the body leaves out
(`auth.controller.ts:526`).

RegisterService, PasswordService and GoogleOAuthService ask the same rate limits as login
before their first step; RateLimiter stands for them and Accounts leaves them out, with the
profile and the security row that nothing reads here. Google is one call that answers with
the profile of the address or rejects. `revokeGoogleToken` only calls Google.

## The plan

What was planned is modelled, and every safety property of the passing runs is a theorem. What may
be added:

1. The CSV import, when it stores something: today it counts the rows of an upload and imports
   none of them (`import-report.service.ts:22`).
2. Larger instances of `accounts`, with two addresses at once.
