# Verification of api-user

TLA+ models, TLC runs and TLAPS proofs about the protocols of the `api-user`
service (NestJS, Mongoose on MongoDB, ioredis). Code paths are relative to the
application directory (`auth/...` is `src/src/auth/...` of the checkout); paths
that start with `openspec/` or `odd/` are the documents beside it.

The unit tests call one handler at a time against mocked stores. What they do
not reach is what these models are about: handlers that interleave at their
`await`s, processes that share Redis, requests that die half way, transactions
that are not available, caches that hold yesterday's value, and clocks that are
read in milliseconds but compared in seconds.

## 1. Inventory

One Node process, or several behind a balancer, serves HTTP. Inside a process
handlers interleave at every `await`; between processes they interleave at every
store operation. MongoDB holds everything durable (users, roles, permissions,
audit entries, e-mail log, templates, translations). Redis holds the denylist of
refresh tokens, cached users and roles and parameters; throttle counters are in
the memory of each process.
Components notify each other through an in-process `EventEmitter2`: e-mails,
audit entries and cache invalidations are fire-and-forget listeners.

| component | state it keeps | operations | hard because |
|---|---|---|---|
| authentication (`auth/auth.service.ts`) | password, epoch, lockout, reset and verification tokens in the user document | register, login, refresh, logout, logout-all, forgot and reset password, verify e-mail | every handler decides on a document it read before an `await` |
| session revocation (`session/`) | Redis `revoked:refresh:<jti>` with a TTL; `sessionEpoch` in the user | `revokeJti`, `isJtiRevoked`, `bumpSessionEpoch` | two stores, two clocks, fail-closed |
| transactions (`common/utils/transaction.ts`) | none | `runInTransaction` | silently becomes several separate writes |
| e-mail change (`user/service`, `auth`) | code hash, expiry, attempts and last send; pending address; previous address and revert token | request a code, request the change, confirm, revert | four requests, three deadlines, other accounts competing for addresses |
| users (`user/`) | user documents | create, update, soft delete, toggle active, unlock, change password, lists, CSV, metrics | read-modify-write and check-then-insert |
| parameters (`config/parameters`) | L1 map per process, Redis `param:<key>`, environment | get, set, admin update, warm-up | two cache layers, several processes, Redis outages |
| throttling (`config/throttle`) | limits copied at the start | guard | stale after an update |
| roles and permissions (`rbac/`) | role and permission documents | create, update, delete, set permissions, seed | references by name from users, cached |
| user and role cache (`config/cache`) | Redis `cache:user:<id>`, `cache:rbac:*` | cache-aside reads, pattern invalidation by event | a fill may overtake an invalidation |
| e-mail (`email/`) | e-mail log, templates | queue, send, record; template resolution | nothing retries a send that was lost |
| audit (`common/audit`) | append-only log | interceptors, listener | best effort |
| translations, errors, validation, password rules, CSV, pagination | none, or read-mostly | pure mappings | boundary values |
| seeds, configuration, health, application | none after the start | start-up | wiring |

What makes each of the modelled components correct:

* sessions: a refresh token is exchanged only if it was not logged out, is not
  older than the last revocation, and goes back to the password in force;
* lockout: an account is locked only after consecutive failures that happened;
* e-mail change: one code, one change, a bounded number of guesses, as far as
  requests do not judge one code at once; a usable
  session always shows the current address; an undone change stays undone;
* parameters: no process serves a value for longer than the life of an entry
  after it stopped being the current one, overrides of the environment included;
* authorisation: what a request may do was decided on documents that MongoDB held
  at most the life of a cache entry ago, and by guards that judged one account;
* accounts: unique addresses and user names; a token in an account is one its
  owner was mailed; nobody is left who can neither log in nor be verified;
* mail: the log tells the truth, and the application's own mails have a text;
* audit: entries are true, and complete as far as clients stay and handlers return;
* lists: what a walk over pages misses or repeats is bounded by what happened.

## 2. Modules

| module | what it is |
|---|---|
| `SessionRegistry` | what an account is promised about its sessions |
| `AuthSessions` | login, lockout, refresh, logout, logout-all, password changes, Redis denylist; implements `SessionRegistry` |
| `EmailChange` | the change of address from the code to the revert, and the sessions it closes |
| `ParameterStore` | one parameter in L1 caches, Redis and the environment |
| `AccessRules` | users, roles, cache keys and their lives, effective permissions |
| `BoundedAccess` | what the caches promise: decisions on documents at most a life old |
| `AccessCache` | authorisation and administration of users, roles and permissions through the caches; implements `BoundedAccess` |
| `UserLifecycle` | registration, creation, verification, update, toggle and deletion of accounts |
| `EmailPipeline` | listener, templates, seeds, log and delivery of mails |
| `Routes` | every endpoint with its guards, permissions, roles and audit action |
| `RequestPipeline` | throttler, guards, interceptors, filter and audit listener around a handler |
| `AdminLists` | paged and sliced lists, the export's rows, the metrics of users |
| `MC...` | an instance of each for TLC |
| `...Proofs` | the theorems about it |

The specifications are written the same way. A request is a slot `r` of `Req`
with a program counter `pc` and whatever the suspended handler still holds of
the documents it read. A handler is cut at its `await`s: one action per store
operation, so the actions of two slots interleave exactly where two handlers
can. What a handler computes between two awaits is one step. `RequestFails`
ends a request between two of its steps: a rejected store call and a dying
process look the same to the stores.

They compose where components share state. `AccessCache` and `BoundedAccess`
both extend `AccessRules`, `RequestPipeline` extends `Routes`, `AccessCache`
instantiates `BoundedAccess` and `AuthSessions` `SessionRegistry`. The others meet at single operations:
`EmailChange` models a login as far as its session carries an address,
`RequestPipeline` takes the account that authentication returns as one that
changes between any two stages (`AccessCache` says how old it may be), and
`AdminLists` takes as single writes what `UserLifecycle` and `EmailPipeline`
decompose.

### AuthSessions

| state | in the code |
|---|---|
| `user` | `password`, `sessionEpoch`, `failedLoginAttempts`, `lockedUntil`, `isActive`, `resetPasswordExpires` of `user/entities/user.entity.ts` |
| `tokens` | the refresh tokens signed by `generateAuthResponse` (`jti`, `tv`, `exp`); `gen` is not in the JWT: it is the password that the login at the root of the chain proved |
| `denylist`, `redisUp` | Redis keys `revoked:refresh:<jti>` by expiry time, and whether commands are answered |
| `now` | half seconds: the JWT library truncates `Date.now()` to seconds and Redis counts whole ones, requests arrive in between |

`LoginLookup` is `findByEmail`, the lockout test and bcrypt; `LoginFail` and
`LoginClear` are the two writes that may follow; `Sign` is `generateAuthResponse`
on the document that was read at the start. `RefreshLookup` verifies the token
and reads the user, `RefreshCheck`/`RefreshReject` is the denylist lookup and the
epoch comparison. `Logout` writes the denylist entry with the rounded TTL.
`RunInTransaction` has both outcomes of `connection.startSession()`: one commit
of password and epoch (`InTransaction`), or the password alone with the bump
still to come (`WithoutSession`, then `BumpAlone`).

A password is represented by how many changes led to it, and a reset token by
its expiry. A token from before the denylist existed (no `jti`) is in the initial
state, because the code has a branch for it.

Of the history, `streak` counts the failures since the account was last unlocked
or logged in to, `overtaken` says that a failing login was past its lookup when
that happened, and `torn` that a request died between the password and the epoch
and no bump has come since.

### EmailChange

| state | in the code |
|---|---|
| `user.code`, `codeExpires`, `attempts`, `codeSentAt` | `emailChangeCode*`; a code is the number of its draw, 0 when unset |
| `user.pending` | `pendingEmail`, `pendingEmailToken`, `pendingEmailExpires` |
| `user.previousEmail`, `revertToken`, `revertExpires` | the revert window |
| `taken` | addresses of other accounts; the unique index refuses them (`Duplicate`) |
| `sessions` | refresh tokens by the address in their claims and their epoch |

`CodeLookup`/`SendCode` are `requestEmailChangeCode`; `ChangeLookup`,
`CountFailure`, `ClearHash`, `ClearAttempts`, `FindTarget` and `SavePending` are
`requestEmailChange` with `assertEmailChangeCode`: the counter is written from
the document that was read, and clearing a code is two writes.
`ConfirmEmailChange` and `RevertEmailChange` commit three writes together or
leave the last two to `UnsetAlone` and `BumpAlone`. `UpdateUser` is the
administrator's change of an address, which touches nothing else.

The history variables record what a reader of the log would know: where and when
each code was mailed, how many wrong answers and how many pending changes it was
used for, which codes two requests judged at once (`contested`), which pending
changes a confirmation had read when a revert unset them (`raced`), and whether a
request died between the separate writes of the fallback (`torn`).

### ParameterStore

`l1` is the map of each process, `redis` the shared entry, `env` the override
fixed at the start. Entries carry the ticks they have left. `Hit`, `FromEnv`,
`Miss`, `RedisGet`, `RedisGetFails`, `FillFromRedis`, `Seed` and `Seeded` are the
steps of `ParameterStore.get`; `Update` followed by a `get`, then `Set`,
`SetFails` or `SetDone`, and a second `get`, is `ParameterService.update`.
`Return` is the continuation of the caller: a read, the warm-up, the
`isOverridden` test of an update, or its answer. `Current` is the value a process
should serve: the environment's, else the one Redis holds, else the default. Texts in Redis and in the
environment are distinguished from values (`coerceValue`, `String`): `"si"` and
`"1"` are true as well. No tick passes while a request is in flight: the ttl is
300 seconds, a request takes milliseconds.

### AccessCache

| state | in the code |
|---|---|
| `users`, `roles`, `catalogue` | the collections; a role has an id and a name, users refer to it by name |
| `cache` | `cache:user:<id>`, `cache:rbac:role:<name>`, `cache:rbac:perm:<name>` and the two lists, each with the ticks left; an absence is cached as well |
| `recent` (history) | for each document how long it may still be answered; the abstract variable of `BoundedAccess` |
| `suspect` (history) | keys whose entry was filled with what had been overwritten, or missed an event |

`CacheHit`, `CacheMiss`, `ReadDocument` and `Fill` are every cache-aside read
(`validateUser`, `findByName`, `findByNames`, `findAll`); what follows a read
(`Resolved`) is the next lookup of the same handler, the decision of the guard,
or the write. A write and the `Invalidate` that follows it are two steps, as the
event is emitted after MongoDB answered. `removeRole` counts the users first;
the seeds insert and emit what the code emits: the seed of roles emits nothing.

### UserLifecycle

Accounts are numbered as they are inserted, tokens as they are drawn. Each of
`register`, `create`, `populateUsers`, `verifyEmail`, `resendVerification`,
`updateUser`, `deleteUser` and `toggleActiveUser` begins with its lookups and
goes on with its writes one by one, because the transactions they open are not
handed to the writes. The histories name the handlers a death has cut short
(`unmailed`, `stranded`) and the deletions a handler did not see (`revivable`).

### EmailPipeline

A mail starts with an event of the listener, with an administrator's request
(`sendBySlug`) or directly (`sendDirect`), resolves a text (`Resolve`: stored,
or shipped, in the language asked for or in `es`), writes its log (`CreateLog`),
calls the provider (`Send`) and records the outcome (`RecordOutcome`).
Administrators create, edit, rename, deactivate and delete templates meanwhile,
and processes start and seed (`SeedDefaults`, `SeedNext`, `SeedCreate`). The
variables a handler fills into a text are left out.

### Routes and RequestPipeline

`Routes` is the table of the controllers' decorators and the decisions taken from
them. A request of `RequestPipeline` passes `Throttle`, `Authenticate`,
`CheckPermissions`, `CheckRoles`, `Intercept`, `Handle`, `Tap` (the aspect
interceptor), `Filter` and `Send`; between any two the account changes, another
request passes, the client leaves or the process restarts. `Emit` hands an entry
to the listener, `Persist` stores it, `PersistFails` loses it. `Handle` takes
effect and returns, throws one of the errors of its endpoint before it does
anything, or throws after its effect was committed, as `register` does when the
update behind `createWithRole` fails (`auth.service.ts:89-107`) and the
controllers when the translation of their answer does
(`user.controller.ts:147-148`, `auth.controller.ts:111-112`). `StatusOf` maps the
errors as `ErrorKind` and `AllExceptionsFilter` do. The url of a request is the
set of paths `url.includes` finds in it, those of the query string included; the
limit (`RouteKey`) and `shouldAudit` are decided on it, the hits are counted by
handler and client.

### AdminLists

`walk` is a console that asks for page 1, 2, ... up to `totalPages` of the last
answer. A page is two queries in any order, `Find` and `CountDocuments`, or one
`Slice` of an array. `Pages` is every answer that sort, skip and limit allow:
documents with equal keys may come in any order. `moves` records what happened
to the matches during the walk. `GetMetrics` remembers a report of the new users
until one is taken a window later.

## 3. Runs

A run that passes is exhaustive on its instance, within the constraint it may have; every property of it has
a mutant, a plausible mistake in the code it is about, under which TLC finds it
violated. "s" and "min" are on two workers.

| run | properties | instance |
|---|---|---|
| `auth_tokens` | `TypeOK`, `LockoutEarned`, `LoggedOutStaysOut`, `OnlyCurrentPasswordSessions`, `NoExchangeOfLiveLoggedOutToken`, `SessionsAsPromised` | 2 requests, 2 new tokens of 2 s, 5 half seconds, 2 password changes, Redis outages; apart from these, 2 failed logins allowed and 4 made; 508 000 states, 1.5 min |
| `auth_passwords` | `CredentialChangeAtomic`, `OldSessionsDie` | 2 requests that may die between two writes, both outcomes of `startSession`, fair handlers; 406 000 states, 50 s |
| `email_codes` | `UncontestedSingleUse`, `UncontestedBudget`, `RevertSticks` | 2 requests that may die, 2 codes, 2 changes, 2 ticks, an administrator; 2.3 million states, 1.5 min |
| `email_sessions` | `TypeOK`, `OnlyCurrentIdentitySessions` | 2 requests, both outcomes of `startSession`, requests die, 3 addresses, other accounts; 748 000 states, 40 s |
| `param_stale` | `TypeOK`, `FreshWithinTtl`, `AnswerIsNew` | 2 processes with a request each, no override, another and an equal one, outages, restarts; 15 s |
| `access_cache` | `TypeOK`, `StalenessBounded` | 2 requests, failures, one role, grants with and without `*`, lives of 1 and 2 ticks, 2 writes; 60 s |
| `access_roles` | `CoherentUnlessSuspect`, `RolesHoldKnownPermissions` | 2 requests, 2 roles, creation, renaming, grants, removal, both seeds, lists, 2 writes; 75 s |
| `users` | `TypeOK`, `AccountsUnique`, `StoredTokenMailed`, `NeverStranded`, `DeletedStaysInactive` | 2 requests that may die, 2 accounts, 2 tokens, 4 requests in all; 50 s |
| `mail` | `TypeOK`, `LogTruthful`, `DefaultAlwaysSendable`, `VersionCountsEdits`, `PendingSettles` | 2 requests that may die, 9 events, a shipped and another template edited, 2 mails, 3 requests in all; 249 000 states, 2.5 min |
| `pipeline` | `TypeOK`, `TrailTruthful`, `TrailComplete`, `EffectsAuthorised`, `ThrottleHolds` | 2 requests, an open and an administrator's endpoint, urls with the login's path in the query, 3 accounts, errors before and after the effect, disconnects, restarts; apart from these, 3 anonymous requests, limits 1 and 2, a window of 2 ticks; 429 000 states, 2 min |
| `lists` | `TypeOK`, `UndisturbedWalkExact`, `DisturbedWalkBounded`, `MetricsAgree` | users, audit, templates, parameters; 3 documents at the start, 4 in all, pages of 1 and 2, one write at any moment; 2 min |

One run must end in a violation: `email_code_twice` checks `CodeSingleUse`, the
sentence of `user.service.ts:346-347` that a code is single use "whatever happens
next". Two requests that read the same code before either destroyed it both record
a pending change. What holds instead is `UncontestedSingleUse`. Section 6 lists the
other sentences the code does not keep.

Two runs explore two halves of one specification apart, with a state constraint
(`LockoutApart`, `WindowsApart`), because the product of the halves is large and no
property relates them. In `auth_tokens` a state has either failed logins, unlocks and
deactivations, or tokens and password changes: a login that clears the lockout before
it signs is followed across a password change by the proofs only (`SlotFresh`). In `pipeline` a state has either two requests, every
stage and the audit, and no time passes; or three requests that are not audited and
do not fail, and time passes. The first half also spares combinations that would
only repeat one another: urls have a query at level `minimal` alone, where the audit
looks at it, and there one of the three accounts is left out. The proofs know no
such split.

Why the bounds are enough to be interesting. Two requests are enough for every
pair of handlers to overlap, and each of the interleaving hazards in the list is
about a pair. Two new tokens let a token be refreshed once and the refreshed one
be logged out. Tokens live four half seconds within a clock of five, so every
phase of the fraction of a second at which a logout may fall is covered, and so
is the time after the expiry. In `email_codes` a code lives one tick of
three, so it is live, or over while a handler still holds it; two codes are one
and its replacement, which may be mailed while the first is being judged; two
pending changes are one that is undone and one that it must not bring back. With the
two password changes a session can be two passwords old. The ttl of a parameter
is two ticks: an entry is fresh, in its last tick, or gone. The lives of
user and role entries differ in `access_cache`, so one may be old while the
other is new; one role is enough, for it can be assigned, filled and removed, and
the role an account starts with is missing. `access_roles` starts with an empty
catalogue, so that a permission can be cached as missing, and with or without a
role that has the name of a default one. In the half of
`pipeline` in which time passes, the limits of the two keys may differ and one more
request is made than the larger allows; in the other half both requests pass. Two accounts compete for one address;
four requests are a registration, its verification, a resend and one
administrator's operation. One write falls before, between and after the two
queries of each of up to four pages. Walks over equal sort keys, or whose matches both grow and shrink, are not
followed: no property promises anything of them (`MCInit`, `Promising`).

Deadlock is checked where the clock or a request can always move: `auth_tokens`,
`param_stale`, `access_cache`. Elsewhere the bounds (`MaxTick`,
`MaxCode`, `MaxPending`, `MaxEpoch`, the token ids, `MaxStarts`, `MaxWrites`,
the set `Id`) stop a system that its clients would go on using.

Bounds. `MaxTick`, `MaxPassword`, `MaxEpoch`, `MaxFailures`, `MaxCode`,
`MaxPending`, `MaxWrites`, `MaxUser`, `MaxToken`, `MaxStarts`, `MaxLog`,
`MaxDocs` and `MaxTime` are guards on otherwise unbounded counters; the proofs
hold for every value of them.

Fairness. `FairSpec` of `AuthSessions` assumes weak fairness of `Handler(r)`,
the steps of a request that has begun: Node's event loop resumes a handler whose
awaited call has settled; a request may still die between two of its steps, which
`OldSessionsDie` names (`torn`). `FairSpec` of
`EmailPipeline` assumes it of `MailStep(r)`, the steps of a mail in hand; a mail
may still die, which `PendingSettles` names. Nothing is assumed about requests
being made, stores coming back, or the clock.

## 4. The refinements

`AuthSessions` implements `SessionRegistry` where every credential change runs in
a transaction (`SessionsAsPromised == Registry!Spec`). The registry knows nothing
of requests, epochs, the denylist or half seconds: `password` is the number of
changes, `clock` whole seconds, `issued` the signed tokens and `open` those that a
refresh arriving now would exchange with Redis up (`Usable`). `Sign` issues a
session, which is never open if a revocation overtook the login; `Logout` closes
its own session and no other; logout-all and the password changes close all; a
tick closes what expires. Everything else, including the expiry of denylist
entries and of lockouts, is a stutter. It says what the single properties leave
open: a step that belongs to one session does nothing to the others.

`AccessCache` implements `BoundedAccess` (`StalenessBounded == Bound!Spec`, with
`current` the stored documents, `recent` the history variable and `request` the
requests the guards let through). In `BoundedAccess` a request is authorised
with a user document and with the role that document names, each stored at most
the life of its cache entry ago. That is all the caches owe their users, and it
holds although a fill may overtake an invalidation, although invalidations are
lost, and although the seed of roles sends none. `CoherentUnlessSuspect` says the
rest: without such an accident the cache differs from MongoDB only while an
invalidation that covers the key is on its way.

## 5. Proofs

All theorems hold for every set of requests, tokens, addresses, roles, routes or
processes and every value of the other constants.

`AuthSessionsProofs`
* `TypeCorrect`: `TypeOK`.
* `CurrentPasswordOnly`: `OnlyCurrentPasswordSessions`, if `startSession` never
  throws. The property alone is not inductive: a token may be about to be signed.
  `EpochInv` says that every snapshot, in a token or in the slot of a handler
  that is going to sign, is `Fresh`: its epoch is not above the account's, and if
  it equals it then it was taken under the current password, unless a change is
  half done. A transaction that
  changes the password raises the epoch in the same step, so it outdates every
  snapshot; all other steps leave both alone.
* `LogoutIsFinal`: `LoggedOutStaysOut`. `DenylistInv`: a jti names one token, a
  logged-out jti has an entry, and an entry lasts at least until the `exp` of its
  token. The arithmetic is in the rounding: `ceil` of the remaining half seconds
  is never short of the expiry.
* `RefusedForEver`: `DeadStaysDead`, no step makes a refused token usable, from the
  same invariant, with transactions or without. With transactions it follows from
  `SessionsAsPromised`, so no run checks it separately.
* `ChangeIsAtomic`: `CredentialChangeAtomic`, with transactions and without, and
  whichever requests die. While a change is half done, or was left so (`HalfDone`),
  `EpochInv` only keeps the order of the epochs; the next bump outdates every
  snapshot taken meanwhile, whichever request it belongs to.
* `NoExchangeAfterLogout`: `NoExchangeOfLiveLoggedOutToken`. The exchange passes
  the denylist lookup only if the entry is gone, and `DenylistInv` says that the
  token has then expired.
* `ImplementsRegistry`: `SessionsAsPromised`, the refinement, if `startSession`
  never throws. It needs both invariants: `EpochInv` so that a bump closes every
  session and a session opens only with the password in force, `DenylistInv` so
  that a tick that drops a denylist entry opens none.
* `LocksAreEarned`: `LockoutEarned`, from `LockoutInv`, which adds that what a
  failing login is about to store was earned as well: it cannot exceed the streak
  unless an unlock or a successful login came in between, and that is `overtaken`.

`EmailChangeProofs`
* `TypeCorrect`: `TypeOK`; the strengthening is that a handler past its lookup
  holds an address (`HoldsAddress`).
* `CurrentIdentityOnly`: `OnlyCurrentIdentitySessions`, if no administrator
  rewrites the address. `IdentityInv` is `EpochInv` for addresses, weakened while
  a change is half done (`HalfDone`, `torn`): then only the order of the epochs
  is kept, until the bump that ends the change outdates everything at once.
* `SingleUse`, `Budget`: `UncontestedSingleUse` and `UncontestedBudget`, for any
  number of concurrent requests, each of which may die half way. `CodeInv` says
  that two requests that judge codes at once contest both of them (`Alone`), so
  that an uncontested code has one request at it; that what this request holds is
  still what the document says, or that the code is gone for good (`Judged`); that
  a code mailed while an older one is judged starts without history (`Untouched`);
  and that a live, uncontested code has paid for nothing and was not answered wrong
  more often than the document counts (`LiveCode`).
* `Sticks`: `RevertSticks`, likewise. `PendingInv`: what is pending, or about to
  be confirmed, was drawn after the last revert, unless that revert found the
  confirmation past its lookup (`raced`).

`ParameterStoreProofs`
* `TypeCorrect`: `TypeOK`, so no entry has more than the ttl left.
* `FreshForTtl`: `FreshWithinTtl`. `AgeInv`: what is current is of age 0, what a
  request has read is of age 0 (no tick while it is in flight), and age plus
  remaining life of an L1 entry never exceeds the ttl.
* `EnvironmentWins`: while Redis never fails, a process with an override serves
  it. `EnvInv`: no request ever gets past the environment, so nothing else
  enters its map.
* `UpdateAnswers`: `AnswerIsNew`. `EchoInv` follows an update that is alone to its
  answer: L1 or, where L1 has expired, a reachable Redis (`Holds`) has the new
  value at every step of the second `get`, which therefore never seeds the
  default (`Answers`).

`AccessCacheProofs`
* `TypeCorrect`: `TypeOK`.
* `Bounded`: `StalenessBounded`, the refinement, initial states and every step.
  `IInv` relates four things: the stored document has a whole life in `recent`
  (`RecentOK`); an entry never outlives what `recent` grants its value
  (`CacheOK`); what a request is about to fill was read in this tick (`SlotsOK`);
  and a request that already holds its user's document asks for the role that
  document names. A tick takes one from both sides of `CacheOK`; a write only
  adds to `recent`; a fill may store something overwritten, but nothing older
  than this tick.
* `Coherent`: `CoherentUnlessSuspect`. Each write leaves in its slot an
  invalidation whose patterns cover every key it changes, key by key.
* `OnlyKnownPermissions`: `RolesHoldKnownPermissions`. Permissions are never
  deleted, so an answer that a permission exists, cached or not, stays true: only
  "it does not exist" can be out of date, and that refuses the write.

`UserLifecycleProofs`
* `TypeCorrect`: `TypeOK`, with what a suspended handler holds (`SlotOK`).
* `Unique`: `AccountsUnique`; an insert or an update is refused by the index
  whatever the earlier check answered.
* `TokensMailed`, `Verifiable`, `DeletionHolds`: `StoredTokenMailed`,
  `NeverStranded` and `DeletedStaysInactive`, proved together (`Safe`) with
  `Reviving`: a handler about to activate an account was recorded when the
  account was deleted under it.

`EmailPipelineProofs`
* `TypeCorrect`: `TypeOK`, with a text for every mail that is logged or handed
  over; `Shape` adds that a log belongs to one slot only.
* `Truthful`: `LogTruthful`. `Sendable`: `DefaultAlwaysSendable`, because the
  shipped text is what `resolve` falls back to.
* `VersionsCount`: `VersionCountsEdits`. An update that nobody overtook still has
  the version it read (`SlotOK`).

`RequestPipelineProofs`
* `TypeCorrect`: `TypeOK`, with what each stage may rely on (`Sound`, `Core`).
* `Authorised`: `EffectsAuthorised`: `Sound` carries the account that was
  authenticated through the later guards.
* `Truthful`, `Complete`: `TrailTruthful` and `TrailComplete`, from `Audit`: what an
  entry tells is what its request keeps, and a request past a stage has left that
  stage's entry, whether its handler returned, threw, or threw after its effect.
* `Throttled`: `ThrottleHolds`; `Flow` adds that every admission younger than
  the window still counts as a hit, and a cardinality argument: a request is
  admitted only while all hits of its handler, whatever their urls, are below the
  limit its own url asks for.

`AdminListsProofs`
* `TypeCorrect`: `TypeOK`. `TypeInv` adds that documents are never dated in the
  future and that a document was returned at most once per answered page.
* `UndisturbedIsExact`, `DisturbedIsBounded`: `UndisturbedWalkExact` and
  `DisturbedWalkBounded`, for every collection, number of documents and page
  size. The rank of a document is the number of matches sorted before it. Without
  ties, sort, skip and limit return exactly the documents whose rank lies between
  the bounds of the page, whatever the database is (`PageByRank`, a cardinality
  argument), and there is a next page exactly when the total goes beyond this one
  (`LastPage`). Then three facts are kept by every step: in a steady walk the
  documents of the start have been returned exactly when their rank lies on an
  answered page (`SteadyInv`); without new matches nothing else has
  (`StillInv`); and where matches only leave, what was returned has a rank below
  the next page and can only move down (`LeavingInv`). A write moves the order of
  the matches only as `WriteSteady` and `WriteLeaving` say.
* `MetricsMatch`: `MetricsAgree`. `ReportInv`: a remembered report counts the
  users that are still in its window, since creations are dated now, at its end
  or later, and a deletion inside the window makes it forget.

Assumptions are the named `ConstantsAssumption`, `CacheAssumption` and
`PipelineAssumption` (natural numbers, sets of the right kind, values that are
none of a set, and that the roles at the start hold known permissions); TLC
evaluates them on every run.

Every invariant and action property of a run is stated by a theorem. Model-checked
only: `OldSessionsDie` and `PendingSettles`, liveness under fairness, which
together with `ENABLED` is out of the prover's reach, as is induction over data.
Some theorems have a hypothesis that selects the systems the property is meant for
(transactions, no administrator who rewrites addresses), and some properties name
an exception (`overtaken`, `contested`, `raced`, `torn`); what happens there is in
section 6.

## 6. Where the code departs from its documents

The properties above state what holds. Where the code does something else than a
document or comment says, it is listed here; the models have these behaviours.

Sessions and lockout
* Simultaneous wrong passwords count once: `login` stores
  `failedLoginAttempts + 1` of a document it read before bcrypt
  (`auth.service.ts:133-145`), so the lock may come later than
  `openspec/specs/account-lockout/spec.md:11` says. `LockoutEarned` is the other
  direction.
* A failing login that read the document before an unlock or a successful login
  writes its count, and maybe the lock, after it (`auth.service.ts:133-149`), so the
  account is locked for failures that are no longer consecutive, against
  `openspec/specs/account-lockout/spec.md:11-16`; `LockoutEarned` names it (`overtaken`).
* Without transactions and with a bump that fails, the new password stays and
  the old sessions stay usable, although `auth.service.ts:242-245` promises the
  opposite; `CredentialChangeAtomic` names it (`torn`). The next bump of the account ends them.
* A refresh that verifies its token just before the expiry and looks the
  denylist up just after it exchanges a logged-out token; hence the "live" in
  `NoExchangeOfLiveLoggedOutToken`.

Change of address
* Two requests with the same right code both store a pending change, against
  "it is single use, whatever happens next" (`user.service.ts:346-347`, `375`,
  `email_code_twice`); concurrent wrong codes are counted once (`contested`);
  concurrent requests for a code are all sent, against "one code per minute"
  (`user.service.ts:269`), so no spacing of the mails is a property.
* Applying or undoing a change leaves a live code in the document
  (`auth.service.ts:322`, `388`): a code mailed to the previous mailbox pays for a
  change away from the present one, against `user.service.ts:322-323`.
* A confirmation that read the document before a revert committed is applied
  after it (`auth.service.ts:293, 311`): the transaction writes by `_id` and does
  not look at the pending token again. `RevertSticks` names it (`raced`).
* A second change of address within 72 hours overwrites the revert token of the
  first; and the previous address may be registered by somebody else, after
  which the revert fails on the unique index.
* An administrator's change of the address closes no session, although
  `odd/tasks/cou-264-logout-revocation.md:16` asks for it. `email_sessions` and
  its theorem leave that operation out; `email_codes` has it.

Parameters
* The seed of a missing key is an unconditional write after an awaited read
  (`parameter.store.ts:76`) and may overwrite a stored value, against
  `openspec/specs/parameter-store/spec.md:106-111`; a stored value has the ttl of a
  cache entry (`89`), and when that is over the default is back (`:59-64`).
* `isOverridden` means "differs from the default": a stored value makes the next
  update answer `PARAMETER_OVERRIDDEN`, and an override equal to the default is
  not recognised. During an outage an update then puts the stored value into L1
  over the override, for at most the ttl (`FreshWithinTtl`).

Authorisation
* `validateUser` does not look at `isActive`; a deactivated user keeps working
  until the access token expires.
* A role created by the seed may stay unknown to a process for the life of a
  cached absence; a role removed while a user gets it leaves a dangling name,
  which grants nothing.
* The bump inside a transaction invalidates the user's entry before the commit
  (`user.service.ts:246`): a read in between stores the old document again.

Accounts
* `register`, `verifyEmail` and `updateUser` open a transaction and do not pass
  its session to their writes.
* `verifyEmail` after a deletion or deactivation activates the account; a resend
  for an active, verified account makes it unverified; two deletions overwrite
  `deletedAt`; two toggles may cancel out; an update of the address keeps the
  verification token that was mailed to the former one.

Mail
* A log stays "pending" when the process dies after the delivery, and "failed"
  may have been delivered; a template of an administrator's own is sendable only
  when the language resolves to `es`; deactivating or deleting a shipped template
  does not stop its mail; overlapping updates store one version
  (`overlapped` in `VersionCountsEdits`) and three may make it go back;
  two processes that seed at once collide on the slug and one does not start.

Requests and audit
* The aspect interceptor passes `context.getArgs()`, which is request, reply and
  next and not the handler's arguments (`audit-aspect.interceptor.ts:36`). Where
  `getResourceId` is `args[0]` (`user.controller.ts:140`) the redaction runs into
  the cyclic request, the entry is lost and only logged, against
  `openspec/specs/audit-logging/spec.md:5`; where it is `args[0].id` the id of the
  request is recorded. `TrailComplete` says "unless lost afterwards" for this.
* A handler that throws after its effect leaves an http entry with the error's
  status and no business entry, although the action took place.
* The business listener is subscribed by hand (`audit.listener.ts:74`) and carries
  `@OnEvent('audit.*')` as well. Whether the pattern matches is decided by the
  emitter's wildcard option, which nothing in `src/` turns on; the model has one
  subscriber.
* `@AuditAction` on service methods never fires, and requests refused by a guard
  (401, 403, 429) are never recorded although the comment at
  `audit.interceptor.ts:47-49` says so.
* The limit of a request is chosen by `url.includes` on the raw url, query string
  included (`dynamic-throttler.guard.ts:66-75`), while the hits are the handler's
  (`:78-85`, the library makes the key): `POST /auth/forgot-password?next=/auth/login` is judged by the login's
  limit, against RL-03 (`openspec/specs/rate-limiting/spec.md:13`). `ThrottleHolds`
  bounds what can be had this way. `shouldAudit` looks at the url as well
  (`audit.interceptor.ts:91`), which at level `minimal` records more than the list
  names.
* The window is handed to `@nestjs/throttler` 5.2 in seconds, which takes
  milliseconds (`.env.example:83`); limits are read once and counted per process.
* The filter by date of the audit list is always refused
  (`audit-log-filter.dto.ts:44-60`); the `minimal` level lists
  `/auth/refresh-token`, the route is `/auth/refresh`.

Lists
* Page and total are two queries and the sort has no tie-breaker: with newest
  first, a new document makes the next page repeat one; a page whose count came
  before its documents may be the last too early. With `isActive` the list shows
  deleted users. A walk over the audit trail in `verbose` adds to it.

## 7. Not modelled, and why

`PROJECT.json` lists every component with its status. Pure I/O and wiring stay
out: API documentation, SMTP and Resend clients, bcrypt and JWT cryptography (a
password or a token is right or it is not), health probes, environment
validation at the start. Access tokens are stateless and are not revoked by
anything, so no state of theirs could go wrong. Translations are a map loaded
once; what it answers is wording. The rules of single DTO fields, password
strength, CSV quoting and number parsing of parameters are functions of one
input that unit tests enumerate better. MongoDB is taken at its word: a
single-document update is atomic, a transaction commits all of its writes or none
and retries on a write conflict, a unique index refuses duplicates.

## 8. Plan

Done: sessions and authorisation with their refinements, e-mail change, parameters,
accounts, mail, the request pipeline, lists. Left:

1. `AccessCache` under `RequestPipeline`: the account a guard judges is at most a
   life old, in one specification.
2. Larger instances: two administrators besides a walker in `lists`; three
   requests in `access_cache`.
