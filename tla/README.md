# Verification of Auth-Service-NestJS

TLA+ models of the auth service (`src/src/**`, TypeScript, NestJS, TypeORM on
PostgreSQL, Redis, RabbitMQ), the TLC runs that check them on small instances,
and proofs, checked by TLAPS, that hold for every value of the constants.

The service is a set of stateless request handlers and cron jobs, on one or
several instances, over three stores. Hardly anything in it runs in a
transaction: an operation is a chain of `await`ed statements, and what happens
between two of them is what the unit tests do not reach. That is what the
models are about. **One action is one SQL statement, one Redis command or one
event of amqplib, with all the synchronous code up to the next `await`;**
`req[p]` is what handler `p` remembers across its awaits.

Paths below are relative to the repository (`src/services/x.ts` is
`src/src/services/x.ts` in `PROJECT.json`).

## 1. Inventory

| Component | State | Operations | Interacts with |
|---|---|---|---|
| **Refresh token sessions** `token.service.ts`, `session.service.ts`, `refresh-token.repository.ts` | table `refresh_tokens`: owner, revoked, revoked_at, replaced_by_token_id, issued_at, expires_at | `generateRefreshToken`, `enforceMaxSessions`, `refreshTokens` (rotation, reuse detection), `revokeRefreshToken`, `revokeSession`, `revokeAllUserTokens` | called by login, register, logout, lock, ban, role change, password reset; foreign key to `user_credentials` with cascade |
| **Refresh token cleanup job** | none | one DELETE each night | same table |
| **Login and brute-force protection** `auth.service.ts` `login` | `user_credentials`: status, locked_until, failed_login_attempts | checks, lazy unlock, counter, lock, reset, session | writes what the admin and the job write |
| **Account administration** `account.service.ts` | same columns | `lockAccount`, `unlockAccount`, `banUser`, `deleteCredentials` | revokes all sessions, publishes events |
| **Unlock job** `unlock-expired-lockouts.job.ts` | list of accounts it found | find expired locks, unlock one by one, every five minutes on every instance | same columns |
| **Password reset** `auth.service.ts` `forgotPassword`, `resetPassword` | table `password_reset_tokens` | clear, create; check, set password, mark used, delete, revoke sessions; nightly cleanup | logins that verify a password meanwhile |
| **Access tokens and blacklist** `token.service.ts`, `blacklist.service.ts`, `redis.client.ts`, `token.util.ts` | JWT with `exp` in whole seconds, Redis keys with a ttl | issue, logout, `revokeAccessToken`, `validateToken` | fail open when validating, fail closed when revoking |
| **RabbitMQ client** `rabbitmq.client.ts` | connection, channel, `connected`, `reconnecting`, the buffer of 1000 events | `connect`, `scheduleReconnect`, `publish`, `bufferEvent`, `flushBuffer`, `onModuleDestroy` | listeners of every connection ever made write the same fields |
| **Registration** `auth.service.ts` `register` | row in `user_credentials` | check the address, insert, open a session, publish, audit | unique index on `email`; the DTO lower-cases, look-ups use `LOWER(email)` |
| **Roles** `role.service.ts` | the `roles` array of an account | assign, revoke: read the array, write it back whole | revokes all sessions, publishes events through the client of its instance; logins and refreshes sign the array into access tokens |
| **Domain events** `event.service.ts` | none | build a payload with a timestamp, `publish`, swallow errors | RabbitMQ client; consumers order by timestamp |
| **Request pipeline** middlewares, guard, time limit, pipe, filters | none | refuse, answer 408, map errors to answers | the timeout interceptor answers and leaves the handler running |
| **Health** `health.service.ts` | none | three probes in parallel, an aggregate | PostgreSQL, Redis, and the `connected` flag of the RabbitMQ client, not the broker |
| **Audit log** `audit-log.repository.ts` | append-only table | one insert, the last statement of an operation | read by nothing |
| **Password hashing, metrics, configuration** | none that the others read | | |

What is hard, by component, and what makes it correct:

* **Sessions.** Concurrent logins count and evict in turns with stale counts;
  refreshes insert without counting; `revokeToken` writes by id whatever the row
  has become; a reuse detection races the rotation it should catch. Correct: the
  number of active sessions stays bounded by what was inserted since the last
  count, links between tokens follow the rotations, a dead session stays dead,
  every handler returns.
* **Accounts.** Login, admin and job all read a row, decide, and write other
  columns later, unconditionally. Correct: an account that can be logged into has
  not had more wrong attempts than allowed (plus those racing), an active account
  carries no lock time, expired locks are lifted.
* **Password reset.** The check of `used` and `markAsUsed` are three statements
  apart. Correct: a token still acceptable has set a password only through handlers
  about to mark it; a spent token is never usable again.
* **Access tokens.** Three clocks: JWT seconds, milliseconds in Node, the ttl in
  Redis; Redis may be down. Correct: a logout that returned holds until the token
  dies.
* **Account status and its events.** Status, sessions and event are three
  statements, and every instance delivers its own events. Correct: after the
  revocations a locked or banned account keeps only sessions of requests that were
  in flight; a ban outlasts the lock it replaced; a consumer with the latest event has
  the account's status.
* **Roles.** Two concurrent changes write back each other's past. Correct: a settled
  change survives the changes of other roles, sessions carry the current roles, and a
  consumer that has the latest event about a role agrees with the account.
* **Devices.** A request without an answer is repeated while its handler goes on.
  Correct: a token is exchanged a second time only by a request that read it before
  the first exchange revoked it, the sessions this leaves behind are accounted for by
  the lost answers, and reuse detection never strikes a device that got all of its
  answers for a token it has exchanged.
* **Registration and health.** Answers are given beside commits, deletions and
  outages. Correct: what an answer says is true of the database; one account for an
  address; every request is answered; what a health check says was so of each thing it
  asked at some moment of the check.
* **RabbitMQ client.** `connect()` interleaves with publishes, broker errors,
  listeners of old connections and shutdown. Correct: it is an ordered, at-most-once,
  bounded outbox; nothing waits while the broker is there; attempts succeed if
  nothing else breaks.

`PROJECT.json` lists every hazard with its line and the properties that cover it.

## 2. Plan

| # | Module | State |
|---|---|---|
| 1 | `RefreshTokens`, `RefreshTokensProofs` | modelled, checked, proved |
| 2 | `Accounts`, `AccountsProofs` | modelled, checked, proved |
| 3 | `EventOutbox` (abstract), `RabbitMQClient`; `RabbitMQClientProofs` | modelled, checked, proved |
| 4 | `PasswordReset`, `PasswordResetProofs` | modelled, checked, proved |
| 5 | `TokenBlacklist`, `TokenBlacklistProofs` | modelled, checked, proved |
| 6 | `Roles`, `RolesProofs` | modelled, checked, proved |
| 7 | `Requests`: registration, the request pipeline and the readiness check; `RequestsProofs` | modelled, checked, proved |
| 8 | `SessionClient`: `RefreshTokens` composed with devices that retry | modelled, checked, proved in `RefreshTokensProofs` |
| 9 | `AccountEvents`: status, sessions, unlock job, events and a consumer composed; `AccountEventsProofs` | modelled, checked, proved |

## 3. Modules and code

### RefreshTokens (`MCRefreshTokens`)

`row` is the table, `accounts` the users that still have a row in
`user_credentials`, `handed` the raw tokens a client may present. Handlers:

* login and register: `BeginLogin` -> `IssueLogin` -> `CountSessions` ->
  (`FindOldest` -> `EvictOldest`)*. The number of turns is fixed by the count, the
  victim is found anew each turn and revoked by id in a later statement.
* refresh: `RefreshAccepted` -> `Rotate` -> `Reissue` -> `Link`, or
  `RefreshReused` -> `RevokeReused`.
* logout: `BeginLogout` -> `Logout`.
* single statements: `RevokeSession`, `RevokeAllUserTokens`, `DeleteAccount`
  (cascade), `Cleanup`.
* `Abort` cuts a handler short at any await; `Age` and `SevenDaysPass` are time.

`expires_at` is seen through three ages, because the code compares with `>` in one
place and `<` in the other: `Fresh`, `Due` (equal), `Past`. Auxiliary variables:
`parent` (which token a rotation exchanged) and `unenforced` (rows inserted for a
user since a login last counted, and turns that an interrupted loop still owed).

`Create` gives an `issuedAt` in insert order. With several instances the
clocks may differ by milliseconds; the eviction order between two logins that close
to each other is not what any property is about.

### Accounts (`MCAccounts`)

`acct` holds status, `lockedUntil` (as the clock sees it: ahead, now, passed) and
the counter. Login: `BeginLogin` reads and checks, `LoginUnlock` is the lazy unlock,
`WrongPassword` increments, `BruteForceLock` locks, `RevokeAll` ends the sessions;
`RightPassword` resets the counter, `IssueSession` inserts the session. Admin:
`BeginLock`/`AdminLock`, `BeginUnlock`/`AdminUnlock`, `BeginBan`/`AdminBan`,
`DeleteCredentials`. Job: `JobFind` fills `batch[j]`, `JobUnlock` and `JobSkip` (a
failed unlock, which is logged) take accounts from it. `lost` counts lock writes
that were due and never ran.

The configuration keys `auth.*` and `session.*` that the services read are
registered under other names (`config/security.config.ts`), so their defaults (5
attempts, 30 minutes, 5 sessions) apply; the models have them as constants.

### PasswordReset (`MCPasswordReset`)

Forgot: `BeginForgot` -> `ClearTokens` -> `CreateToken`. Reset: `BeginReset` ->
`UpdatePassword` -> `MarkAsUsed` -> `DeleteByUserId` -> `RevokeSessions`. Login, as
far as it matters here: `BeginLogin` reads the password (its number), `IssueSession`
opens a session with it. `Cleanup` is the job, `resets` counts passwords set with a
token.

### TokenBlacklist (`MCTokenBlacklist`)

`now` counts ticks, `Ticks` of them a second; `exp` is in seconds, rounded down, and
`blacklist[l]` is the tick at which Redis forgets the key. Logout: `BeginLogout`
computes the ttl, `BlacklistToken` sets the key or throws, `RevokeRefreshToken`
ends it. Validation: `BeginValidate` -> `IsTokenBlacklisted` -> `Accept`.
`RedisDown`/`RedisBack` are outages. Assumed: one clock for Node and Redis, and keys
that survive an outage (the connection is lost, not the data).

### EventOutbox and RabbitMQClient (`MCRabbitMQClient`)

`EventOutbox` is the promise: events are handed over in order, without repetition;
those that wait queue, and the oldest gives way when `Capacity` wait.
`RabbitMQClient` is the code. `pc` is where `connect()` is (`TryReconnect`,
`Connected`, `ChannelCreated`, `ChannelHooked`, `ExchangeAsserted`, and
`ConnectRefused` or a loss for its catch). A channel is named by the connection it
belongs to; `hooked` says that its listeners are installed, which happens one await
after it is created. `ChannelGone` and `Closed` run the listeners of whichever
connection it is, current or not. `OnModuleDestroy`, `ChannelCloseOk` and
`ConnectionCloseOk` are the shutdown. `OutboxSpec` is `EventOutbox` with `queue <-
buffer`. Left out: `publishedMessageIds`, whose test never holds because every
message id is a fresh uuid; a socket that reports its loss in the same chunk in which
an answer arrived; the backoff delays (the timer fires).

### Roles (`MCRoles`)

One account. A role change is `BeginAssign` -> `FindRole` or `BeginRevoke`, then
`UpdateRoles` -> `RevokeTokens` -> `Announce`; `req[p].read` is the array `findById`
returned, and `UpdateRoles` writes what follows from it. A login reads the array
(`BeginLogin`) and signs it later (`IssueLogin`); a refresh rotates (`Rotate`,
`Reissue`) and reads the array last (`SignClaims`). `RevokeNothing` is a no-op answer; one that runs beside a change
settles nothing and changes nothing, so only the other is an action. Auxiliary
variables say what has been settled by answers (`told`), which changes overlapped, and
which sessions were opened by a login that had read the array before a write.

Every instance has a RabbitMQ client that sends an event or keeps it in a buffer, so
events arrive late, in any order, or never. `wire` holds the events in all buffers and on
their way, `Deliver` takes any of them and `Lose` drops it (with its connection, or from a
full buffer). The consumer keeps, for each role, the event with the latest timestamp
(`view`). `stamp` counts timestamps per role, because only events about one role are
compared; as in `AccountEvents`, the clocks of the instances are taken to agree and two
events about a role not to share a millisecond. `heard` are the roles whose last change
ran alone and was not cut off from its event: two overlapping changes may announce in the
other order than they wrote.

### SessionClient (`MCSessionClient`)

Extends `RefreshTokens`. A device sends one request at a time (`SendLogin`,
`SendRefresh`, `SendLogout`), `Serve` is a statement of the handler and, with the last
one, the answer. `TimesOut` is the 408 of the timeout interceptor, after which the
handler is still in `req`; `Dies` cuts a handler short with or without a device
waiting. A device without an answer keeps its token, and may repeat the request, or
forgets it and logs in again. `raced` are the tokens a refresh read while another refresh
of the same token was between its read and its `revokeToken`. `Refused` is the refresh that is turned down without a
write. `Elsewhere` is what others do: cleanup, deletion, revocation by another device
or an admin, time.

### Requests (`MCRequests`)

A request passes the key check (`RefuseKey`), the pipe (`RefuseBody`, and `Transform`
of the address) and a handler: `Register` -> `FindByEmail` -> `CreateCredential` ->
`GenerateRefreshToken` -> `PublishUserCreated` -> `CreateAuditLog`, or `Ready` ->
`Probe`s. A statement needs PostgreSQL; `StatementFails` is its rejection and
`QueryFailed` what `TypeOrmExceptionFilter` makes of it. `TimesOut` answers 408
and stops nothing; the later answer of that handler is dropped (`Reply`). An answer is
a status and the `errorCode` that `HttpExceptionFilter` finds in the exception.

`up` says which dependencies answer; `connected` is `isConnected()` of the RabbitMQ client
of the instance that is asked, and the only thing `checkRabbitMQ` reads (`Now`). The flag
falls when a listener runs (`Disconnects`: at any time after the broker has gone, or with
the broker up) and rises when `connect()` has had the last answer of a broker that is up
(`Reconnects`). There is no fairness on it: the flag may stay up after the broker has
gone, or down for ever with the broker back, as `RetriesIndefinitely` shows. The steps
between are those of `RabbitMQClient`; here the flag rises with the last of the broker's
answers.

### AccountEvents (`MCAccountEvents`)

One account with its status, its sessions (by kind), the events of two instances and a
consumer. Lock, ban and unlock: `BeginAdmin` -> `Write` -> (`RevokeAll`) ->
`Announce`; deletion: `BeginDelete` -> `Write` -> `Announce`; the brute-force lock of a
login: `WrongPassword` -> `Write` -> `Announce` -> `RevokeAll`, in this order.
`LazyUnlock` and `JobUnlock` write without an event. `clock` gives every published
event its timestamp (clocks of the instances are taken to agree, and no two events to
share a millisecond); `Deliver` and `Lose` take the oldest event of one instance, as
`EventOutbox` allows. The counter of `Accounts` is left out: any wrong password may be
the one that locks. `early` and `outrun` remember what was in flight at a lock or ban
and at a revocation, `skewed` that the last write is not the last announcement.

## 4. Runs

A behaviour of a `violation` run ends in a state the documentation excludes; the
finding quotes the sentence.

| Run | Bounds | Shows |
|---|---|---|
| `Sessions` | 2 users, 3 rows, 2 handlers, maximum 1 | type, `SessionCap`, `RotationChain`, `DeadStaysDead` |
| `SessionsLive` | 1 user, 2 rows, 2 handlers, 1 abort | `HandlersReturn`, `RowsPurged`, with a loop cut short |
| `SessionClient` | 1 user, 2 devices, 3 rows, 2 handlers, maximum 1, 1 abort, 1 lost answer | type, `SessionsAccounted`, `SingleUseUnlessRaced`, `ReuseHasCause` |
| `Accounts` | 1 account, 3 handlers, 1 job, 3 attempts, 1 failure | type, `BruteForceBound`, `ActiveIsUnlocked`, `ExpiredLockLifted` |
| `BanNeedsAdmin` (violation) | 1 account, 2 handlers, 1 job | a due brute-force lock, or a due unlock, overwrites a ban |
| `AccountEvents` | 2 handlers on 2 instances, 1 job, 3 events, 1 fault | type, `LockedOutUnlessRaced`, `ConsumerCatchesUp`, `BanOutlastsLock` |
| `PasswordReset` | 1 user, 2 tokens, 3 handlers, 1 abort | type, `ResetsAreMarked`, `SpentStaysSpent` |
| `TokenBlacklist` | 2 logins, 2 handlers, 3 ticks to the second, lifetime 2 s, 9 ticks, 1 outage | type, `LogoutHolds`, `RefusedAfterLogout` |
| `Roles` | 2 role names, 1 defined, 2 handlers, 2 rows, 1 abort, 2 events before the last change | type, `SettledChangesStay`, `FreshClaims`, `ConsumerAgrees` |
| `Requests` | 2 requests, 1 address in 2 spellings, 2 faults | type, `OneAccountPerAddress`, `AnswersAreTrue`, `AnnouncedUnlessCut`, `HealthIsWitnessed`, `EveryRequestAnswered` |
| `RabbitMQ` | 4 connections, 3 faults, 3 events, buffer of 2, one shutdown | type, `NothingWaits`, `OneLoop`, `OutboxSpec`, `AttemptSucceeds` |
| `RetriesIndefinitely` (violation) | 2 faults | after two refused attempts the client never tries again |

Why the bounds are enough. With a maximum of one session, two logins already make an
excess, and three rows let one handler insert while another is inside its loop; a
third row is what a chain of two rotations needs. Two users tell apart statements
scoped to a user from those that are not. Three handlers with three attempts are two
concurrent increments past the limit and an admin. Three ticks to the second are
enough for every relation between an instant, the second it lies in and the second
`exp` names; two handlers set one key twice. Connections never exceed faults plus one,
so four with three faults never block `Connected`. A buffer of two overflows with
three events and leaves one behind its head. Two devices, one lost answer and three
rows are a repeated refresh whose first handler still runs, beside a login that
evicts. Two roles and two handlers are a change beside another change, a login or a
refresh; with one name undefined, an assignment that throws. `MaxEvents` bounds the
events published when a change begins: two changes of one role leave two events about
it on the wire, to arrive in either order or not at all, and changes that overlap
leave a third. Two registrations of one address meet in every order, and a third
request adds a health check only beside one of them; a flag of the client that lags in
both directions needs one outage. Three events on two instances can arrive in any
order with one lost. Symmetry is used only in runs without liveness; ids are only
compared for equality.

Deadlock checking is off where the system may really stop: reset tokens run out
(`PasswordReset`), the bounds on rows, requests or events are spent (`Roles`,
`SessionClient`, `Requests`, `AccountEvents`), and a client that has stopped trying or has been shut down with
all events published (`RabbitMQClient`).

Fairness. Statements of an admitted handler are executed: queries return or reject
(`WF` of `Step(p)`, where a rejection is `Abort`). Cron fires for ever (`Cleanup`,
`JobFind`, `JobUnlock`) and time passes (`Age`). The timer of the time limit fires (`TimesOut` in
`Requests`), while nothing is assumed there of the stores. No fairness is assumed of
clients, admins or faults. For RabbitMQ, timers fire and a broker that is not failing answers
(`Progress`, one condition for all of it: the client is single-threaded and each of
these events is awaited by it).

### Further claims the code does not keep

The modules also define these; TLC refutes each when it takes the place of the
properties in the configuration named. They are not runs of their own: they show
the same mechanism once more, or follow from a known limit.

| Claim | Put into | What happens |
|---|---|---|
| `RefreshTokens!SingleUse` | `Sessions.cfg` | two refreshes that read one token before either revokes it are both accepted; `README.md:405` says "single-use with rotation" |
| `RefreshTokens!MaxConcurrentSessions` | `Sessions.cfg` | a rotation between the revocation and the insert that a login counts leaves a session too many; logins alone do not (`LoginSpec`) |
| `RefreshTokens!EvictOnlyExcess` | `Sessions.cfg` | two loops that counted the same excess both evict it |
| `SessionClient!ReuseMeansReplay` | `SessionClient.cfg` | the next refresh of a session that was evicted or revoked by another device counts as reuse and ends every session of the user |
| `Accounts!LockedOut` | `Accounts.cfg` | a login that verified its password before a lock or ban inserts its session after the revocation; `LockedOutUnlessRaced` is what holds |
| `Accounts!IndefiniteLockNeedsAdmin` | `BanNeedsAdmin.cfg` | a brute-force lock that was due gives an indefinite lock an end |
| `Accounts!JobUnlocksOnlyExpired` | `BanNeedsAdmin.cfg` | the job unlocks by id an account locked anew since it was found |
| `AccountEvents!UnlockAnnounced` | `AccountEvents.cfg` | the job unlocks without an event; its header, `docs/SECURITY.md:218` and `docs/PATTERNS.md:219` say that it publishes one |
| `AccountEvents!AnnouncedExists` | `AccountEvents.cfg` | a lock whose account is deleted between its read and its UPDATE is announced after the deletion |
| `PasswordReset!SingleUse` | `PasswordReset.cfg` | two resets that read the token before either marks it |
| `PasswordReset!SessionsOfNewPassword` | `PasswordReset.cfg` | a login that verified the old password opens its session after the reset |
| `TokenBlacklist!RevokesAccessTokens` | `TokenBlacklist.cfg` | bulk revocation leaves access tokens valid; the comment at `token.service.ts:308` says otherwise |
| `Roles!AnsweredAssignReauthenticates` | `Roles.cfg` | an assignment that was cut off before its revocation is a no-op when repeated: it answers success, and sessions keep the old claims |
| `Requests!ReadyTellsUnhealthy` | `Requests.cfg` | the answer is 200 whatever was found; `health.controller.ts:54` and `docs/LIBRARIES.md:162` say 503 |
| `Requests!ProbeAsksBroker` | `Requests.cfg` | a check with the broker down finds it up, since the flag has not fallen yet; `health.service.ts:56` says "healthy" means all three dependencies are up |
| `Requests!FailureCreatesNothing` | `Requests.cfg` | 408 and 500 after the account is committed |
| `Requests!DuplicateHasCode` | `Requests.cfg` | the duplicate found by the look-up has the code `INTERNAL_SERVER_ERROR`, the one found by the index `AUTH_EMAIL_EXISTS` |
| `RabbitMQClient!ChannelRecreated` | `RabbitMQ.cfg` | a channel error on a healthy connection: `publish` only buffers; the comment at `rabbitmq.client.ts:72` says the channel is recreated |
| `RabbitMQClient!NoEventLoss` | `RabbitMQ.cfg` | events handed to a channel without confirms when its connection is lost |
| `RabbitMQClient!StaysShut` | `RabbitMQ.cfg` | closing the connection runs the listener that reconnects |

## 5. Proofs

`RefreshTokensProofs` proves for every set of users, every finite set of tokens and
of handlers, every maximum above 0 and every number of aborts:

* `TypeCorrect`: `TypeOK` is inductive. It includes `Remembers`: a handler has the
  user, the row and the victim its next statement uses.
* `DeadSessionsStayDead`: every statement either "fades" the table (rows only get
  more revoked, older or deleted) or inserts a row that was unissued; both keep dead
  rows dead. The lemmas `...Fades` serve the next two theorems as well.
* `SessionCapHolds`: `SessionCap` is not inductive, since it speaks of moments
  without a loop. `SessionInv` strengthens it: at all times a user has at most
  `MaxSessions + unenforced` active sessions, or one running loop still owes at least
  the excess. A loop owes the turns it has left, one fewer if its victim is already
  dead. The loop in question is the one that counted last, because a count sets
  `unenforced` to 0 and every insert since adds one; an eviction takes one turn and one
  session, a turn without a victim means that no session is left. It is also why
  `Abort` has to add the turns it loses to `unenforced`.
* `RotationChainHolds`: `ChainInv` adds that `issuedAt` follows the order of inserts
  and that every handler between `Rotate` and `Link` holds a token that is revoked or
  gone and a successor whose `parent` is that token.

The same module proves about `SessionClient`, because these proofs rest on the lemmas
above about what a statement does to the table. They hold for every finite set of
devices and any number of lost answers; `None \notin Procs` lets `None` stand for "no
handler".

* `ClientsUseTheService`: `ClientSpec => Spec`. Every step of a device with its handler
  is a step of the service, so the theorems above hold of the composition.
* `ClientTypeCorrect`: `HandlerInv` says of the service alone that a presented token was
  handed out, that the token a handler has made and not yet handed out belongs to that
  handler only, and that only handed tokens have successors. `DeviceInv` adds that a
  device and the handler serving it present the same token and that devices share
  neither.
* `SingleUseHolds`: `SpentInv` speaks of the tokens that are not raced. At most one
  handler is exchanging such a token (`OneExchange`) and it has at most one successor
  (`OneSuccessor`). The server's test of `revoked` is what carries the proof: a token with
  a successor is revoked or gone (`SpentRevoked`), so no refresh accepts it again, whatever
  devices send and however many answers are lost; and the handler that gave it its
  successor exchanges it no more (`SpentRests`).
* `ReuseAlwaysHasCause`: `CauseInv`. A token that no device was left in doubt about is
  presented by at most one handler, which a device attends (`Attended`), and while a device
  keeps it, it has no successor but the one being linked (`Unspent`).
* `SessionsAreAccounted`: counting active sessions directly is not inductive, since a
  handler nobody waits for may still open one. `BalanceInv` counts both: sessions
  that neither a device nor a handler answers for, plus handlers at work that no device
  waits for, are at most `losses`. A step of such a handler
  that leaves a session behind ends the handler. The theorem then maps every other session to its own
  device.

`AccountsProofs` proves for every set of users, jobs and attempts, and every finite set
of handlers:

* `TypeCorrect`.
* `ActiveAccountsUnlocked`: `ActiveIsUnlocked` is inductive given the type. Every write
  of a handler leaves an account that is not active, or one just unlocked, or one with
  status and lock time as before (`Written`); the clock moves only a `locked_until` that
  is set.
* `BruteForceBounded`: the same three kinds of write keep the bound, because an account
  becomes active only by `unlockAccount`, which resets the counter. `WrongPassword` is
  the one step that counts: below the limit it needs no excuse, at the limit the handler
  joins `Pending`; `BruteForceLock` leaves `Pending` with the account locked and `Abort`
  leaves it for `lost`.

`PasswordResetProofs` proves for every set of users and tokens and every finite set of
handlers:

* `TypeCorrect`.
* `SpentTokensStaySpent`: every statement leaves a row, inserts one with a new id,
  deletes, or changes a stored row without taking `used` back (`Evolves`).
* `ResetsAreMarkedAlways`: `ResetInv` adds that ids not yet issued obey the bound too,
  since they will be stored unused, and that a reset in flight holds an issued token:
  otherwise `markAsUsed` could leave `Marking` for a token that is stored later.

`TokenBlacklistProofs` proves for every set of logins and handlers, every number of
ticks in a second and every lifetime above 0:

* `TypeCorrect`.
* `LogoutHoldsAlways`: `LogoutInv` adds what a logout knows half way: while it waits
  for Redis its ttl reaches `exp` from the current second on (`Seconds` never goes
  back, so a ttl computed earlier is only longer), and past it the login is `Covered`:
  expired, or with a key that lives until the first tick of second `exp`.
  `TtlReachesExp` and `SecondsAreTicks` carry the arithmetic of whole seconds.
* `RefusedAlways`: a step of `IsTokenBlacklisted` from a state of `LogoutHolds`.

`RabbitMQClientProofs` proves for every capacity above 0 and every number of connections,
events and faults:

* `TypeCorrect`, in two halves: the link (`TypeLink`) and the events (`TypeEvents`).
* `OneLoopAlways`: `LoopInv` adds that the first `connect()`, which no loop has started
  and which therefore has not set the flag, has no connection but its own that could be
  lost and start a loop, and that a connection being closed at shutdown is open.
* `NothingWaitsAlways`: inductive given `OneLoop`, since `connected` is false while
  `connect()` gives `this.channel` a new value.
* `ImplementsOutbox`: each step of the client is `Wait`, `Send` or `Flush` of
  `EventOutbox` or a stutter; `Send` needs `NothingWaits`.
* `DeliveredInOrder`: what the outbox promises (`PromiseIsOrder`) holds of the client by
  that refinement. `PromiseInv` splits the order of `sent \o queue` into that of its
  halves and adds that every entry was published before.

`RolesProofs` proves for every set of role names, handlers and rows:

* `TypeCorrect`.
* `AnswersAreKept`: `SettledInv` adds what keeps stale arrays harmless to settled
  roles: a change that no other overlaps is alone (`Alone`), has read the array that is
  still there (`AloneReads`) and has written what it will announce (`AloneWrote`);
  every change in flight has read each settled role as settled (`ReadSettled`) and its
  own role is open (`OwnOpen`).
* `ClaimsAreFresh`: `ClaimsInv` adds that a login no write has overtaken holds the
  current array and that a deleted account has no active session.
* `ConsumersAgree`: `ConsumerInv`, for an account that exists. A role in `heard` has no
  overlapping change in flight (`HeardAlone`); unless one that is written is still to be
  announced (`Pending`), every change in flight has read of it what the array says
  (`HeardRead`), since each writes the whole array back; and an event with the latest
  timestamp about it is `Truthful`, whether it is on the wire or with the consumer
  (`HeardTold`). Delivery and loss only move or remove events (`BusKept`), so their order
  does not matter.

`RequestsProofs` proves for every set of requests and ids, every set of addresses that is
not empty and every number of faults (a request not yet sent holds some address, which is
why one has to exist):

* `TypeCorrect`: `TypeInv` says for each point of a request what its earlier
  statements have left (`Stage`), that stored addresses are in lower case and not stored
  twice (`RowsOK`), and what the records and notes may contain.
* `OneAccount`: from `RowsOK`. The look-up is not what keeps addresses apart; the index
  does, and only because every insert stores the lower-case form that `LOWER(email)`
  compares with.
* `AnswersTrue`: `NotedInv` says that between its look-up and its insert a registration
  has noted every account that holds its address, so that a violation of the index has
  a witness even if that account is deleted before the answer; `SessionInv` that an
  account past the insert of its refresh token has it, or is gone with it; `TruthInv`
  carries the rest. A request that timed out has its answer while its handler goes on.
* `Announced`: `ToldInv`.
* `HealthWitnessed`: `HealthInv` adds that while a check runs its window holds what a
  probe of each would find now (of RabbitMQ, the client's flag) and the result of
  every probe made so far.

`AccountEventsProofs` proves for every finite set of handlers, every set of jobs apart
from it and every number of events and faults:

* `TypeCorrect`: `TypeInv` adds that the events published, plus those that operations
  in flight still owe (`Owing`), fit the bound: the guard that starts an
  operation reserves its event, so no handler is stopped half way by `MaxEvents`.
* `LockedOut`: `LockInv` extends the property to the handlers in flight. While an account
  is shut out, a login about to open a session, or a refresh about to insert a successor,
  was in flight when a revocation ran or rotates a session of such a one.
* `CatchesUp`: `CatchInv`. No event in transit is stamped later than the clock
  (`StampsPast`); unless the writes are skewed, at most one handler has written without
  announcing and the status is the one it will announce (`OneAnnouncer`); and when
  there is none, every event with the latest stamp says the status (`LatestTrue`).
* `BanLasts`: an action property. `BanInv` says that while the account is banned, every
  handler that could still lift the ban, and every job that has found the account, was
  in flight when the ban was written.

Only model-checked: liveness (`HandlersReturn`, `RowsPurged`, `ExpiredLockLifted`,
`AttemptSucceeds`, `EveryRequestAnswered`), which is out of the prover's reach, and the
two claims of section 4 that TLC refutes.

## 6. Not modelled

* Hashing, signing, tracing, logging and configuration, which keep no state that
  another part reads.
* Metrics: `MetricsModule` is not imported by `app.module.ts`, and nothing counts.
* `AdminOnlyGuard`, `PasswordStrengthPipe` and the metadata of `@Audit`: no route or
  interceptor uses them.
* Of the DTOs all but the lower-casing of the address; a body is valid or not.
* The events of logins, logouts, revoked tokens, password resets and failed logins:
  notices with no state behind them, published like those of `AccountEvents`.
* The audit entries of operations other than registration: an insert like that of
  `CreateAuditLog`, last in its operation and read by nothing.
* The account status that `validateToken` reads last: a single read that decides about
  an answer and lets the token pass when the query fails.

The jobs of one instance do not overlap with themselves (a run of the unlock job lasts
less than its five minutes). A statement that rejects after it has taken effect is an
`Abort` of the next step.
