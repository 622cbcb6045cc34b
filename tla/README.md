# Verification of transactions-api

TLA+ models of the HTTP API that keeps users, sessions and account balances
(Express, PostgreSQL through knex, Redis, RabbitMQ), the TLC runs that check
them, and TLAPS proofs of what matters most. Paths below are relative to the
repository; `src/` is its source directory.

Check a model with `tlc -config <run>.cfg <module>.tla`, a proof module with
`tlapm <module>.tla`. `PROJECT.json` lists the runs, the source lines each
definition stands for, the mutants that show each property can fail, the
findings and the hazards.

## The system

One Node.js process serves all requests. It is single-threaded, so code
between two `await`s is atomic; each `await` of a query, a Redis call or bcrypt
lets every other request run. All state is outside the process:

| state | kept in | written by |
|---|---|---|
| `users` (e-mail unique, `is_active`) | PostgreSQL | register, profile update, deactivate, reactivate |
| `accounts` (balance INTEGER, check `>= 0`) | PostgreSQL | register, deposit, withdraw, transfer |
| `transactions` | PostgreSQL | deposit, withdraw, transfer |
| `refresh_tokens` | PostgreSQL | register, login, refresh, logout, deactivate, reactivate, clean-up cron job |
| `user:<id>` copies of users, 300 s | Redis | `CachedUserRepository` |
| `blacklist:<token>` | Redis | logout |
| rate limit counters | Redis | `rateLimiter` |
| mails to send | RabbitMQ queue | `RabbitMQPublisher`, fire and forget |

The process itself holds at most five pooled connections (`knex.ts:19-22`) and
one channel to the broker.

### Components

| component | operations | what is hard | what makes it correct | modules |
|---|---|---|---|---|
| Money movement | deposit, withdraw, transfer | read, check, insert and updates are separate statements; row locks; pool; a failure or crash between two statements | check and debit atomic, no lock cycle, no stand-off between locks and pool, history explains the balances, transfers make no money, answers and mails tell what was committed | `Ledger`, `MoneyMovement`, `MoneyMovementProofs`, `SumTheorems` |
| Registration | register | check-then-insert on the e-mail; two rows and a session; two connections per request | one user per e-mail, user and account together, an answer for everybody | `Registration`, `RegistrationProofs` |
| Sessions | login, refresh, logout, deactivate, reactivate, clean-up | no transaction at all: every look-up is stale when it is used | a spent token stays spent, a deactivation ends the sessions before it, nothing else ends one | `Sessions`, `SessionsProofs` |
| Access tokens | sign, verify, blacklist | milliseconds against whole seconds, two expiry clocks, Redis and the expiry asked at different moments | a logged-out token is refused until it expires, and no other token is | `AccessTokens`, `Gate`, `GateProofs` |
| User cache | `findById`, `update`, `deactivate`, `reactivate` | fill races with delete, Redis failure after the write | old data returns through an overlapping fill only; nobody is remembered as missing | `UserCache`, `UserCacheProofs` |
| Profile update | `PATCH /user/profile` | check-then-update, default values of absent fields | one user per e-mail; an empty body changes nothing | `UserCache`, `UserCacheProofs` |
| Notification publisher | `publish` | lazy channel shared by concurrent calls nobody awaits, channels that stay cached when they are closed | a notice is queued at most once or lost for a cause; no connections once there is a channel | `Outbox`, `Publisher`, `PublisherProofs` |
| Rate limiting | three limiters | one shared key, windows that end while requests are counted | no window lets more through than the limit; budgets are independent | `RateLimiter`, `Gate` |
| Queries | balance, list, profile | reads in the middle of other requests' work; `created_at` is not the commit order | the list explains the balance and never shows an overdraft | `Statements`, `StatementsProofs` |
| Password policy | `strongPasswordSchema` | pure | accepts what it says | not modelled |
| HTTP plumbing and shutdown | error mapping, async handler | what a rejected promise does to a request | classes of answers only | in every module |
| Health, telemetry, logging, configuration, container | | I/O and set-up | | not modelled |

The components meet in five places. Registration creates the users, with and
without accounts, that money movement runs on (`Accounts` is any subset of the
users). Deactivation and reactivation change `is_active` under the feet of
money movement, which looks the user up after its commit. `Statements` reads the rows and balances
that money movement writes. `Gate` composes the limiters, `authenticate` and the
blacklist with the handlers that feed it. And all of them hand mails to the
publisher: the modules keep a set `outbox` of what was handed over, and `Outbox`
and `Publisher` say what becomes of it.

## Modules

Conventions shared by all modules: a request is an element of `Requests` and
runs once; `pc[r]` names the statement it runs next, so one action is the code
between two `await`s; `reply[r]` is the class of its HTTP answer (`ok` 2xx,
`refused` 4xx, `error` 500, `lost` when the process died). `Fault(r)` is a
failed statement, a lost connection or a pool timeout, at any statement;
`Crash` is the death of the process, and PostgreSQL then rolls back whatever was
open. `Fault` or `Crash` just after a commit is a commit whose acknowledgement
was lost. Definitions marked "Mutant" are plausible bugs and are used by no
specification: they are there for the mutation runs.

### Ledger

The promise of the three transaction use cases, without statements or locks:
`Post(id, job)` adds a row to `transactions` and changes the balances of the
payer and the payee in the same instant, if the accounts exist and differ and the
balances stay within `0..MaxInt`. Two consequences are the reason to believe it:
`HistoryExplainsBalance` (each balance is the opening balance plus the effects of
the rows) and `MoneyIsConserved` (all accounts together hold what deposits brought
in and withdrawals left). Its invariant `Inv` is what the rows and balances keep
from one `Post` to the next.

### MoneyMovement

`POST /transactions/deposit`, `/withdraw`, `/transfer`, statement by statement
(`DepositUseCase.ts`, `WithdrawUseCase.ts`, `TransferUseCase.ts`):

| `pc` | action | code |
|---|---|---|
| idle | `Receive` | zod schema and `amount <= 0` |
| begin | `Begin` | `unitOfWork.transaction`: a connection and BEGIN |
| read | `DepositRead`, `TransferRead`, `WithdrawLock` | unlocked reads of a deposit and a transfer; SELECT FOR UPDATE of a withdrawal |
| lock1, lock2 | `TransferLock1`, `TransferLock2` | `lockBothAccounts`, smaller id first |
| insert | `Insert` | balance check, INSERT INTO transactions |
| debit, credit | `Debit`, `Credit` | `updateBalance`, the row lock every UPDATE takes, the check constraint and the INTEGER range |
| commit | `Commit` | COMMIT: `delta` and `drafts` become visible, locks go |
| lookup | `CacheMiss`, `Notify` | after the commit of a deposit or a withdrawal, `findById` asks Redis for a copy of the user |
| select | `Notify`, `UserMissing` | without a copy, and for a transfer in any case, `findById` asks the table on a connection of its own; mails, answer |

`delta[r]` and `drafts[r]` are the uncommitted versions; read committed
isolation means nobody else sees them. Increments suffice for `delta` because
the UPDATE is `balance = balance + ?` and holds the row lock. `Deactivate` and
`Reactivate` are the effect on `is_active` of the handlers modelled in
`Sessions`. Users are numbered because uuids are totally ordered and
`lockBothAccounts` compares them. `recipientId = 0` is an e-mail nobody owns.

Whether Redis has a copy of the user is left open at `lookup`, as the copies come
and go with requests of other routes (`UserCache`).

Left out: the `FOR KEY SHARE` locks that foreign keys take on `users` rows
(they conflict with no statement here but are taken after the account locks, so
they close no cycle), PostgreSQL's deadlock detector (`NoLockCycle` shows it
never fires), and the queue behind a row lock, whose order no property uses.

`SomebodyCanStep` is `NoLockCycle` with the pool: whatever waits for locks and
connections, one request in flight can take its next statement. `CanStep(r)` says
in terms of locks and connections when `Step(r)` is enabled.

### Registration

`RegisterUseCase.ts`. `Begin` opens the unit of work on one connection;
`InsertUser` runs on another one and commits at once, because
`CachedUserRepository.create` (`CachedUserRepository.ts:11-13`) drops the
transaction it is handed; `InsertAccount` and `Commit` belong to the unit of
work; `Welcome` and `CreateSession` follow. `AcquireTimeout` is knex giving up
on the pool. `InsertUser` fails on the unique index.

### Sessions

`LoginUseCase.ts`, `RefreshTokenUseCase.ts`, `LogoutUseCase.ts`,
`DeactivateAccountUseCase.ts`, `ReactivateAccountUseCase.ts`, and the clean-up
job. `sessions` is the table `refresh_tokens`; a request that issues a token
issues the token named like itself, as uuids never repeat. `Expire(s)` is
`expires_at` passing. Clients present tokens they were handed in an answer.
A deactivation finds its user through the cache and may find an inactive one.
`before[r]`, a history variable, is the set of requests already over when `r`
was received: it lets a property speak of "afterwards" without a clock.
Wrong passwords change nothing and are left out.

### UserCache

`CachedUserRepository.ts` over `UserRepository.ts`, used by `GET` and `PATCH
/user/profile`, the deactivation and the reactivation. `CacheGet`, `Select`,
`CacheSet` are the three awaits of `findById`; `Write` and `CacheDelete` the two
of every writer, and nothing makes the two atomic. `rev`, a history variable,
counts the writes to a row, so that a copy can be told to be old. `Evict` is the
time to live passing, at any moment. `PhoneOf` is the default of the zod schema.
`Sessions` has what the same handlers do to refresh tokens; this module has
what they do to the row and its copy.

### Statements

`GET /transactions` and `GET /transactions/balance` over the variables of
`MoneyMovement`. Each is a single SELECT, so it sees one state, at any moment of
the requests under way: its result is an operator (`ListByUser`, `GetBalance`)
and its properties are invariants. `createdAt` adds what the list sorts and
filters by: `Stamp` runs with the step that makes the entity
(`Transaction.create`, at the INSERT), on a clock that stands still or moves on,
so rows commit in another order than they are dated. A clock that is set back
is left out: rows dated by one need not be in the order of the locks. `Concerns` is the bracketed
`user_id = ? OR recipient_id = ?`. A filter left out is the widest one; names and
the order of equal dates are left out.

### AccessTokens, RateLimiter, Gate

`AccessTokens` is `AuthService.ts`: a token is a user and the second it was
signed in, `Expired` floors the clock as jsonwebtoken does, `TokenExpiresIn` is
the subtraction the logout makes. `RateLimiter` is the one counter per address
behind the three limiters: each has a `RedisStore` without a prefix, so they
share the key.

`Gate` is the way of a request to its handler, in the order the routes mount
the middlewares: `Count`, then `Has` (Redis) and `Verify` (the clock) for a
logout, `Has` and `Verify` and then `Count` for everything under `/user` and
`/transactions` (one job, `call`), `Count` alone for a login. `SignToken` and
`Open` are the end of a login whose credentials are right; `Delete` and
`Blacklist` are the two awaits of a logout, and the time to live is computed
between them. `Tick` is the clock, and with it the expiry of tokens, entries and
windows. Redis outlives a `Crash`. Requests present the access token of a login
of their user that was answered, or none. The body of a logout names a refresh
token by itself, and nothing in the code compares the two: it may be of the same
login, of any other one that was answered, or of none (`refresh`).

### Outbox, Publisher

`Outbox` is what `publish` promises about one notice: handed over, then queued
once or dropped. `Publisher` is `RabbitMQPublisher.ts` await by await: `Publish`
looks at the cached channel, `Connect` and `Create` open one (and the last of
several overlapping calls leaves its own in the cache), `AssertQueue` and `Send`
use it. A channel is named after the call that opened it. `Arrive` is the broker
taking a message off the wire; `Break` closes a channel and loses what is on it;
the closed channel stays cached, so later calls fail on it with a log line. The
process dies with what it has not written. `before[n]`, a history variable, is
the set of calls of the same process that had a channel when `n` came.

## Runs

| run | instance | question |
|---|---|---|
| `movement` | 2 requests, 16 jobs, 3 users (one without an account), `MaxInt` 4, pool 2; 210 000 states | is the check of a debit current until the debit, are locks exactly where they are needed, do answers and mails match the tables, does the list explain the balance at every instant and date, is money conserved? |
| `contention` | 4 requests, pool 3, fair: a ring of three with a refused deposit, or opposite transfers with a refused withdrawal and a deposit that may leave no room for a credit; 380 000 states | lock cycles, an exhausted pool, history and balances, refinement of `Ledger`, the proofs' invariant, is everybody answered? |
| `userknown` (violation) | as `movement` | is the user known after the commit? |
| `registration` | 4 requests, 2 e-mails, pool 2, fair; 490 000 states | one user per e-mail; do answers match the tables; is every registration answered although all connections may wait for one more? |
| `orphan` (violation) | same | does every user have an account? |
| `sessions` | 3 requests of any kind, 2 users, 1 open session; 2.7 million states | replay, deactivation, login, loss of sessions |
| `rotation` (violation) | same | is a token exchanged at most once? |
| `profile` | 3 requests of 6 jobs, 2 users, 3 e-mails; 2.4 million states | who can bring old data back, one user per e-mail, is a reactivated user found? |
| `empty` (violation) | same, with a phone number | is an empty PATCH refused? |
| `gate` | 4 requests of four mixes, limits of 2, tokens and windows of 1 s, the clock at 0, 500 and 1000 ms; 5 million states | does a logout end the tokens it is given, do revoked tokens stay out and others get in, do limits hold? |
| `budgets` (violation) | same | is a request refused only for requests of its own group? |
| `publisher` | 4 notices; 79 000 states | what is lost and why, who opens connections, refinement of `Outbox` |

**Bounds.** Two requests show every race between one pair of statements, which
is what the checks of `movement` are about, and let it afford all kinds of
jobs: legal and illegal amounts, exactly the balance and more than it, an
amount the column cannot hold, a sum it cannot hold, missing accounts and
recipients. Cycles of three need three requests, and a fourth waits for the
pool of three, so `contention` has four, and only jobs that can wait or are
refused while others do; in the second mix the credit of a transfer may overflow
after its debit, and everything is rolled back. `MaxInt` stands for 2^31-1 and is small so that the
limit is met. In `registration`, two of the four requests can hold the whole
pool of two while the others queue; two connections are the smallest pool in
which a registration alone succeeds. In `sessions`, three requests are a
login, a rotation of its token and a replay, or a deactivation, a reactivation
and a login. In `profile`, three are a read, a write that it straddles and a
later read, which is the shortest stale fill, or a write that fails half way
and two that follow. In `gate`, a token is at its last half second, at its expiry
and, signed at 500 ms, half a second off the second it names; windows end and
begin anew at 1000 ms; the mixes are two sessions of a user with a logout and a
call, two logouts of one session, and one more call or login than a
limit. A logout may name the refresh token of either session.
In `publisher`, two notices overlap without a channel, one finds it, and one
is left for the next process. The proofs below remove these bounds for all the
safety properties. Requests, e-mails and users are symmetric and symmetry is used in runs without liveness
only. `CHECK_DEADLOCK FALSE` everywhere: requests run once, and then the
system has stopped.

**Fairness.** `FairSpec` asks weak fairness of each request's own next
statement: Node's event loop and the database go on serving accepted requests.
Faults, crashes, clients and timers of others owe nothing. Weak fairness is
enough although requests compete for locks and connections, since each request
runs once, so a lock or a connection is taken from a waiting one finitely
often. In `registration` the acquire timeout is one of the steps: without it four
waiting transactions would stay stuck, as its mutant shows.

**What a violation run shows.** `userknown`: a user deactivated between the
request and the look-up after the commit gets a 500 for money that has moved.
`orphan`: a fault after the user's insert leaves a user who has no account, can
never register again and gets 404 from every transaction. `rotation`: two
refreshes with one token both succeed. `empty`: the schema's default for the
phone makes every body non-empty, and erases the phone. `budgets`: calls of
other routes fill the counter a login is compared with, so a client well inside
its thousand requests is refused its first login after a hundred.

## Proofs

All proofs hold for any number of requests, users, e-mails and tokens, any
balances and column limit, and any jobs, under the assumptions named in the
modules (`MoneyAssumption`, `RegistrationAssumption`, `SessionsAssumption`,
`LifetimeAssumption`, `LimitAssumption`, `GateAssumption`, `NoneAssumption`,
`UserCacheAssumption`).

**MoneyMovementProofs.** `Inv` is inductive. The properties are not: that
`seen[r]` is the current balance at the debit needs that the sender's row is
locked since the read (`LocksMatchProgress`), and that nobody commits a change
to a row locked by another, which needs what each request has pending
(`WorkMatchesProgress`) and that the jobs got past the earlier checks
(`JobIsAcceptable`). `LockedDataIsCurrent` carries "checked" from the insert to
the commit, so that the updates never fail half way on a covered debit.
`RowsMatchProgress` ties rows to requests that have committed.
From `AlwaysInv` follow `TypeCorrect`, `LocksCorrect`, `CheckIsAtomic`,
`DebitsAreCovered`, `RepliesAreTrue`. `NeverLockCycle` gives each request the
id of the account it waits for as its rank, sees that the holder of that account
can only be waiting for a larger one, and takes a request of greatest rank in
any set. `SomebodyCanAlwaysStep` takes that set to be the requests that have a
connection: who is waited for is one of them (`HoldersAreInTransaction`), so the
one that waits for none of them waits for nobody; if nobody has a connection, one
is free. `MovementImplementsLedger` maps `balance` and `transactions` to
themselves: `Commit` is a `Post`, everything else a stutter (`OnlyCommitPosts`).

What the rows add up to is proved of the ledger, where nothing interleaves, and
inherited. `LedgerIsExplained`: a `Post` adds one row to a finite set of rows and
its effect to every balance (`PostAddsEffect`). `MovementImplementsLedger` then
gives `LedgerIsKept` and `HistoryIsExplained` for the statements. In
`MoneyIsNeverMade` the two effects of a posted transfer cancel over all accounts
(`EffectsCancel`). This needs of the ledger that a transfer names an account
(`Postable`).

**SumTheorems.** Sums over finite sets: type, one element more, disjoint unions,
equal terms, terms that are zero, terms that are sums, renamed elements. The
provers cannot instantiate an induction theorem with a predicate, but strict
inclusion of the subsets of a finite set is well founded, and its least-element
theorem (`WFMin`) is about a set: `SubsetInduction` and `ElementInduction` speak
of a set `Good` of sets. Functions' `SumFunctionOnSet` is a recursive function
over all subsets; `TableExists` shows that there is such a function, `TablesAgree`
that it is the same for larger sets, and `AnyElementFirst` that the element
CHOOSE takes first does not matter.

**StatementsProofs.** `StatementsMoveNothing` brings in all that is proved of
`MoneyMovement`, so the theorems of `MoneyMovementProofs` hold for the specification
of the run `movement`. `ListTotal`: what a user reads from a list, whatever its filters, is the
sum of the effects of the rows within them, since items of different rows differ
by their id and rows that do not concern the user have no effect on the balance;
lists by type and cut at a date are disjoint and cover all rows (`CutInTwo`), hence
`ListsExplainBalances`. `NeverOverdrawn` is not inductive. `StatementInv` adds that
a debit under way is dated no earlier than any row of its account
(`DebitsAreDatedLast`): it is dated under the lock, after every row there is, and
until it commits nobody else commits a row of the account (`DebitExcludesCommit`). So when a debit commits, all rows of
the account belong to every past it is added to, that past is the balance, and
the balance is not negative (`CommitKeepsPast`); a credit only adds to a past.

**RegistrationProofs.** `OneUserPerEmail` and `AnswerMatchesTables`, from the
invariant that rows belong to requests past their insert and that each request
has written what its next statement presupposes.

**SessionsProofs.** The invariant carries each promise from the statement that
establishes it: a token is gone from its delete on (`SpentTokensAreGone`), so a
refresh received after the answer never passes its look-up (`ReplaysStop`); old
sessions are gone from `DeleteAll` on (`OldSessionsAreGone`), so a refresh
received after the answer does not find one (`OldRefreshesStop`), and only
requests that were not over can insert; after `SetInactive` only a reactivation that was
not over makes the user active (`DeactivationHolds`, `LoginsStop`). That tokens
are never issued twice (`RowsMatchProgress`) and that "before" is the past
(`HistoryIsPast`) hold it together.

**GateProofs.** A blacklist entry is written some time after its seconds were
counted, so it ends no earlier than its token: `EntriesOutlive` says so of the
entries and, before, of what a logout carries. Hence a token that was logged
out is at every later moment on the blacklist or expired (`LogoutsHold`), and a
request Redis has let through with it finds it expired at `Verify`
(`RevokedStops`). `EntriesHaveCause` names the logout behind each entry. From
`AlwaysInv` follow `LogoutsEndBoth`, `RevokedTokensStayOut` and
`RefusalsHaveCauses`, for any lifetime and any jumps of the clock. The
arithmetic of whole seconds is in `SecondBounds` and `SecondMonotone`.
`BudgetsHold` counts: a counter has been incremented for every request of its
window (`HitsCoverRequests`), so the hits a request is compared with are no
fewer than the requests that passed with it; `CountBudget` adds one request to
either side. It assumes that the requests are finitely many.

**UserCacheProofs.** `StaleReadHasCause` speaks of what requests were given;
it is inductive with `EntryHasCause`, the same of the entry in Redis. A fill
either began after the write, and then its copy is as new, or it overlapped it,
and two requests that overlapped have done so for good (`StraddledStays`).
`ReactivationsHold` carries the reactivation from its UPDATE to
`ReactivatedIsFound`. `OneUserPerEmail` rests on the unique index alone
(`NextUnique`): the look-up before it is not used.

**PublisherProofs.** `CacheMatchesUse` (no call of the running process has a
channel while none is cached) gives `OneChannelOnceWarm`; `CopiesMatchProgress`
(one copy at most, and none before it is sent) gives the refinement of `Outbox`,
in which a step moves one notice, or a `Break` or a `Crash` drops several.

**Only model-checked.** Liveness (`EveryRequestAnswered`,
`EveryRegistrationAnswered`): fairness is out of the prover's reach.
`CanStep` was stated without ENABLED for the same reason. Every invariant and
action property of the passing runs, and both refinements, are stated by a
theorem.

## Not modelled

Password hashing and JWT signatures are trusted. The password policy is a pure
predicate on one string, without state, and its unit tests list the cases. Health
checks, telemetry, logging, configuration and the container are I/O or set-up.
The graceful shutdown closes the pools under requests in flight, which is a
`Fault` or a `Crash` of those. CORS, headers and JSON parsing are Express's. The
transfer that reads its recipient's `is_active` unlocked (`TransferUseCase.ts:45`)
is equivalent to one that ran before the deactivation. A client that retries
after a 500 or a lost answer may move money twice: requests carry no key, and
the code promises nothing of it. No run says that a notice is queued in the end:
amqplib's connect has no time limit here and nothing retries, so the code
promises none. Malformed filters of the transaction list are a `ZodError` that
the error handler answers with 500; the list is modelled for well-formed ones.

Some hazards are what the code does, against nothing that the repository says, and
have no property in `PROJECT.json`, only a note: a registration told 500 whose user
exists, a refresh that fails after its delete, the copy that stays when its
deletion fails, the channel that stays cached when it is closed, two logins
within a second that share an access token. The properties of their modules name
them as permitted causes, and so say that nothing else has the same effect.

Two behaviours follow from what the modules have and have no run of their own.
A login or a refresh that overlaps a deactivation inserts its token after
`DeleteAll` and leaves a session of an inactive user
(`DeactivateAccountUseCase.ts:25`); `DeactivationEndsSessions` therefore speaks of
the tokens handed out before, and of the refreshes received afterwards with one of
them. After a failed cache delete, a PATCH that repeats
the user's own e-mail is compared with the stale copy and answered 409
(`UpdateProfileUseCase.ts:26`), until the copy expires.

## Plan

1. Done: `Ledger`, `MoneyMovement`, `Statements`, `Registration`, `Sessions`,
   `UserCache`, `AccessTokens`, `RateLimiter`, `Gate`, `Outbox` and `Publisher`
   with their runs; proofs of all their safety properties.
2. A composition of `Registration` with `Sessions` (who may log in before the
   account exists), and of `Sessions` with `Gate` (what a rotation leaves of the
   old access token).
3. A fair specification of `UserCache` in which stale copies go away.
