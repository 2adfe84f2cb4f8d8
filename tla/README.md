# Rootware in TLA+

Specifications of the Rootware packages. Twelve modules are state machines of what runs
concurrently, fails or waits: jobs, caches, limiters, sessions, stores, requests, log
sinks, transactions, migrations. Twelve more are the algorithms around them, as
operators that are checked input by input: schedules, cookies, uploads, URLs, log
records, environments, errors, snapshots, migration files, queries. All are
model-checked with TLC on small instances. Of the state machines every safety and action
property that a run checks is also a theorem that TLAPS proves for every value of the
constants; so is that the two job queues implement their abstract specifications, and of
the algorithms eleven properties for every input.

Contents: [the system](#1-the-system-and-its-parts), [how code becomes
model](#2-how-the-code-becomes-a-model), [the modules](#3-the-modules), [the
runs](#4-the-runs), [fairness](#5-fairness), [the proofs](#6-the-proofs), [where code
and documents disagree](#7-where-the-code-and-its-documents-disagree), [what is not
modelled](#8-what-is-not-modelled-and-why), [the plan](#9-the-plan).

Paths are relative to `src/`; `jobs/mod.ts` stands for `packages/async/jobs/mod.ts`, and
so on where it is unambiguous.

## 1. The system and its parts

Rootware is a set of TypeScript packages for Deno. A program is a number of *isolates*
(processes), each single-threaded: code runs without interruption from one `await` to
the next, and at each `await` any other call in the isolate may run. Isolates meet only
through what they share: a PostgreSQL table, a cache store, a database file, a
directory. The difficulties are accordingly state that is read before an `await` and
used after it, operations that fail between two stores, and isolates that die or fall
behind.

| Part | State | Operations | What is hard about it | What makes it correct |
| --- | --- | --- | --- | --- |
| **Job records** (`jobs/mod.ts`) | a `JobRecord`: status, attempts, history, `runAt` | create, claim, run, succeed, fail, cancel, retry | attempt boundaries; the overflow eviction order | the attempt budget, history and count agree |
| **Job queue** over the memory store (`jobs/mod.ts`) | a `Map` of records, bounded by `maxJobs` | enqueue, cancel, retry, delete, `processNext` | every operation is get–await–update with a stale copy; eviction of a job in hand | one handler per job, no record left running, bounded store |
| **Job queue** over PostgreSQL (`jobs/postgres/store.ts`) | the job table with leases | the same, and claim, heartbeat, `reclaimExpired` | crashes, lost answers, expiring leases, racing producers | one handler per job, unstarted claims come free, one row per key |
| **Job worker** (`jobs/mod.ts`) | `#running`, `#active`, an interval, a signal | start, stop, tick | overlapping ticks, a failing tick that stops the worker it belongs to | graceful stop, no tick after it, nothing waits for itself |
| **Job listing** (`jobs/mod.ts`, `jobs/postgres/store.ts`) | none | list with filter, limit, cursor | cursors over a store that changes | every job that stays is on one page |
| **Job schedules and options** (`jobs/mod.ts`) | none | next run of an expression; normalisation; backoff; webhooks; rows | calendar edges; options that were never checked; rounding | agreement with a reference definition |
| **Cache client and memory store** (`cache/mod.ts`) | entries, `#inFlight` promises, distributed locks | `getOrSet`, get, set, delete | shared promises, two looks at the clock, a lock that may time out | single flight, no promise or lock left behind |
| **Rate limiters** (`cache/mod.ts`) | a counter or token level per key, a chain of promises per key | consume, peek, reset | read–await–write of a counter that expires; a store that fails in the chain | mutual exclusion, the budget, a `retryAfterMs` that is enough |
| **SQL executors** (`orm` and `migrate`, `postgres`, `sqlite`, `libsql`) | one `#transactionClient`, a pool | execute, transaction | one client for all callers; failures of begin, commit and callback | clean pool, all-or-nothing |
| **Migrator** (`migrate/core/mod.ts`) | the history table, the lock | up, down, plan, status | the plan is older than the lock; failures between step and record | a true, gapless history |
| **Migration plans** (`migrate/core/mod.ts`) | none | validate, checksum, plan, select for rollback | ids and line endings that are normalised in one place and not in another | a plan and a history agree |
| **Migration files, workflow, CLI, DDL** (`migrate`) | a directory of two files per migration, the history | generate, check, migrate, baseline, repair | two files that are written one after the other; changes the generator withholds | what was generated, applied, says what the schema says |
| **ORM core** (`orm/core/mod.ts`) | none | definitions, conditions, four builders, rendering | precedence, `null`, parameters in the order of their places | the SQL means what was built |
| **Schema** (`schema/mod.ts`) | none | normalise, validate, compare, diff, (de)serialise | order that must not matter, order that must | a diff says exactly what changed |
| **Session manager and stores** (`session/mod.ts`) | sessions with rolling expiry | create, get, save, update, rotate, destroy | a rolling get writes back a session that was destroyed; rotate is two writes | a session that was ended stays dead; one session per login |
| **Session cookies, CSRF, actors** (`session/mod.ts`) | a browser's cookies | set, clear, read; verify; providers | what clears a cookie must name the slot that it is in | the cookie comes back; no token, no access |
| **Storage client and stores** (`storage/mod.ts`) | objects, files | put, get, delete, clear, list | files written in place; pages of a directory that changes | whole files, complete listings |
| **HTTP client** (`http/mod.ts`) | a retry loop, a response cache | request | the timeout races the answer; an abort that looks like a timeout | budget, idempotent retries only |
| **Log sinks** (`log/mod.ts`) | a buffer of lines | write, flush, close, interval | overlapping flushes whose failed batches come back | nothing lost or reordered |
| **Log records, adapters** (`log`) | bindings | child, log, redact, request log, pino | cycles, nested values, names that need redaction | the record says what was logged, and no secret |
| **Env** (`env/mod.ts`), **errors** (`errors/mod.ts`) | none | parse, default, redact; wrap, serialise | modes, blanks, causes that form a cycle | checked values, no secrets shown |
| **Testing** | fake clocks, mocks | — | — | — |

How they interact: the worker drives the queue's `processNext`, which drives a store;
the rate limiters are built on a cache store, and the HTTP client on a rate limiter and
a cache; the migrator and the ORM run on the same kind of SQL executor, and the
PostgreSQL job store on a client of its own. All interaction is by awaited calls; there
are no events or shared variables across packages.

## 2. How the code becomes a model

*Steps.* An action is what the code does between two awaits. A call in flight is a
*slot* (a worker, a client, a call, a process); `pc` says at which await it stands and
the other functions over slots hold the local variables that survive the await (`copy`,
`clock`, `plan`, ...). A slot that has settled is free again, so a finite number of
slots stands for an unbounded sequence of calls of which so many are in flight at a
time. In `SqlTransactions` and `JobWorker` each call is made once instead.

*Algorithms.* Code without an await is an operator, and a property of it a predicate
over its inputs that states what it means independently: crontab's reading of an
expression, a browser's of a cookie, a three-valued evaluator's of SQL, a database's of
DDL. The modules `JobCases`, `StateCases`, `WebCases` and `DataCases` list the inputs,
by topic. Strings are members of small sets, chosen for what the code does to them
(padded or not, a name that looks secret, a value that encoding changes).

*Failures.* Where the store is external, an awaited statement may be rejected, having
taken effect or not: the client cannot tell the difference, and the code mostly does not
try. A memory store does not fail.

*Data.* Payloads, results, values, metadata, error texts and SQL are left out. Time is a
counter that moves by itself and stops at a bound. Ids are small numbers in the order
`localeCompare` gives them.

*History variables* (`runs`, `revived`, `late`, `fills`, `grants`, `alone`, `stale`,
`mixed`, ...) record what a property must know of the past; no guard of a code step
depends on them, except where they bound callers (`runs` against `MaxRuns`, and `used`,
which makes ids fresh as `crypto.randomUUID` does).

Operators named `Mut_...` are wrong versions of the definition that follows them - a
forgotten guard, an off-by-one, a missing reset. Each property has one that violates it,
so that it is known to depend on the code; for a property that joins several promises
the list in `PROJECT.json` names one of them.

## 3. The modules

### JobRecords — the record transitions and the order of jobs

`jobs/mod.ts`: `createJobRecord`, `createFailedJobRecord`, `calculateBackoffMs`,
`isJobReady`, `compareJobsForClaim`, `evictOverflowJobs`. Pure operators on a record of
five fields: `status`, `attempts`, `hist` (the length of `attemptHistory`), `runAt`,
`createdAt`. Jitter is left out: it only moves `runAt`.

### JobQueue — `createJobQueue` over `memoryJobStore`

`store` is the `Map`, `older` its insertion order (which `findByIdempotencyKey` walks),
`at`/`copy` the job and the record that a call holds. `enqueue` without a key is one
step, because the memory store does not really wait; with a key it is `EnqueueFind` then
`EnqueueStore`. `cancel` and `retry` are get and update. `processNext` is `Claim`,
`StartHandler` or `RejectUnknown`, and `HandlerSucceeds` or `HandlerFails`; each writes
its copy back *unconditionally*, with the eviction in the same step, as `update` does.
That is the point of the model: a copy can be stale, the job may be canceled, deleted,
evicted, or enqueued again meanwhile.

### JobLifecycle — what a queue promises

An abstract specification with two variables: each job's phase (new, waiting, taken,
trying, done, buried) and how often it was tried. `JobQueue` implements it under the
mapping `PhaseOf`, `tries <- runs` as long as callers only enqueue and nothing is
evicted; cancel, retry and eviction break the promise by design.

### JobRecovery — what a durable queue promises

`JobLifecycle` with the ways out of it that crashes, rejected statements, cancels and
expired claims open, and no others. Its phases are also *lost* (no worker has the job and
no lease runs), *canceled* and *disputed* (its claim ran out before its live worker
started it); its actions also `Lose`, `Cancel`, `Sweep` and, only of disputed jobs,
`TryDisputed`. `DurableJobs` implements it, all failures included, under `RecoveryPhase`,
`tries <- runs`: a job in `late` is disputed, else a worker at "claimed" has it taken and
one further on is trying it, else the row decides: running with a lease is taken (by
nobody who knows), running without one is lost. What the mapping says is that a worker's
knowledge goes before the row's.

### DurableJobs — the queue over `createPostgresJobStore`

The same queue operations over a table whose statements are atomic. Added are: a crash
of any process, whose successor starts with nothing in hand; rejected statements with or
without effect (a claim may take effect while its worker never learns of it); the
partial unique index on the idempotency key; `lease`, with heartbeat and
`reclaimExpired`. `Upsert` sets the lease to null whatever it stores, as `upsertSql`
does. A success whose update rejects goes into the catch block (`SuccessRejected`),
which records a failure. `retry` is modelled over the memory store only: it is the same
queue code.

### JobWorker — `RootwareJobWorker`

A tick starts `concurrency` calls of `processNext` and awaits them one after the other;
`task[t]` is that array, `next[t]` the index of the loop, `Active` the set `#active`.
`stop()` copies `#active` and awaits it; with `stopOnError` the failing tick calls
`stopIfRunning(false)` and rethrows, and the interval's catch does it once more.

### CacheClient — `getOrSet` over a shared `memoryCacheStore`

`entries` and `older` are the `Map`; `inFlight[n][k]` is node n's promise for k;
`holder[k]` the distributed lock. `Lookup`/`Check` are the two halves of `get`: the
store's own look and the client's later look at the clock, which deletes *by key*.
`Own`/`Join` is the test of `#inFlight`, in one step with the `set` that follows it. The
`Map` is a function from keys (`entries`) and the relation `older`, its insertion order;
what is evicted is what has at least `maxEntries` others behind it. `Options` says with
which options calls are made.
Under the lock follow `Recheck`/`JudgeAgain`, the factory, `StoreSet` with
`EvictOldestEntries`, and the two `finally` blocks `Release` and `Cleanup`, which are
two steps because a microtask separates them.

The lock is external: `acquireLock` is an optional operation of a store and only a store
of `cache/mod_test.ts` has it. It is modelled as `getOrSet` uses it: a lock that is held
until it is released and whose acquisition may be given up.

### RateLimiter — fixed window and token bucket

`tail` and `prev` are the promise chain of `keyedMutex`; `entry` is what the store holds
for the key; a body is `Look` (clock and `store.get`) and then `Grant` or `Refuse`, with
the clock free to move in between. Token levels are counted in units of `1/PeriodMs`
tokens, so that a millisecond's refill is a whole number. The code counts in doubles,
which is modelled by what it can do to a decision: a level that was refilled and not
capped is `rounded`, and if it is just what is asked for it may fall short of it
(`FallsShort`); a quotient that is exact may come out just above, and its ceiling one
higher (`Ceilings`). Assumed is that the errors of a bucket never add up to such a unit,
which is far above the precision of a double. `grants` is the history of what was granted, each with the
time it was looked up and decided at, its units, and the total `before` it, from which
the units of any stretch follow; `promise` is what the last refusal said. One key of one
isolate is modelled: keys share nothing, and the code promises nothing across isolates
with a non-atomic store.

### SqlTransactions — `transaction` and `execute`

`kind` is the executor: PostgreSQL on a pool or on the one client it was given, or
SQLite. `handle` is `#transactionClient`; `free` the pool; `open` and `pending` what each
connection's transaction is and has written; `own[c]` the connection that a
transaction() call began on. Every write of a callback goes to *whatever the executor's
client is at that moment* — which is what the code does, and why overlapping
transactions mix. The one client is had at once, whoever uses it: a `begin` inside
another call's transaction only warns, and inside an aborted one is refused ("refused").
SQLite is the same with one connection and no pool.

A statement may fail and the callback catch it (`WriteFails`). PostgreSQL has aborted the
transaction then, as `aborted` says of its connection: it takes no writes, and `commit`
rolls it back and resolves (`Commits`). SQLite undoes the statement and goes on, or has
rolled back the whole transaction; the connection may also be gone (`Loses`). `fate` is
the history of that: whether a call's transaction is whole, aborted, lost, or astray -
its callback wrote on after the loss, outside of any transaction.

### Migrator — `up` and `down` by several processes

`history` is the migration table with checksums, `effect[m]` counts up steps less down
steps that really happened, `plan[p]` is what a call still has to do. `Plans` reads the
history; only then comes the lock; then for each migration `Step`, `Mark`, `Commit`. The
kinds are: *memory* (lock, no transactions), *sql* (primary key and transactions, no
lock) and *sqlNoTx*. `RowIsFree` is the database's row lock: an insert or delete waits
for an uncommitted one of the same key. Each process has a checksum for each migration,
so that a deployment with an edited migration takes part; it stops, or proceeds with
`allowDirty`.

### JobListing — pages of `list()` over a store that changes

One caller follows the cursors, others enqueue and delete. `MemoryList` finds the
cursor's job and begins after it, or begins anew if it is gone; `PostgresList` takes the
ids above the cursor, the least of them as the query orders them (`ListSql`). The two
stores also return different cursors, which is the whole difference between a listing
that loses jobs and one that does not (section 7).

### Session — `SessionManager` over its stores

`sessions` is the store's content in the order of its `Map`; `held[r]` the copy of a
record that a request read and will write. Every write of the manager (rolling `get`,
`save`, `update`, `rotate`) replaces the whole record by such a copy. `RotateStores` and
`RotateDeletes` are the two writes of `rotate`, `RotateFails` a rejection in between.
The memory store looks at the record's expiry, the cache store at its entry's time to
live, which is computed when the record is written (`CacheUntil`). `late` and
`contested` record which requests were overtaken by an end or a rotation of their
session, and whose session they wrote after that.

### Storage — memory, local and S3 stores

`object[k]` says whether the store has nothing, a torn file, or a whole object under a
key. A local `put` is `LocalPut` (the file is opened and truncated) and
`LocalPutWritten`, or `LocalPutRejected` when the disk is full or fails on the way;
`delete` looks first and removes later; `clear` removes the files it
listed one by one; `Crash` leaves them as they are. A listing takes page after page with
`getCursorStartIndex`, and the local one reads the directory first and each record
later. Sorting is stated by its result: a page is a sequence that ascends and leaves out
only what comes after it (`Pages`), its cursor the least key left out (`NextCursors`).
`scarred` are the keys whose writes overlapped, were cut off or rejected. `listing` also keeps
what was there from the first page on (`kept`) and all it could have met (`met`).

### HttpClient — `executeRequest`

`pc` goes from the cache through send, fetch, body and wait to done; `attempt` counts
retries. `wire` is the network: a request that was sent may reach the server at any
time, also after the client has timed out or was aborted, and its answer may be lost.
The caller's signal aborts with any reason; a reason that is a `TimeoutError` is taken
for the client's own timeout, is retried, and finds the signal still aborted. When a
failed answer's body is read ("body") the timer has been cleared; only the caller's
signal ends that wait.

### LogSink — `bufferedSink` over one sink, a fanout or a failover

`chunks` is the buffer, `flights` the batches whose write returned a promise, `out` what
each leaf sink took. A flush of a full buffer, of an error line, of the caller, of the
interval or of `close()` is one action each, and every write may fail in each leaf. A
batch that fails comes back in front of the buffer (`Restore`). What the interval's
flush throws is caught by nobody: `crashed`. Lines are numbered as they are logged, so
that order is a matter of going on where the piece before ended (`GoesOn`, `EndOf`): the
sink from the first line, each batch from the one before it, the buffer from the last.

### The algorithms

| Module | Code | What is stated |
| --- | --- | --- |
| `JobSchedules` | `parseCronField`, `cronMatches`, `nextCronRun`, `nextRecurrenceAt` | the next run is due in the sense of crontab(5), and nothing due was passed over; intervals of a millisecond or more go forward, and only they |
| `JobInputs` | option normalisation, `createJobRecord`, `calculateBackoffMs`, `mergeRetryOptions`, `defineJobs`, `defineWebhookJob`, error and row conversion | records survive both stores; backoff within its bounds and growing; names find one job; a webhook fails on what it minds |
| `SessionCookies` | `createSetCookieHeader` and its companions, `verifyCsrf`, providers | the cookie comes back from a browser, and the clearing one clears it alone; unsafe requests need the token; who is let in |
| `ObjectRequests` | key and bucket rules, `put`, upload validation, what stores give back, S3 signatures and links | buckets do not meet; what was accepted comes back; a signature covers what S3 insists on |
| `HttpRequests` | URL, headers, body, `computeRetryDelay`, `readResponseText`, JSON, redaction, the mock fetch | calls arrive as made; delays and bodies within limits; reports without secrets |
| `LogRecords` | `createLogger`, `child`, sanitising, redaction, memory and level sinks, pino, request logging | the record says what was logged; exactly the redacted paths are censored; lines come back |
| `EnvValues` | definitions, parsers, presets, modes, files, examples | strict modes take no default secret; an example says what one unquoted line can say; nothing secret is shown; precedence of files |
| `ErrorValues` | `toRootwareError`, chains, serialisation, redaction | chains end; the message and cause survive; redactors see everything shown |
| `SchemaSnapshots` | `schema/mod.ts` | serialisation is canonical; valid snapshots hang together; a diff leads from one to the other |
| `MigrationPlans` | `validateMigrations`, checksums, `createMigrationPlan`, rollback selection | a plan is what the history leaves; edits are noticed, blanks are not |
| `MigrationFiles` | DDL of both dialects, the workflow's files, the CLI's commands | executed statements lead to the schema; generated files come last; check, baseline and repair agree |
| `OrmQueries` | `orm/core/mod.ts` | conditions mean what they say, under precedence and `null`; rows arrive; snapshots agree with tables |

`JobCases`, `StateCases`, `WebCases` and `DataCases` hold their inputs. Several of these
modules are recursive (trees of values, chains of causes) or fold over their inputs; what
those compute is checked, not proved. For the rest `AlgorithmProofs` proves eleven of these
statements for every input (section 6).

## 4. The runs

Each configuration is named after its run. All counters stop at a bound that is a
constant of the module. Deadlock is not an error in any run: all of them can stop,
because the clock, the ids or the calls are used up. What must not get stuck is stated
as liveness.

Where a property is a conjunction of promises that belong together it has a name of its
own: `StoreIsSound` (the records of a job store are typed, agree with each other and
with what was run), `Consistent` (of the cache), `TypesOK`, `BudgetsAreKept`,
`EverythingSettles` (of a suite).

### Job queue

| Run | Instance | What it asks |
| --- | --- | --- |
| `JobQueue` | 2 jobs, one of them keyed, room for 1, 2 workers of which one lacks a definition, 2 clients with cancel, retry, delete and reused ids, 2 attempts | `HandlersExclusive`; `StoreIsSound`: `TypeOK`, `CapacityRespected`, `AttemptsMatchHistory`, `RunsWithinBudget`; `RunningHasOwner`; `EvictionSparesLiveJobs`; `SuccessNotUndone` |
| `JobQueueLifecycle` | 2 jobs, both fit, unlike registries, delays 0 and 1, clock to 3, fair | `EveryJobSettles`; `ImplementsLifecycle` |
| `JobQueueDuplicate` | 3 jobs of one key | `OneLiveJobPerKey` is violated: see section 7 |
| `JobListing` | 3 jobs, pages of one, the memory store | `PagesMissNothing` is violated: see section 7 |

One job more than fits makes the store evict, also the job a worker has in hand; two
workers and two clients are enough for a stale write of each against each. Two attempts
reach the boundary `attempts < maxAttempts` from both sides; without a backoff, an
attempt too many would happen before the clock stops. The clock of `JobQueueLifecycle`
lets both attempts of a deferred job, with the backoff between, come before the bound.
`HandlersExclusive`, `RunsWithinBudget` and `AttemptsMatchHistory` speak of jobs that
callers did not revive (`Once`): enqueueing an id again, or `retry()`, while an old call
still holds the job legitimately starts it a second time. `MaxRuns` ends such revivals
after one run, and no attempt.

### Durable queue

| Run | Instance | What it asks |
| --- | --- | --- |
| `DurableJobs` | 2 jobs of one key, one of them unknown to the registry, 2 producers, 2 workers, crashes, rejects, cancels | `LeaseMeansNotStarted`; `HandlersExclusive`; `StoreIsSound`: `TypeOK`, `OneRowPerKey`, `RunsWithinBudget`; `ImplementsRecovery`; `UnstartedClaimsComeFree` |
| `DurableCrashed` | 1 job, 1 producer, 1 worker, crashes only | `CrashedJobsRecovered` is violated: see section 7 |

A lease of two time units and a clock that runs past the last one (`Horizon`) let leases
expire at every await of their holders, and let a late worker extend a lease that is not
its own. New jobs are enqueued only until `MaxTime`, claims happen until `LastLease`,
heartbeats one unit longer; otherwise the clock's bound would show up as a liveness
failure that the code does not have. The backoff is 0 here, which lets a failed job be
claimed at once; the backoff itself is the business of `JobQueueLifecycle`. `late` holds
the jobs that were reclaimed from a live worker. The claim is that this is the *only*
way to two handlers: not a crash, a lost answer or a cancel. `LeaseMeansNotStarted` says
two things: a row with a lease counts no attempt by the worker that claimed it, and the
row of a worker that has started its job has no lease. A heartbeat from the handler can
therefore extend no lease but one that somebody else was given.

### Cache

`CacheClient`: 2 isolates, 2 calls, 2 keys, room for one entry, a time to live of 1 and
a clock to 1, three kinds of call (plain, with the lock, and a `forceRefresh` with the
lock), on a store that may reject. `SingleFlight`, `Consistent` (`TypeOK`,
`NothingDangles` and `WithinMaxEntries`), `LockedFillOnce`, `EveryCallSettles`. Two
calls cover the pairs: same isolate and same key (joined promises), two isolates and one
key (the lock), two keys (eviction). One expiry suffices for a late look to judge an old
entry while a new one is stored. A third call was not affordable; it would add a joiner
to a race of two.

### SQL executors

| Run | Instance | What it asks |
| --- | --- | --- |
| `SqlTransactions` | 3 calls, 2 connections, 2 writes per callback, the executor on a pool, on one client and on SQLite, every failure, caught or not | `PoolIsClean`; `AtomicWhenAlone`; `SomewhereToSend` |
| `SqlOverlap` | 2 calls, 1 write | `RollbackUndoes` is violated: see section 7 |

Three calls are two that overlap and a third that comes alone after them:
`AtomicWhenAlone` says that the damage of an overlap ends with it. Its promise of all is
made to calls none of whose statements failed; to one whose callback caught a failure it
says what is left: nothing that the aborted or lost transaction had written, although
`transaction()` resolves (section 7). The calls are interchangeable, and the run uses it
(`CallSymmetry`). Two overlapping calls are also what a `begin` inside an aborted
transaction takes.

### Migrator

`Migrator`: 2 processes with 2 calls each, 3 migrations of which two have a down step,
all three kinds, one edited migration. `HistoryTrue`, `AppliedInOrder`, `LockExcludes`,
`EveryCallSettles`. Three migrations make a gap in the middle possible; two calls each
make an up after a down, and a plan that is older than both. The provisos are what the
code does not protect against: `HistoryTrue` is claimed in transactions only and excepts
rollbacks that were planned on rows that are gone (`stale`); `AppliedInOrder` is claimed
until an up overlaps a down (`mixed`).

### The suites

`SafetySuite` and `LivenessSuite` check components that share nothing in one state
graph: `component` says which of them acts, and the others stay in one initial state. An
action of a component that does not act is never enabled, so its fairness holds and says
nothing, and each component's behaviours are those of its own specification. The two
differ in what they need: symmetry and many states, or fairness. `MCStateSuite` is the
part of `SafetySuite` that has state - sessions, object stores, job listing - and is
what its theorems are about; `MCSafetySuite` extends it by the algorithms, which are
recursive. The constants of the components keep their names and get their values in the
two `.cfg` files; where two components would use one name for different things the
instance renames (`place` for a second `pc`, `Nothing` for a second `None`).

`SafetySuite`, 511 799 states:

- *Sessions*: 2 requests, the memory store with rolling and room for 2, the cache store,
  the noop store, ages up to `MaxAge` 1, a clock to 1, 3 ids (2 over the cache store,
  which evicts nothing). `EndedStaysDead` and `OneSessionPerLogin` are what a user of
  `destroy` and `rotate` relies on, with the provisos made exact: only a request that
  was under way when the session ended or moved on brings it back (`contested`), and
  only a rotation that is under way or failed half-way has two ids. Two requests are one
  that ends a session and one that holds a copy of it; three ids are a login, its
  rotation, and another login that evicts.
- *Object stores*: 2 writers, 3 keys of which 2 are below the listed prefix, room for 2
  in memory, pages of one object. `ListingsMissNothing`: who follows the cursors meets
  each object that was there all along, once, in order, and none that never was.
  `TornNeedsCause`: a file that nobody writes is torn only where writes overlapped, were
  cut off or rejected. The next put that is alone makes it whole, and the key starts anew.
- *Job listing*: both stores, 3 jobs; `ListingsMissNothing` for the PostgreSQL store.
- *Algorithms*: 21 142 inputs of 34 topics. `NothingLostOnTheWay` joins what is stated
  about conversions, `LimitsAreKept` what is stated about bounds and `SecretsStayInside`
  what is stated about redaction, tokens and signatures. The inputs are few and chosen:
  a mistake in any of the twelve modules should have an input here that shows it.

`LivenessSuite`, 141 205 states:

- *Rate limiters*: both limiters, 2 concurrent calls, limit 1, period 2, refill 1 (half a
  token in a millisecond, so that a wait takes longer than one tick and ends at a level
  that is just enough), costs 1 and 2 (one above the limit, never to be granted), clock
  to 2.
  `Exclusive`; `WithinBudget` (in `BudgetsAreKept`), the property users rely on, over
  *every* interval of grants: less than a window's length gets at most twice the limit
  (the known boundary burst of fixed windows), and a bucket never gives more than its
  capacity plus the refill; `RetryAfterSuffices`, with the exception that the doubles make
  necessary stated exactly: a second refusal comes at the very millisecond that was
  promised, because of rounding, and asks for one millisecond more. They hold through refusals, failures
  and expiring entries, because an entry lives as long as it takes to become a fresh
  one.
- *Job worker*: 2 ticks, 1 `stop()`, concurrency 1 and 2, with and without
  `stopOnError`, the owner's ticks and the interval's. `StopIsGraceful`,
  `StoppedMeansQuiet`. Two ticks suffice for one that fails while the other one is
  active and awaited by `stop()`; two tasks for one that fails before its turn.
- *Log sinks*: a single sink, a fanout and a failover, synchronous or not, 3 lines of
  which the first is an error, room for 2 in the buffer, 2 failing writes.
  `LinesAreKept`: none is lost, and they are in order (claimed until batches overlap
  *and* one fails or overtakes: `disturbed`).
- *HTTP client*: every method, option and abort reason, 2 retries after the first try,
  the network at its worst. `BudgetsAreKept`: attempts within the budget, a POST sent
  once whatever timed out, "exhausted" only after all retries. One
  request is enough for these, since requests share only the response cache, whose
  content at the start is arbitrary.
- `EverythingSettles`: limiter calls, also behind one that failed; ticks and `stop()`;
  logged lines; requests that are aborted, wherever that finds them; and requests with a
  timeout, unless they read the body of a failure.

## 5. Fairness

Fairness is weak throughout and only on what the runtime or the deployment makes happen;
no call of a user, no failure and no crash is fair.

- *The runtime resumes an await whose promise has settled* (`Progress`, `TickStep`,
  `StopResolves`, `Release`, ...). That is the event loop.
- *A promise settles*: handlers and factories return or throw, statements return or
  reject. The code has no timeout of its own for handlers, so this is an assumption on
  its users.
- *Workers poll*: `Claim` is fair, because `worker.start()` sets an interval.
- *A wait for a lock ends* (`LockTimesOut` in `CacheClient`): `acquireLock` gets
  `lockTimeoutMs`.
- *Somebody sweeps* (`DurableJobs` only): `reclaimExpired` is fair, as the jobs README
  tells an operator to arrange.
- *The log interval fires, and batches settle* (`LogSink!Fairness`): the interval is a
  `setInterval`; that a write settles is an assumption on the sink. `EveryLineWritten`
  excepts a closed buffer and a process that an interval's failure ended.
- *A request goes on* (`HttpClient!Fairness`): its delays pass, its cache answers, and a
  fetch with a timeout or an aborted signal is settled by it (`withTimeout`, the abort of
  the request's controller). A fetch with neither may hang for ever; so may the body of a
  failure, until the signal is aborted: `withTimeout` has cleared its timer by then.
  `Begin` and the network are not fair.
- *Time passes*.

`HandlerSucceeds` and `HandlerThrows` are fair as a disjunction: neither has to happen
rather than the other, and a handler may fail for ever. In `Migrator` a step, its record
and its commit end well *or* badly (`MarkFails` is among what may end them), so that two
processes whose rows wait for each other get out because the database rejects one of
them, which PostgreSQL does; `EveryCallSettles` does not test that.

## 6. The proofs

Eight modules hold proofs. What TLAPS proves holds for every number of jobs, workers,
callers, isolates, keys, lines, requests, connections, processes and migrations, for
every option, and for clocks and ids of any bound. It rests on the `ASSUME`s of the
modules only (`QueueAssumption`, `DurableAssumption`, `CacheAssumption`,
`LimiterAssumption`, `SqlAssumption`, `MigratorAssumption`, `SessionAssumption`,
`SuiteAssumption`, `StateAssumption` and those they name), which say what the code's
option checks accept, and which TLC evaluates in the runs. Two theorems have a
hypothesis of their own, named below.

Almost no property is inductive as it stands. Each proof has an invariant that is, a
conjunction of named parts; TLC checked each on its run before it was proved. One lemma
says that the initial states satisfy it, one per kind of step that the step keeps it, and
the theorem draws the property from it.

**JobQueueProofs**

- `TypeCorrect`: `TypeOK`, proved with `Shape`: what a call has in hand fits the await it
  stands at, for instance that a worker at "running" holds a job id and not `NoId`. The
  eviction and `CreateFailedJobRecord` must be shown to yield records
  (`RecordsStaySlots`, `BackoffIsNat`).
- `NothingLeftRunning`: `RunningHasOwner` is inductive with the above. The cases worth
  reading are the client's: `CancelUpdate`, `RetryUpdate` and `EnqueueStore` write stale
  copies but never a "running" one, since only workers write that.
- `ExclusiveHandling` and `AttemptsWithinBudget` share `AttemptInv`. That two workers do
  not hold a job rests on a held job not being queued in the store (`HeldNotQueued`), and
  on nobody else having an id that a client has looked up and not yet stored
  (`PendingUntouched`); that the budget holds rests on a queued record, and on the copy of
  whoever holds the job, carrying the true number of attempts (`QueuedCountsRuns`,
  `HeldCountsRuns`). All of it is claimed for the jobs of `Once`.
- `StoreStaysSound`: `StoreIsSound`, *if the seed fits in `maxJobs`*: seeds are stored
  without looking at it, and a larger seed stays until something is written. The count of
  attempts and the history agree by `HistoryInv`, which says it of every copy as well.
- `LiveJobsSpared`: the eviction gives up a live job only when no finished one is left.
  It needs `CapacityInv` and that evicting a live job means that the finished ones were
  not enough, which is an argument about cardinalities.
- `SuccessIsFinal`: `SuccessNotUndone`, because nobody still holds a job that succeeded.
- `QueueImplementsLifecycle`: `ImplementsLifecycle`, step by step, *if callers have no
  operations but `enqueue` and all ids fit in the store*; the others break the promise of
  the abstract queue by design. `QuietInv` says that a held job is running in the store,
  so that no write is stale.

**DurableJobsProofs**

- `LeasesAreUnstarted`, `ExclusiveHandling` and `StoreStaysSound` from one invariant,
  `DurableInv`. Its core is the same as in the memory queue, but a worker can lose its job
  to `reclaimExpired`, so that what is said of a holder is said of jobs that were not
  reclaimed from a live one (`late`), and a row counts attempts that the worker who made
  them may never have learned of. A key has one row because of the unique index, whoever
  raced for it.
- `DurableImplementsRecovery`: `ImplementsRecovery`, the refinement of `JobRecovery`, for
  every instance and all failures. Each step of a worker, a producer, a crash and a sweep
  maps to one abstract step of one job, or of all swept jobs at once, or to a stutter.
  It needs one invariant more, `RowsKnowHands`: of a job that is not late, the row and the
  worker disagree only by a cancel, or by a success whose answer was lost. Without it a
  crash could leave the job in a phase that its worker was never in.

**CacheClientProofs**: `OneFlightPerKey`, `NothingIsLeft` and `LockFillsOnce` from
`CacheInv`. `ControlInv` says that a call between `Own` and `Cleanup` is the one its
isolate's map names, and that a lock is held by a call of that key; `StoreInv` that
`older` orders the entries in one line, from which it follows that an eviction leaves
`maxEntries` of them; `FillInv` that a factory which has run under the lock has left a
live entry or is about to store one.

**SqlTransactionsProofs**

- `TypeCorrect`, `PoolStaysClean`, `AlwaysSomewhereToSend`: by `PoolInv` each connection
  is idle or owned by exactly one call, a transaction is open only on the connection of
  a call that has not yet ended it, and as long as there is no transaction client some
  connection is idle. Overlap does not matter for the pool.
- `AtomicAlone`: `AtomicWhenAlone`. By `AloneInv` what a call has written that is still
  alone is pending on its own connection and nowhere else, until it is committed or gone
  as a whole. It needs `WroteInv`: nothing is written that was not counted, and the
  transaction client is the connection of a call that has not ended, so that the damage
  of an earlier overlap is over when the next call begins.

**MigratorProofs**

- `TypeCorrect`.
- `HistoryStaysTrue`: `RowsInv` adds to `HistoryTrue` that a call between mark and
  commit still finds the row as it found it (`StillAsFound`) and that no two such calls
  are about to write the same row (`OneWriter`). Both rest on the primary key and the
  row locks, not on the migrator.
- `MigrationsExclude`: `LockInv`: at most one process has the lock, and whoever runs
  migrations in memory is that one.
- `OrderKept`: `OrderInv`: while no up has overlapped a down, all calls under way go in
  one direction (`OneDirection`), and what a call's plan does not hold is already done
  (`PlansFit`): before each migration that is still to be applied everything is applied
  or in the plan, after each that is to be rolled back everything is gone or in the
  plan. This is what makes a plan older than the lock harmless for the order.

**LivenessSuiteProofs**, about the suite's specification, of whose steps each component
sees its own and stutters otherwise (`SuiteSteps`):

- *Rate limiters*
  - `BodiesExclude`: `Exclusive`. `MutexInv` says that the unsettled calls form one line,
    each chained to the one before it, that ends in `tail`. Exclusion follows because only
    the first has `prev = None`; it survives failures because a rejected body settles like
    any other.
  - `GrantsWithinBudget`: `WithinBudget`. `BudgetInv` relates the history to the entry: what
    the entry says was consumed covers all grants that still count, or so much time has
    passed that a fresh entry is worth as much (`EntryCovers`, and `DeciderCovers` of the
    state a body has looked up). That an entry may expire rests on its TTL being rounded up.
  - `WaitingIsEnough`: `RetryAfterSuffices`. `PromiseInv` says that at the promised time the
    entry, and the state of whoever decides, has the units, and a millisecond later more
    than those; the window's is empty by then, the bucket's refilled because the wait is
    never less than what is missing takes. What is left to refuse it is a double that
    falls short of just enough.
  - `TypeCorrect`: levels, times and promised waits are natural numbers, although the code
    subtracts: what is refused has a shortfall, what is granted leaves a remainder.
- *Job worker*, from `WorkerInv`: `StopWaitsForJobs` (a tick that awaits its n-th task has
  seen those before it settle, and without `stopOnError` none throws) and `StoppedStaysQuiet`
  (there is one interval exactly while the flag says running, `OneInterval`).
- *HTTP client*, from `ClientInv`: `BudgetsHold`. `CallInv` counts
  what was sent by the attempts begun; `WireInv` bounds what the server got by what was
  sent and is no longer on the wire. `BudgetsHold` takes the limiter's part from
  `GrantsWithinBudget`.
- *Log sinks*, from `SinkInv`: `LinesKept`. The lines a sink took, the batches under way
  and the buffer are one interval of numbers without a gap (`InLine`), in the order in
  which they will be written, until overlapping batches fail or overtake each other.
- `TypesHold`.

**StateSuiteProofs**, about `MCStateSuite` and its three parts:

- *Sessions*: `EndedStayDead` and `LoginsStaySingle`, from `SessionInv`. An id is *live*
  for a login if it is stored or held by a request that is not late, a login *quiet* if it
  is not contested and no late rotation of it is to end. `OneNext`: of the live ids of a
  quiet login all but the newest are being rotated away, each by a rotation under way.
  That a rotation finds its own predecessor gone rests on the second of two rotations of
  one id making the first one late.
- *Object stores*, from `StorageInv`: `FilesStayWhole` and the first half of
  `ListingsAreComplete`. What a listing has returned, its page and its cursor ascend
  (`PagesAscend`), and what was there all the while is returned, on the page, or not
  before the cursor (`KeptIsAhead`).
- *Job listing*, from `ListInv`: the other half of `ListingsAreComplete`. The cursor of the
  PostgreSQL store is the last id returned, so what was there all the while is returned
  or after it (`KeptIsAfter`). The memory store's cursor has no such invariant: section 7.
- `StateTypesHold`.

**AlgorithmProofs**, about operators, so for every input rather than every behaviour. Each
theorem states what `MCSafetySuite` checks on the inputs of the four case modules. Its
hypotheses are the types of the inputs, positive numbers of hours and minutes for
the calendar, and a finite number of metadata keys for an upload:

- *Schedules*: `CronFindsTheNextRun`, for every calendar. The step that takes work is that
  `ParseCronField` and crontab's meaning of a field (`Meant`) agree on every list of tokens
  with ranges and steps.
- *Jobs*: `RecordsSurviveTheStores` (a record that was normalised once is normalised for
  good), `CallersRetryGoesFirst`, `RegistryFindsOneJob`, and `SteadyBackoffIsBounded` for
  the fixed and the linear strategy.
- *Storage*: `UploadsBreakNoRule` (the order in which the rules are tried does not matter),
  `AcceptedObjectsComeBack`, `SignaturesCover`.
- *Sessions, schemas, environments*: `UnsafeRequestsEchoTheToken`, `ValidNamesAreThere`,
  `SecretsComeFromTheSource` (a prefix may make a name look secret, and never the reverse).

*Lemmas about the models' operators* that several of these need: what removing a position
leaves of a sequence (`CutOut`), what an eviction leaves (`EvictHolds`, `OrderHolds`,
`RecordsStaySlots`), what a page holds (`PagesHold`, `SqlPageHolds`), how concatenation
and `Head`/`Tail` move lines (`ConcatHolds`), how rounding up bounds a quotient
(`QuotientIsNat` and those after it).

*Only model-checked.*

- Liveness (`EveryJobSettles`, `UnstartedClaimsComeFree`, `EverythingSettles`, every
  `EveryCallSettles`): it needs fairness and ENABLED, which are out of the prover's reach.
- `NothingLostOnTheWay`, `LimitsAreKept` and `SecretsStayInside` as a whole. They range
  over the inputs of all twelve algorithm modules, five of which are recursive
  (`ErrorValues`, `HttpRequests`, `LogRecords`, `MigrationFiles`, `OrmQueries`), and no
  module with a theorem may reach a recursive operator. Of the conjuncts about the other
  modules these remain: growth of the *exponential* backoff, because the provers know
  nothing of `^`; and what is computed by a fold or a filter over a sequence (cookies out
  of a header, bucket paths, token providers, canonical snapshots and their differences,
  the files of an environment, `MigrationPlans`), because what a fold computes for every
  sequence needs induction over data, with library theorems the provers cannot instantiate.
- The theorems of `StateSuiteProofs` are about `StateSpec` (and `Session!Spec`), not the
  `SuiteSpec` of the run, which adds the algorithms' component: in its behaviours
  the three others do not move.

## 7. Where the code and its documents disagree

Four disagreements are runs of their own.

- **`JobQueueDuplicate`.** `jobs/README.md:71` says that repeating an enqueue with an
  idempotency key returns the existing job. `findByIdempotencyKey` returns the first
  record of the key in insertion order; if that is terminal `enqueue` ignores it and
  does not see a later live one. Enqueue, finish, enqueue, enqueue: two live jobs. (Over
  PostgreSQL the unique index turns this into an error instead.)
- **`DurableCrashed`.** `jobs/README.md:123` says `reclaimExpired()` recovers the jobs
  of crashed workers. Storing "running" clears the lease, and `reclaimSql` only looks
  for leases. A worker that dies *in its handler* leaves the job running for ever.
  `LeaseMeansNotStarted` is the same fact read positively: what is reclaimed was never
  started.
- **`JobListing`.** `jobs/mod.ts:227` calls the result of `list()` a paged response. The
  memory store's cursor is the id of the *first job of the next page*, and the next page
  begins *after* the cursor's job: a caller who reads page by page never sees the first
  job of any page but the first. If that job is deleted in between, the listing begins
  anew. The PostgreSQL store returns the last id of the page and loses nothing
  (`PostgresPagesMissNothing`).
- **`SqlOverlap`.** `orm/README.md:133` says a transaction is rolled back if `fn`
  throws. Overlapping transactions of one executor share its client: one that fails may
  leave its writes to be committed by the other, or have made them outside of any
  transaction.

Others were met while modelling. The models contain the behaviour, and the properties
exclude it by the provisos named.

- A running job that is canceled becomes "canceled", and then whatever its handler makes
  of it, queued for a retry included; `jobs/mod.ts:1458` says a terminal job is not
  processed again automatically.
- Over PostgreSQL `heartbeat` compares no holder, and while the handler runs the lease
  is null: it reports the lease lost (`jobs/mod.ts:294`) to a worker that still has the
  job, and a worker that heeds it aborts (`HeartbeatRefused`).
- `stop()` awaits the active ticks, but with `stopOnError` a tick gives up its remaining
  tasks, which go on after `stop()` has resolved (`jobs/ROADMAP.md:265` calls the stop
  graceful). A task that fails before its turn, or after the tick has given up, is an
  unhandled rejection.
- Ticks of the interval overlap, so that more than `concurrency` jobs are processed at a
  time (`jobs/ROADMAP.md:155`).
- The cache client's late expiry check deletes by key: it can take a fresh entry that
  another call has stored meanwhile, and then a value is computed again in spite of the
  lock (`cache/README.md:70`; the proviso `dropped`).
- A deletion during a computation does not stop the value from being stored.
  `forceRefresh` joins a computation that began before it. A factory that asks for its
  own key, or a handler that awaits its own worker's `stop()`, waits for itself; neither
  is modelled.
- `tokenBucketRateLimiter` "reports a precise `retryAfterMs`" (`cache/mod.ts:822`), which
  doubles do not allow: with 1 token per 161 ms a caller who waits the 161 ms it is told
  to meets `161 * (1 / 161)` tokens, which is less than 1, and is refused for another
  millisecond. `RetryAfterSuffices` excepts exactly that.
- A request that costs more than the limit gets a finite `retryAfterMs` though it can
  never be allowed; `RetryAfterSuffices` speaks of requests within the limit. With a
  store whose look-up happens later than the limiter's look at the clock, an entry that
  expires in between counts as never written; the model has the memory store's immediate
  look-up.
- `transaction()` resolves although nothing was committed when `fn` catches the failure of
  a statement: PostgreSQL has aborted the transaction by then and turns `commit` into a
  rollback, of which only the answer's command tag tells. Nor does anything keep a
  callback from writing on, each write for itself, when SQLite has rolled back by itself
  or the connection was lost (`fate`; `AtomicWhenAlone` says what is left).
- The migrator plans before it locks. With the memory store, and without transactions, a
  second migrator therefore runs migrations that the first has just applied; in
  transactions the primary key undoes the second run. A stale rollback runs its down
  step again and ignores that `unmarkApplied` found nothing (`stale`).
  `migrate/ROADMAP.md:850` lists the advisory lock as open. An up that overlaps a down
  can leave a gap (`mixed`).

*Sessions, storage.* `destroy` and a rotation do not reach the copies that other
requests hold: a rolling `get`, a `save` or an `update` stores the session again
(`contested`). `rotate` that fails after its first write leaves both ids valid. The S3
store passes a prefix on as it is, the other two treat it as a directory, so that the
prefix `a` lists `ab` in S3 and not elsewhere; `normalizeStorageKey` turns `.//x` into
the absolute `/x` and `.` into the empty key. A local file torn by overlapping
writes, or by one that rejects after it has truncated (`STORAGE_PUT_FAILED`), is an
object lost, and fails every listing it is on.

*HTTP, logs.* `http/README.md:59` promises exactly one terminal log entry for each
request; a cache hit logs only "served from cache". A caller whose abort reason is a
`TimeoutError` has its request "retried" until the retries are used up, though nothing
is sent. `fanoutSink` "writes every line to all of the given sinks" (`log/mod.ts:452`),
but a sink that throws synchronously ends the loop, and the batch that comes back is
written twice to those that took it. `levelSink` forwards a line "only when its level is
at least `minLevel`" (`log/mod.ts:508`); behind a buffered sink a batch of several lines
is not one JSON value and passes whole (`LinesComeBack` speaks of single lines). An
interval's failed flush is an unhandled rejection (`crashed`). The timer of `timeoutMs`
is cleared when the head of the answer is there: a failure's body that never ends hangs
the request for as long as its signal is not aborted (`http/mod.ts:1019`).

*Environments.* The name of a variable is judged with its prefix where a default is
refused (`env/mod.ts:288`) and without it where values are redacted or an example is
written (`env/mod.ts:366`, `:401`); `SecretsAreExplicit` states each as it is. The example file writes its values without
quotes (`env/mod.ts:377`, `:380`), and the parser trims and unquotes: of a default that is
blank, has blanks or quotes around it, or has several lines, something else comes back,
or - in production - an error. `ExampleIsAccepted` says that those are the only ones.

*Schedules and schemas.* An interval need only be positive (`jobs/mod.ts:1383`), and `Date`
cuts off what is less than a millisecond: a job with `everyMs: 0.5` recurs at the instant
of its run. `IntervalGoesOn` says that a millisecond is enough. A day field `*/1` is every
day and still counts as restricted (`jobs/mod.ts:1320`), so that the other day field
no longer restricts anything. "A valid expression always recurs within 4 leap years"
(`jobs/mod.ts:1292`) is not so for `0 0 29 2 *` before 2100: after 29 February 2096 the
search ends without a run (`NextRunIsNext` allows it). Two check constraints without a
name have the same sort key, so `serializeSchemaSnapshot` is canonical only up to their
order (the proviso of `SnapshotsAreCanonical`).

*Migrations.* An id with blanks around it is valid, and is looked up as it is among
trimmed ones: its migration is pending for ever (`Trimmed`). The generator ignores
changes of constraints and indexes alone: `generate` says "No schema changes detected."
while `check` reports `schema_changed`, for ever (the inputs of `GeneratedComesLast` ask
for generated migrations only). The command line gives `check` no database, so that
every migration counts as pending (`cli/mod.ts:411`). Files are listed by number and
applied by `localeCompare`, which differs for numbers of unlike length
(`ListedOrderIsApplied`). `repair` deletes and inserts each row without a transaction.

*ORM.* `insert` and `update` write property names where `.named()` gave a column another
one (`orm/ROADMAP.md:207` says it overrides); a default that is a function is never
called; queries ignore a table's `schema`. `InsertedArrives` excepts named columns.

## 8. What is not modelled and why

- **Testing**: assertions, fake clocks and mocks for the tests of users; nothing of the
  system runs on them. **Integration tests, benchmarks, examples, scripts**: users of
  the packages that add no behaviour.
- Of the **cache client**: `has`, `keys` and `close`. Of the **migrator**: `clear` and
  `close`, and a store whose `releaseLock` fails. Of the **job listing**: filters, which
  only choose the jobs to look at, and `stats()`. Of **storage**: the reading of bodies,
  S3's XML, the record format of local files. Of the **ORM**: running a query and
  mapping its rows, which is the executor's part, and helpers that only rename types.
- Everywhere: several queues, payloads and jitter beyond its bounds; connection errors
  and retries of the PostgreSQL client; entries without a time to live, value cloning,
  key syntax (cache); fractional limits and costs, and several keys (rate limiters); the
  libsql executor, whose `#tx` works like `#transactionClient`; hooks and log calls of
  the HTTP client, which cannot disturb a request; pretty printing and the sinks of
  Deno; argument parsing, output and the splitting of SQL text (migration CLI).

## 9. The plan

Done, in this order: job records and memory queue; life cycle; durable queue; worker;
cache client; rate limiters; SQL executors; migrator; their first theorems; sessions,
log sinks, HTTP client, object stores, job listing; the algorithms of jobs, sessions,
storage, HTTP, logs, environments, errors, schemas, migrations and queries; the theorems
about every state machine, the refinement of both job queues, and the theorems about
algorithms.

What is left:

1. Abstract specifications beside `JobLifecycle` and `JobRecovery`: a cache as a function
   that is computed once, a buffered sink as a queue of lines.
2. Of the properties that carry a proviso (`late`, `contested`, `mixed`, `stale`,
   `disturbed`, `dropped`), how much less the proviso could say.
3. The hazards without a property: a task that rejects before its turn, an entry that is
   deleted while its factory runs.
