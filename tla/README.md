# AtlasPipe: specification and verification

TLA+ specifications of AtlasPipe (the Python package under `src/src/atlaspipe/`), the TLC runs
that check them and the theorems TLAPS proves about them. Paths below are relative to
`src/src/atlaspipe/` unless they start with `src/`.

AtlasPipe crawls URLs. An HTTP API accepts a list of URLs as a job and writes one row per URL into
PostgreSQL; worker processes on any number of hosts lease rows, fetch the pages and store them.
There is no coordinator: what keeps workers, API replicas and restarts apart are rows, row locks,
lease tokens and clocks. That protocol is the centre of this project. An older in-process pipeline,
the fetching itself, the worker's start, heartbeat and exit, the shared quota of the API, and the
release script with the migrations it runs are the other parts with behaviour of their own.

## 1. Inventory

| Component | State it keeps | Operations | What is hard | What makes it correct |
|---|---|---|---|---|
| Durable frontier (`db/repositories.py`, `db/models.py`) | `crawl_frontier` rows (state, attempts, owner, token, expiry, availability), `pages` | schedule, acquire a batch, bury exhausted leases, renew, save and complete, fail, job progress | transactions of many workers on the same rows, `SKIP LOCKED` beside an UPDATE that waits, clocks that differ, a clock read before a lock wait | only the holder of the current lease writes a row; attempts are bounded; final states are final; every row ends |
| Frontier worker (`crawler/frontier_worker.py`) | the leases in hand, one coroutine and one renewal per lease | claim loop, fetch with retries, save or fail, renew | an exception in one coroutine while its siblings run on, a renewal that overlaps the settlement, death at any point | whatever it does late has no effect; what it abandons is recovered |
| In-memory repository (`db/repositories.py`, `InMemoryRepository`) | dictionaries | the same operations, each without an await | must agree with PostgreSQL, or tests that use it show nothing | implements the same abstract queue |
| In-process pipeline (`pipeline/pipeline.py`, `pipeline/deduplication.py`) | two bounded queues, counters, deduplicator, batch | feed, work, write, `join`, sentinels | shutdown order, full queues, exceptions of workers or of the writer | no page lost, no URL stored twice in a statement, it ends |
| Rate and domain limiters (`crawler/rate_limiter.py`) | token bucket, one semaphore per domain | `acquire`, `limit` | late timers, idle bursts, competing sleepers | rate, burst and fetches per domain are bounded, everyone is served |
| Fetcher, URL validation, retries (`crawler/fetcher.py`, `pipeline/validation.py`, `crawler/retry.py`, `frontier_worker.py` 276-300) | an HTTP session, the attempts of a lease | `_fetch_with_retries`, `fetch`, redirects, resolve | a DNS that answers differently each time, redirects to anywhere, retries that wait for limits others hold | only valid URLs and public addresses are visited; every request is paid for at the limiter; only failures are repeated; it ends |
| Worker process (`worker.py`, `worker_health.py`) | tasks, stop event, heartbeat row | signal, drain with deadline, cancel, clean up | cancellation in a transaction, two tasks that end in either order, coroutines that outlive `gather`, an older process under the same id | a successful exit leaves neither lease nor heartbeat; signals and failures end it |
| Worker gauges (`observability/telemetry.py` 111-173) | gauges | `refresh_queue_metrics` | the clocks of API and database, a row its worker no longer writes | a beating worker is not counted as failed; a dead one is, until its leases are recovered |
| Job submission (`api/routes/crawl.py`, `api/security.py`, `api/dependencies.py`) | `api_quotas`, `crawl_jobs`, `crawl_frontier` | authorize, validate, consume quota, create job | replicas that share a counter, two transactions per request, the commit after the response | the quota is a bound; a job is whole or absent |
| Release controller (`release.py`) | outcome file; ECS services | migrate, update, wait, verify, smoke test, roll back | calls that raise after they took effect, ECS acting by itself, interrupts | what the file says is what is deployed |
| Schema and migrations (`src/migrations/`, `bootstrap.py`, `db/models.py`, `/ready`) | tables, `alembic_version`, grants | upgrade, grant, probe | a migration that dies or overlaps the next, old code on a new schema | running code finds what it uses; "ready" means the schema is complete |
| Statistics rollup (`db/repositories.py` 544-598) | `domain_stats` | refresh, read | none here: only a benchmark refreshes it | not modelled |
| API application and read routes (`api/app.py`, `api/routes/`) | none | GETs | - | `/ready` is in `Schema`; the rest is not modelled |
| Pure functions (`pipeline/normalization.py`, `parsing/`) | none | - | text | constants of the modules that use them |
| Wiring, infrastructure, scripts, benchmarks | - | - | - | not modelled |

How they interact:

    client --POST /crawl--> API replica --quota tx, job tx--> PostgreSQL (api_quotas,
    client <--202, GET /jobs/{id}-- API                crawl_jobs, crawl_frontier, pages,
                                                          worker_heartbeats)
    worker process: main -> heartbeat task ------------------> worker_heartbeats
                         -> drain task -> claim loop --------> crawl_frontier (claim tx)
                              per lease: coroutine -> rate limiter -> domain semaphore -> fetcher
                                                   -> save/fail tx -> crawl_frontier, pages
                                         renewal   -> renew tx -----> crawl_frontier
    release controller -> ECS -> migration task, api and worker services; smoke test -> API

Workers and API replicas share nothing but the database. The release script reaches them only
through ECS and HTTP. The in-process pipeline shares the fetcher, the limiters and `save_pages` with
the worker but runs alone.

The hazards of this code, each with the line where it bites and the properties that catch it, are in
`PROJECT.json`. One has no property: the gauge of stalled workers (`telemetry.py:161`) counts a
worker 120 seconds after its last progress, which a batch of slow fetches may legally take, so there
is nothing it promises.

## 2. Modules

| Module | Models | EXTENDS / INSTANCE |
|---|---|---|
| `WorkQueue` | what the frontier promises: a row is tried at most `max_attempts` times and ends once, done with a page stored in that step or dead with its tries used up | |
| `Frontier` | the frontier and its workers | INSTANCE `WorkQueue` (refinement mapping `statusBar`, `triesBar`, `pagesBar`) |
| `InMemory` | the repository of the tests | INSTANCE `WorkQueue` |
| `Pipeline` | the in-process pipeline, its deduplicator and domain semaphores | |
| `RateLimiter` | the token bucket | |
| `Fetch` | the fetch of a lease: limiter, semaphore, validation, resolver, redirects, retries | EXTENDS `RateLimiter` |
| `WorkerLifecycle` | tasks, cancellation and exit of a worker process | |
| `Heartbeats` | the process seen from outside: heartbeat row, kills, an older process of the same id, takeover of leases, the worker gauges | EXTENDS `WorkerLifecycle` |
| `Submission` | POST /crawl with the shared quota | |
| `Release` | the release controller against ECS | |
| `Schema` | the tables as the migrations build them, as the code expects them, and `/ready` | |
| `Deployment` | releases one after the other on one database, their migration tasks, and the code that runs meanwhile | EXTENDS `Release`, `Schema` |
| `FrontierProofs`, `FrontierRefinement`, `InMemoryProofs`, `PipelineProofs`, `FetchProofs`, `HeartbeatsProofs`, `SubmissionProofs`, `DeploymentProofs` | theorems (section 5) | EXTENDS the module of that name; `FrontierRefinement` EXTENDS `FrontierProofs` |
| `MC*` | the instances TLC checks | EXTENDS the module they instantiate |

### Frontier

`row`, `page` are committed rows; of a page only the lease whose result it holds is kept, which no
column records. `issued` counts the lease tokens given per row and stands for `uuid4`: that tokens
differ is built in, that they are compared where they must be is what the properties are about. NULL
is a value of its own (`Null`), and a comparison with it is not true (`Before`, `After`). `acq[w]` is
the main loop of worker w with its claim transaction, `task[w][i]` the coroutine processing row i,
`renewal[w][i]` the coroutine that renews its lease. Each transaction is cut where another process
can run:

- `Now(w)`, the worker's own clock, is read when the repository method starts, before any statement
  waits (`now = datetime.now(UTC)`): `AcquireBegin`, `BeginFinish`, `BeginRenew`;
- a statement looks at committed rows, waits for the lock of those its WHERE matches and looks
  again, as READ COMMITTED does: `MarkRow`, `LockLease`, `LockRenew`; the claim skips locked rows:
  `SelectBatch`;
- the commit makes the writes visible: `CommitBatch`, `CommitSave`, `CommitFail`, `CommitRenew`; an
  empty result ends the coroutine: `RejectStale`, `RenewStale`.

Row locks are derived from the transactions that are open (`AcqLocks`, `TaskLocks`,
`RenewalLocks`), so that `RowLocksExclusive` says something: no definition assigns a lock.
`CommitFail` reads the clock again, as the code does (line 491). The burial is the UPDATE before the
claim, in the same transaction, one `MarkRow` per row, in any order, so that two of them can wait for
each other, in a ring of any length; the server aborts one of them (`DeadlockVictim`). An exception ends the coroutine (`FinishError`)
or surfaces from the renewal when the body is over (`EndTask`, `RenewError`); the main loop is then
"raised", and until `Exit` the sibling coroutines run on and may commit, which is what `gather` does.
`Crash` may happen at any time and rolls open transactions back; `Restart` starts the process again
under the same worker id.

Job progress (`Processed`, `JobStatus`) is computed from the rows as `_job_progress` does; a job without
rows keeps the status column of `crawl_jobs`, which never leaves 'pending' in the code. `complete_frontier_item` completes without
a page; nothing in the package calls it, so it is not an action.

### InMemory

Methods of `InMemoryRepository` never suspend, so each is one step; all use one clock. Leases a
worker was given stay in `held` until used or dropped, so that late use is covered. Two differences
from PostgreSQL that the abstract queue does not show: the first page of a URL is kept, not the last
(`save_pages` skips known URLs), and a failed row that becomes dead gets the retry delay as its
availability. `complete_frontier_item` is left out as above.

### Pipeline

A step runs from one await to the next, since all coroutines share an event loop. `driver` is
`run()`, `worker[w]` a `_worker`, `writer` the `_writer`. URLs, pages, normalized URLs and content
hashes are model values; `Invalid`, `Malformed` and `Unparsable` say which URLs fail validation,
make `urlsplit` raise, or can yield a page whose links make `urljoin` raise. `unfinished` is the
counter behind `task_done` and `join`. Waiting for the token bucket and for the domain semaphore is
the state "limited".

### RateLimiter

Time is counted in ticks and tokens in ticks' worth of a token, so that the arithmetic of the code
(floating point there) is exact; rounding errors are abstracted. Timers may fire up to `Late` ticks
late. The loop body holds an `asyncio.Lock` without an await: one step.

### Fetch

`step[c]` is where a coroutine is in `_fetch_with_retries`; its steps at the limiter are those of
`RateLimiter`, conjoined with its own. `line` is the semaphore of a domain, with its waiters in the
order in which asyncio serves them. A URL is what `validate_public_url` looks at (scheme, host,
credentials). A host is a name, for which the resolver gets any set of addresses at every
connection, or an address, which does not go through the resolver. `Get` is `session.get` up to the
request; `Raises` any exception between there and the result, `Redirect` the handling of a Location
header, `Response` all other answers. A result is "good" or "bad" for the retry policy. Abstracted:
bodies and their limit, headers, ports, and the length of the delay before a retry: `Retry` may come
at once or after any time, as `Retry-After` allows it.

### WorkerLifecycle

`main`, `drain`, `loop`, `heart` and `item[i]` are the asyncio tasks. `cancel()` only asks: a task
gets its CancelledError when it runs next, so a cancelled transaction may have been committed or
not; that is decided when the task ends, which abstracts from a COMMIT still in flight on a connection
that is being closed. A cancelled `gather` may end before its children (`LoopUnwound`), and children
of a `gather` that raised run on until `asyncio.run` cancels them (`Ending`). `lease` tells which rows
the worker leaves leased. A fetch need not end unless it is cancelled. What leases are and how workers
compete for them is in `Frontier`.

### Heartbeats

`Heartbeats` puts the process into time, counted in heartbeat periods, and among others. `age` is how
old `seen_at` of the row is, and `writer` who wrote it; a statement stores the time at which its
transaction began, so that a slow one writes a row that is already old (`Written`). Every step of
`WorkerLifecycle` is one of `HeartWrite`, `HeartWake` or `ProcessStep`, and `Crash` kills the process
at any of them. `OldProcess` runs under the same `ATLASPIPE_WORKER_ID`, writes the same row, and
deletes it when it exits. `Recover` is another worker that claims a row whose lease is no longer
renewed. `Refresh` is the part of `refresh_queue_metrics` that counts failed workers, by a clock up to
`Skew` periods ahead of the database's. `dark` is a history variable: for how long the API could not
see a worker that beats.

### Submission

One credential, any number of replicas (they have no state, so only requests appear).
`Begin`/`Upsert`/`CommitQuota` are the quota transaction: the window is fixed when it begins, the
upsert waits for the lock of the window's row, its WHERE is not asked when there is no row, the DELETE
removes old windows in the same transaction. A transaction spans at most one minute boundary,
because `database_command_timeout` is ten seconds. `Create`/`Respond`/`CommitJob` are the job
transaction: FastAPI runs what follows the `yield` of a dependency after the response was sent
(before 0.118 it ran it first; both orders are allowed by the model). An error at a COMMIT may leave
open whether it took effect. For the quota that is `CommitQuota` followed by `Fail`; for the job, once the
answer is out, it is `CommitJob`, as nobody hears of the error. Left out is the remaining case, a COMMIT of
the job before the answer that takes effect and raises: it needs a FastAPI older than the locked one,
and there the client would be told 503 of a job that exists. The replica's own quota for
injected repositories is test-only and left out.

### Release

`pc` walks through `deploy`; `task`/`rollout` are the PRIMARY deployment of a service and its state
in ECS, which also changes by itself: rollouts complete or fail, and the circuit breaker takes a
service back. The `services_stable` waiter looks at counts only, and is modelled as telling nothing.
An `update_service` that raises may or may not have been applied. `file` is the outcome on disk.
Tasks' health, CPU or counts beyond that are in `rolloutState`. ECS is external and modelled from how
`release.py` uses it.

### Schema and Deployment

In `Schema` a table is the set of its columns and of those an INSERT must give. `Upgraded` is
`upgrade()` of each of the six migrations; `Models` is what `db/models.py` of this revision maps;
`Fits` says that a revision of the code can run on a schema with given grants; `Ready` is the probe.
The models and the bootstrap of older revisions are gone from the repository, so older code is taken to
know, and to be granted, the tables of its own migrations. Grants on sequences and on `alembic_version`
are left out: all keys are IDENTITY columns, whose INSERTs need no grant on a sequence, and no service
reads that table.

`Deployment` runs releases one after another on one database. `ControllerStep` is any step of
`Release`; the migration it starts is a process of its own (`ReadVersion`, `RunUpgrade`,
`CommitUpgrade`, `Bootstrap`, `MigratorDies`), which may outlive an interrupted release and overlap
the migration of the next. Alembic applies all pending migrations in one transaction, after it read
the version outside of any lock; the second of two waits for the first at the first statement they
share, and then fails, because what it creates exists. `running` are the revisions whose tasks run: old
ones until a rollout completes, new ones from `update_service` on. A new API task must answer
`/ready` before its rollout completes.

## 3. Runs

| Run | Instance | Question, and what it shows |
|---|---|---|
| `frontier_lease` | 1 row, 2 attempts, 2 workers with one worker id, clocks 1 s apart, lease 2 s, time up to 4, 2 faults | lease, renewal, expiry, takeover and late writes in all interleavings: commits are fenced, attempts counted, leases neither stolen nor shortened nor drawn out, final states final |
| `frontier_batch` | 2 rows of 1 job, of different priorities, ending at one URL, with 1 and 2 attempts, 2 workers, batches of 2, lease 1 s, time up to 2, 1 fault | several rows per transaction: locks stay exclusive, also in the lock cycle, which does not stop the system; pages match completions when two rows store one page, or one row's lease is taken over under a second token; what a client polls is monotone while one row of its job goes back from leased to pending and the other is done; batches refine the queue |
| `frontier_live` | 1 row, 2 attempts, 2 workers, 2 faults, unbounded time | every scheduled row is settled |
| `in_memory` | 3 rows of 2 jobs, batches of 2, one row with a single attempt, time up to 4 | the tests' repository keeps leases and implements the queue |
| `pipeline` | 2 lists (one with duplicates, an invalid URL and equal pages, one with a URL that cannot be split), 2 workers, queues of 1, batches of 2 | `join` means done, nothing is lost, no two pages share a URL or hash, it ends unless a coroutine raised |
| `pipeline_job_ends` | the same, the writer never fails | violation: a malformed URL hangs `run()` (finding 1) |
| `rate_limiter` (`MCFetch`) | 2 coroutines, 1 retry, 1 redirect, a semaphore of 1 per domain, a host name and a private address, 1 token a second, 2 ticks a second, timers 1 tick late | no span has more grants than burst plus rate; only valid URLs at public addresses are visited; every request is paid for; only failures are repeated; no domain has more fetches at a time than its semaphore admits; every fetch returns |
| `worker_lifecycle` (`MCHeartbeats`) | 2 rows, 2 faults, a signal and a kill at any time, an older process under the same id, statements up to 1 period, clocks 1 period apart, stale after 4 | what a successful exit leaves, when work is cut short, that a beating worker is seen, that the failed gauge clears, that signals and failures end the process |
| `submission` | 5 requests, quota 2 requests and 3 URLs, 3 minutes, windows kept 2, 1 fault | quota kept, jobs whole, refused requests leave nothing, everyone is answered |
| `submission_accepted` | the same | violation: 202 before the job exists (finding 2) |
| `release` (`MCDeployment`) | 2 releases of 2 services from an empty database or the fourth migration to revisions 5 or 6, with and without the injected broken release, interrupts | outcomes are true and tell all; running code fits the schema; ready tells the schema; every release ends |
| `release_interrupted` | 2 services | violation: an interrupt ends without rollback (finding 3) |

Every property of a passing run is also run against a mutated definition (the operators marked
`mutant` in the modules: a dropped guard, a lost reset, an off-by-one), under which it fails.

Why the bounds are enough. Interference in the frontier is between two parties on one row (the
holder and whoever takes over) or on two rows (lock order, shared pages); a third worker repeats
either role, and the theorems below are for any number of all. Time only needs to pass an expiry once after
a renewal and once after a takeover. A job needs two rows to be in states that differ, and one of them a
second attempt, to go back to pending; two rows and two workers also make the smallest ring of waits.
`frontier_batch` checks for deadlock: without `DeadlockVictim` it stops in that ring. In `Pipeline`, queues of one make every `put` able to block. In
`Fetch` a burst of one makes every second caller sleep, one retry and one redirect make each loop
run twice, a semaphore of one makes the coroutines wait for each other, and the two URLs are one that
any check lets pass and one that only validation refuses. In `Heartbeats` a period is the unit, a
statement may take as long as the heart sleeps, and the stale bound is the least the assumption allows;
two faults let a heartbeat and a coroutine fail in one run. In `Submission` the
quota fits two of the valid requests and one of the third kind, windows are deleted within the
three minutes, and one request is over the quota by itself; the code keeps windows for five minutes
instead of two, which delays the same deletion. Two services is what
the system has; two releases let a migration task outlive its own; starting at the fourth migration
leaves two pending, the last two that add a table and a column.
`MaxClock`, `MaxFaults`, `Requests`, `MaxIdle`, `MaxAge`, `MaxReleases` bound the exploration only.

`MCFrontierLive` checks liveness without a bound on time: instead of advancing the clock it ages
every timestamp by a second, down to `-MaxAge`, below which timestamps are not told apart. That is
sound because the code only compares timestamps, and `MaxAge` is how long a transaction may stay
open.

`CHECK_DEADLOCK FALSE` is set where the system ends (a pipeline run, a release, a process exit, a
request that is answered) or where time stops at its bound with every row settled.

## 4. Fairness

- `Frontier`: weak fairness of what a process can do alone (the event loop runs ready coroutines, the
  orchestrator restarts a stopped worker, database statements have a timeout); strong fairness of
  taking a row lock, since PostgreSQL queues those that wait; and the server breaks a ring of waits
  (`deadlock_timeout`), which `frontier_live` with its one row never meets. Nothing forces a fault, a renewal, or
  a claim to select a particular row. Time passes (`SecondPasses`). A claim is only weakly fair: the
  loop polls again for ever. A fetch ends: `request_timeout`, and bounded retries.
- `Pipeline`: weak fairness of each coroutine; strong for passing the domain semaphore, which serves
  its waiters in order. Failing is not excluded, and raising is never forced.
- `Fetch` (with `RateLimiter`): time passes and due timers run; each coroutine that can go on does; a
  request ends because the session has a timeout. Nothing is assumed of DNS, servers or results. The
  bound on calls of `acquire` matters here: with an unbounded stream of newcomers a sleeper may
  starve, since `acquire` keeps no order between those that sleep and those that come.
- `WorkerLifecycle` and `Heartbeats`: each task runs when it can, while the process lives; a fetch need
  not end (no fairness of `Settle`), the drain deadline does fire. Time passes, the API is scraped, and
  the workers that remain claim expired leases. The older process and `Crash` owe nothing.
- `Submission`: each request is carried on; lock waits end because the holder is. `Deployment`:
  the controller runs on, as its waiters and HTTP calls are bounded; ECS, the migration tasks and the
  database owe nothing.

## 5. Proofs

Checked by TLAPS for all values of the constants, under the named assumptions of the modules: the
types of the parameters, finite sets of workers, rows and requests, and positive sizes. Beyond types
they ask for this: rows and pages are not confused with the values that stand for none
(`SentinelAssumption`, the numbers of `InMemory`), and NULL is neither a time nor a worker id
(`NullAssumption`); the services are
a sequence of names with the API among them, and the code that is released is of one of the six
versions (`ServiceAssumption`, `VersionAssumption`); quota windows are kept for at
least two minutes (the code keeps five); and the stale bound exceeds a heartbeat period, two
statements and the skew of the clocks (`StaleAssumption`: by default 30 seconds
against 5, two statements of at most 10 by `database_command_timeout`, and 5 for the skew). TLC
evaluates all of them in the runs.

| Theorem | Property |
|---|---|
| `FrontierProofs`: `TypeCorrect` | `TypeOK` |
| `LocksAreExclusive` | `RowLocksExclusive` |
| `WritesAreFenced` | `CommitsAreFenced` |
| `LeasesEnd` | `LeasesRunOut` |
| `PagesAreOfCompletions` | `PagesMatchCompletions` |
| `BudgetIsKept` | `AttemptBudgetKept` |
| `SettledIsFinal` | `SettledForever` |
| `LeasesAreKept` | `LeaseNotStolen` |
| `RenewalsExtend` | `RenewalExtends` |
| `FrontierRefinement`: `FrontierImplementsWorkQueue` | `ImplementsWorkQueue` |
| `ProgressIsMonotone` | `JobProgressMonotone` |
| `InMemoryProofs`: `TypeCorrect` | `TypeOK` |
| `LeasesAreNotStolen` | `LeaseNotStolen` |
| `Refinement` | `ImplementsWorkQueue` |
| `PromiseIsKept` | `Promise` and `EndsOnce` of `WorkQueue`, for the dictionaries |
| `PipelineProofs`: `TypeCorrect` | `TypeOK` |
| `JoinIsEnough` | `JoinMeansDone` |
| `NothingIsLost` | `NothingLost` |
| `PagesAreDistinct` | `RowsDistinct` |
| `FetchProofs`: `RateIsKept`, `FetchesKeepTheRate` | `RateKept` |
| `FetchesUseTheLimiter` | every behaviour of `Fetch` is one of `RateLimiter` |
| `OnlyPublicIsVisited` | `OnlyPublicVisited` |
| `RequestsArePaid` | `EveryRequestIsPaid` |
| `FailuresAreRetried` | `RetriesAreForFailures` |
| `DomainLimitIsKept` | `DomainLimitKept` |
| `HeartbeatsProofs`: `TypeCorrect` | `TypeOK` |
| `ExitLeavesNothing` | `GracefulExitLeavesNothing` |
| `WorkIsFinished` | `WorkIsNotCutShort` |
| `BeatingWorkerIsSeen` | `BeatingIsSeen` |
| `SubmissionProofs`: `TypeCorrect` | `TypeOK` |
| `QuotaIsKept` | `QuotaKept` |
| `SubmissionsAreWhole` | `JobsAreWhole` |
| `RefusalsLeaveNothing` | `RefusedLeavesNothing` |
| `DeploymentProofs`: `TypeCorrect` | `TypeOK` |
| `OutcomesAreTrue` | `OutcomeIsTrue` |
| `OutcomesAreComplete` | `OutcomeTellsAll` |
| `RunningCodeRuns` | `RunningCodeFits` |
| `ReadinessTells` | `ReadyTellsSchema` |
| `DeploymentSafe` | the inductive invariant, over any number of releases |
| `OneReleaseIsTold` | the outcome of the controller by itself, against any migration task |
| `UpgradesApplyOnce` | pending migrations succeed only on the version that was read |
| `DatabaseOnlyGrows` | no step takes a table, column or grant away |

Frontier. The properties are not inductive one by one. `IInv` conjoins them with

- `Shape`: a leased row has the last token that was issued; a loop is in a claim
  only while no coroutine of its worker runs; renewals belong to running coroutines. Without it a
  claim could meet a live coroutine of the same worker for the same row.
- `TokensIssued`: a coroutine works under a token that was issued for its row, and no other has it.
- `ClocksRead`: a clock that was read is not ahead of the worker's clock, and a lease ends at most
  `LeaseSeconds` after its holder last read the clock. This is what makes a renewal extend, and every
  lease run out (`LeasesRunOut`).

The argument: two transactions cannot have one row locked (`RowLocksExclusive`), because each locks
only what is `Free`; hence what a transaction found under its lock is still so at its commit
(`CommitsAreFenced`); hence a row changes only under its last token or by a claim that saw it
expired; and pages, attempts and final states follow from which commits there are. That a row has an
owner, a token and an expiry exactly while it is leased (`TypeOK`) is part of the invariant too: it rests on
`CommitsAreFenced`, as a renewal of a row that is no longer leased would give it an expiry. `InvariantHolds` proves `IInv` inductive, with a lemma per
conjunct and a step per action. The refinement needs only which of the five writers of rows took a
step (`RowWriters`) and what `IInv` says of the rows it writes; a claim maps to one `Take` of its batch
and its burials. Progress follows from `SettledForever` and from a job's rows being inserted together.

InMemory. `TypeOK` includes that exactly the leased rows have a token; with `Budget` (a row has used at
most its attempts, and a leased one at least one) every method is a step of `WorkQueue`, or a stutter.
What the queue promises (`Promise`, `EndsOnce`) is proved of the steps of `WorkQueue` alone and carried
over by the refinement.

Pipeline. `Books` keeps accounts: `unfinished` is the queue plus the workers that have not called
`task_done`; what was fed is queued, with a worker, or counted; what was counted as processed is stored
or on its way. `Course` says which of this must be empty where the driver and the writer are, and it is
by `Books` that `unfinished = 0` empties it: when all items were fed and none is unfinished, nobody
holds one. For `RowsDistinct`, stored pages, batch and output queue are one line on which a page does
not change its place when it is collected or saved (`Apart`); a page enters it through a worker
that found neither its URL nor its content in `seen`, where those of the line are.

RateLimiter and Fetch. `Paid` says that the grants since any grant, plus what is in the bucket, are paid
for by the burst and the time since; a step of `Fetch` is one of the limiter or leaves it alone. The
rest is an invariant of each coroutine alone: `Safe` (where it is about to connect to was validated),
`Budget` (a token pays for as many requests as rounds of
the redirect loop are left), `Tries`. `LineInv` is about the semaphores: a coroutine stands in one line,
once, while it is in `limit()`, and one that fetches is among the first `PerDomain` of it; who stands
behind another moves up when that one leaves (`WithoutIs`). So those who fetch from a domain are mapped one
to one to its permits.

Heartbeats. `Settled` and `Ends` tell, for each task, what has ended before it and why it ended: the
leases of settled rows are given up, the main task deletes the row only after the heart has ended.
`RowInv` bounds the age of the row by where the heart is (`Oldest`), and the time without a row
(`Darkest`) by whether the older process can still delete it, which it does once.

Submission. `Cached`: the counter of a window equals what was charged in it, as long as transactions may
still use it, which is its minute and the next (`Transactions`); the window is deleted only
after that. So the first request of a window may be let in without a comparison. Jobs and answers need
only that a job becomes visible when its request ends.

Release and Deployment. `Told` says, where the controller is, what it knows of the services: before the
smoke test all of them run the new revision, while it restores those before `next` are back, and as long
as `changed` is unset nothing was deployed. `update_service` that raises after it took effect is why
`changed` must be set before the call. `Gated` is the gate: a service that is not on the old
revision has a migration that succeeded behind it. Over many releases, `Fleet` says that whatever runs
or may be restored is `Served`: the database is at its version or later, and what it uses is granted.
`Served` is never lost again, because migrations only add (`Extends`), also when a migration task of an
earlier release is still about; `Migrations` says what such a task may have read. Of two tasks that
read the same version the second fails, since every migration leaves a table or column that it cannot
create again (`Marks`, `UpgradesApplyOnce`). The schema of each version is a recursive function
(`SchemaAt`), the six migrations are its steps (`SchemaSteps`); versions, the number of releases and the
services are arbitrary, the migrations are those of the repository.

Only model-checked: the liveness properties (`EveryRowSettles`, `Terminates`, `EveryFetchReturns`,
`RecoveryClearsGauge`, `ProcessEnds`, `EveryRequestIsAnswered`, `EveryReleaseEnds`), which TLAPS does
not reason about. Every safety property of a passing run is proved. The
type invariants of `InMemory`, `Pipeline` and `Release` are proved and not repeated in the runs. The three
violations are TLC's.

## 6. Where code and documents disagree

1. `pipeline/pipeline.py:93`: `validate_public_url` raises for a URL `urlsplit` cannot split
   (`http://[`); the worker task ends, its sentinel is never taken, and `run()` waits in `join()` for
   ever. `src/docs/PIPELINE.md` promises that invalid URLs are failed pages and not whole-job
   crashes. Run `pipeline_job_ends`.
2. `api/dependencies.py:28`: with the locked FastAPI, the job is committed after the 202 was sent.
   `release.py:119-120` reads the job at once and treats a 404 as a failed release. Run
   `submission_accepted`.
3. `release.py:196`: `except Exception` does not see `KeyboardInterrupt`. An interrupted release
   leaves the services where they are and the file at `in_progress`, while
   `src/docs/DEPLOYMENT_RUNBOOK.md` says a failed release restores both. Run `release_interrupted`.

Things that are as the code intends but worth knowing: attempts are counted when a row is claimed,
so rows that share a batch with one that crashes the worker lose attempts without having been tried;
the quota of a request whose job then fails stays spent; redirects are requests that no token of the
rate limiter was taken for, up to `max_redirects` per attempt (`EveryRequestIsPaid` states what is
kept), and they hold the semaphore of the first domain; a `Retry-After` beyond the range of a float raises
in `float()` outside the fetcher's handler, which is the exception of a coroutine in `Frontier` and
`WorkerLifecycle`; the heartbeat row of a worker that was killed stays for ever, and is not counted once
its leases are recovered.

## 7. Not modelled, and what is left

- `refresh_domain_stats` deletes and inserts the statistics in one transaction. Only a benchmark calls
  it, so in the running system the rollup is empty and its reader counts pages; there is nothing it
  interleaves with.
- `complete_frontier_item` and `should_retry_error` have no caller; `run_until_drained` is the claim loop
  of `run_continuously` with another end; `downgrade()` of the migrations is called by nothing.
- The read routes keep no state. The queue gauges, the stalled gauge, HTTP metrics, spans and logs report
  single reads.
- Parsing, normalization, schemas and configuration are functions of text or data; what the other
  parts see of them (two URLs that are the same, a page that raises) are constants of the modules.
- Infrastructure, dashboards, demos and benchmarks add no behaviour to the components.

The frontier and its queue were modelled first, then pipeline, limiter, worker process,
submission, release and the in-memory repository, then the compositions `Fetch`, `Heartbeats` and
`Deployment`, and last the proofs beside the frontier's. What could follow:

1. Put the processes of `WorkerLifecycle` in the place of the workers of `Frontier`, in one run; today
   the two meet in the meaning of a lease (`Recover` is the claim of an expired row).
2. Model the end of `run_until_drained`, which the demos use.
