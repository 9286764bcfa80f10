# A TLA+ model of the transaction platform

The platform takes CSV files of transactions over HTTP, stores them, imports
them in the background and answers queries about the result. This directory
holds a TLA+ model of the parts where its correctness is decided, TLC runs on
small instances, and theorems checked by TLAPS.

## 1. The system

| Component | Code | State | Operations |
|---|---|---|---|
| Import endpoint | `app/services/import_service.py`, `app/api/v1/imports.py` | upload directory, table `import_jobs` | `POST /imports`: write the file, look for the idempotency key, insert the job, `XADD`; `GET` of the status and of the errors |
| Job queue | `app/redis_utils/queue.py` | Redis stream, consumer group, pending entries and their idle time | `XADD`, `XREADGROUP`, `XAUTOCLAIM`, `XACK` |
| Import worker | `app/workers/import_worker.py` | tables `import_jobs`, `transactions`, `import_errors`; per worker the entries in hand, an ORM copy of the job and `seen_in_file` | `worker_loop`, `process_entry`, `_run_import`, `_commit_batch` |
| Row validation | `app/services/validation.py` | none | `validate_row` |
| Account summary | `app/services/account_service.py`, `app/redis_utils/cache.py` | one Redis key per account, with a TTL | read through, fill, invalidate |
| Rate limiter | `app/redis_utils/rate_limiter.py`, `app/core/deps.py` | one sorted set per client | `check`, the 429 answer |
| Transaction queries | `app/services/transaction_service.py` | none | list, get |
| Authentication, health, logging, migrations, load tests, deployment | see `PROJECT.json` | | |

How they interact:

- The API and the workers share Postgres, Redis and the upload directory and
  nothing else. A job passes from the API to the workers as a row of
  `import_jobs`, a file, and a stream entry that carries only the job's id.
- Workers know nothing of each other; the consumer group decides who gets an
  entry. An entry that is pending for 30 s (`worker_claim_idle_ms`) goes to
  whoever calls `XAUTOCLAIM` next.
- Workers delete the cached summary of every account a batch touches; readers
  fill the cache without any coordination with them.
- API instances share the limiter's sorted sets, stamped by their own clocks.

What is hard about it, and therefore what the model is for:

- a crash between any two of: commit of a batch, commit of the status, `XACK`;
- a worker that is alive but slower than its claim, so that two workers hold
  one job, each with its own copy of the row (`expire_on_commit=False`);
- an exception handler that itself uses the session that failed;
- retried and concurrent uploads; a commit in Postgres followed by a command
  to Redis, with no transaction around both;
- clocks of several instances feeding one sliding window;
- a cache fill that races an invalidation;
- a Redis that comes back from an older snapshot while Postgres does not;
- rows that the parser of `validate_row` accepts and a later comparison, or a
  column, does not;
- pages that are read while batches are committed.

What makes each part correct:

- **Worker**: no import is lost; a checkpoint never covers a row that is not
  stored; COMPLETED means the whole file is stored; counters, errors and
  checkpoint agree; a bad file ends as FAILED after `MAX_RETRIES` attempts.
- **Endpoint**: one job per idempotency key, whatever is retried or raced; a
  job has its file; an accepted job is in the stream.
- **Limiter**: no more than the limit in a window, and nobody turned away
  without cause.
- **Both together**: an upload answered with 202 is imported at last, once,
  and its worker finds the row and the file.
- **Limits of a row**: a row is stored as written, or reported; it ends the
  attempt only in the cases listed.
- **Queries**: a walk through the pages misses nothing that was there when it
  began, and repeats nothing without cause.
- **Summary**: an answer is out of date by a bounded time only.

## 2. Modules

| Module | Models | Notes |
|---|---|---|
| `ImportWorker` | workers, stream, three tables | one step is one Redis command or one Postgres transaction |
| `ImportContract` | an import as a client polls it | abstract; `ImportWorker` implements it |
| `ImportApi` | `create_import` for concurrent requests | one step per await |
| `ImportPipeline` | `ImportApi` and `ImportWorker` on one Postgres, one directory, one Redis | extends the one, instantiates the other |
| `RowValidation` | `validate_row` and the columns that take its result | one row |
| `ImportQueries` | `list_transactions` and `get_import_errors` against running imports | one client, page by page |
| `RateLimiter` | `check`, the Lua script, `Retry-After` | one client |
| `AccountSummary` | `get_account_summary` against batch commits | one account |
| `MC*` | the files, requests and symmetries of the runs | |
| `*Proofs` | theorems about the module of the same name | |
| `ImportRecoveryProofs` | theorems about `ImportWorker` while deliveries are sound | extends `ImportWorkerProofs` |

Definitions named "Mutant" are plausible mistakes in the definition they stand
before. No specification uses them; substituting one must break a property,
which shows that the property depends on the code it is about.

### ImportWorker

| State | Code |
|---|---|
| `jobs`, `txns`, `errs` | the three tables; `processed_rows` is always equal to `last_committed_row`, times and messages are dropped |
| `csv` | the file at `storage_path` |
| `id`, `last`, `delivered`, `pel`, `idle` | stream positions, last-delivered-id, pending entries, those idle for `worker_claim_idle_ms` |
| `pc`, `src`, `todo`, `cur` | where a worker is in `worker_loop` / `process_entry`, the list it iterates |
| `orm`, `seen` | its copy of the job, `seen_in_file` |

| Action | Code |
|---|---|
| `ReclaimStaleJobs`, `ReadNewJobs` | `worker_loop` 224, 228 with `queue.py` 56-84 |
| `LoadJob`, `FailExhausted`, `HandleException`, `AckJob` | `process_entry` |
| `BeginRun`, `FailMissingColumns`, `RowRaises`, `CompleteRun` | `_run_import` |
| `CommitBatch`, `BatchRejected` | `_commit_batch` |
| `Crash`, `Restart`, `DbError`, `DbUnreachable`, `AckError`, `OutlivesClaim`, `EntryGoesIdle` | the environment |

Decisions a reader should know:

- *ORM flush.* Assigning attributes and committing writes only the columns
  that differ from the loaded ones (`Flush`); the explicit `UPDATE` in
  `_commit_batch` always writes its columns. With two workers on a job this
  difference decides who overwrites what.
- *Failed transactions.* After a statement fails, the session's transaction
  cannot be committed, so the commit in `process_entry`'s except block fails
  too and no retry is counted (`DbError`, `BatchRejected`). If the failure has
  nothing to do with an open transaction - the file, validation, the
  connection pool, `XACK` - the except block commits (`RowRaises`,
  `DbUnreachable`, `AckError`).
- *Lost replies.* A commit, or an `XREADGROUP`, whose reply is lost leaves the
  stores as if the worker had died right after it, so `Crash` covers them. For
  `XACK` the difference matters and is a fault of its own.
- *Rows* are reduced to their fate (`RowKind`) and their `transaction_id`;
  `RowValidation` says which rows have which fate. A row that validates and
  that the `transactions` table would reject (`unfit`) or the driver cannot
  encode (`unsent`) counts only if it is sent: as a repetition of an id in
  `seen_in_file` it is reported like any other and does no harm. The table's
  rejection fails the transaction; the driver's error comes before the
  statement reaches Postgres, so that the except block can commit.
- *"job is None"* cannot happen: the row is committed before `XADD` and never
  deleted; `OneEntryPerKey` in `ImportApi` and `WorkerFindsJobAndFile` in
  `ImportPipeline` say so.
- *SIGTERM* ends the loop at its top, between two lists of entries; a dying
  process that holds nothing is a `Crash` at that point.

### ImportContract

The life of an import as the answers of `GET /imports/{id}`, without workers,
stream, batches or crashes: `Begin`, `Advance` (some rows more, each counted
once), `Complete` (the whole file), `Retry`, `Fail`. `ImportWorker` ends with
the refinement mapping: the answer is `GetImportStatus`, which reads the
columns of the job. The mapping is exact for deliveries that do not outlive
their claim and for a sound `XACK`; outside of these the contract is broken,
as section 3 says. The contract has one step that a client would not expect
and the code takes: a malformed file may go from FAILED back to PROCESSING.

### ImportApi

A request's job id is a fresh uuid, so jobs and files are named by the request
that made them: `files` and `table` are sets of requests, `stream` a sequence
of them. `WithSameKey` is both the `SELECT` and the unique constraint.
Exceptions nobody catches end a request with a 500 and undo nothing.

### ImportPipeline

A job is named by the request that creates it, in both components, and its
file is what that request uploaded. `Enqueue` is the one step both take: the
request's `XADD` and the entry in the stream. `ensure_group` is a step of its
own before it (`EnsureGroup`, `ensured`), since Redis may restart between the
two: the entry then waits in a stream without a group. `group` says whether the
consumer group exists; without it a worker's commands raise and its loop
begins anew (`GroupMissing`), until somebody calls `ensure_group`: a starting
worker or the next upload. `SaveSnapshot` and `RedisRestarts` model Redis as
`docker-compose.yml` runs it, without an append-only file: stream, group and
pending entries go back to the last snapshot, Postgres does not, and a worker
keeps what it has in hand.

### RowValidation

A text is its length and whether it has a NUL character; an amount is a
coefficient and an exponent, as `Decimal` keeps it, or one of its special
values; a time is a local time and an offset. `Checks` lists the tests of
`validate_row` in the order of its early returns, and the first that applies
decides. The column lengths and the precision are constants, so that the run
can use small ones. `COMMON_CURRENCIES` stands for the list of 16. The
calendar is the interval `Earliest..Latest`, for the years 1 to 9999: a time
is within it as written, and `InCalendar` asks whether it is so in UTC too,
which `validate_row` does not ask and the driver needs.

### ImportQueries

`committed` is all there is of the imports: rows and errors appear with their
batch and are never deleted. A statement sees what is committed when it
starts. `ORDER BY` leaves rows with equal keys in any order, which may differ
from one statement to the next: `FirstRows` is the set of all results.
`seen`, `again` and `atStart` are history. The two imports have no
`transaction_id` in common: `ON CONFLICT` is the subject of `ImportWorker`.
Every import is in the hands of one worker: `CommitBatch` only moves forward
and reports a row once, which `ErrorReportIsExact` proves of `ImportWorker`
while deliveries are sound. With an outlived claim `import_errors` itself has
rows twice, and `ErrorsListedOnce` says nothing about that. The
error report is only walked for a job that exists (`QueriesAssumption`).

### RateLimiter

`time` is the clock of the Redis server, `skew` how far each instance's clock
is ahead, `stamp` what an instance read, `at` when the script ran. A member is
the pair of stamp and `id(object())`. That object is freed as soon as its
address is taken, so nothing keeps a later call from getting the same one: ids
are chosen freely, and calls of one millisecond may share a member. `MaxSkew` and `MaxDelay` bound the environment and occur in the
properties, not in the code: the code has no such bound of its own.

### AccountSummary

A summary is represented by the number of batches it contains. `number` and
the field `latest` are history: no guard reads them. Redis drops the key when
its clock has passed `expireAt`, so at `expireAt` itself it still answers, and
the bound of `BoundedStaleness` includes its end.

## 3. Runs

Runs that pass:

| Run | Question |
|---|---|
| `ImportWorkerCrash` | crashes and database failures anywhere, claims never outlived: `NoJobLost`, `OneWorkerPerJob`, `ExactCounters`, `NothingBeyondCheckpoint`, `ErrorsReportedOnce`, `FailedIsJustified`, `RepeatsReported`, `CheckpointMonotone`, `CompletedIsFinal`, and the refinement `ImplementsContract` |
| `ImportWorkerFaults` | what survives every fault, slow workers included: `TypeOK`, `CommittedRowsStored`, `CompletedMeansStored`, `RetriesBounded` |
| `PipelineLiveness` | endpoint and workers together, a crash or a database failure of a worker and a Redis that fails at `XADD`: `AcceptedIsImported`, `EveryImportSettles` |
| `RedisRestart` | the same with requests that break down and Redis restarting from an older snapshot: `WorkerFindsJobAndFile`, `ImportedOnce`, `NoUploadLost`, `CommittedRowsStored`, `CompletedMeansStored` |
| `ImportApiFaults` | every fault, refused forms included: `JobsHaveTheirFile`, `OneEntryPerKey`, `RepeatGetsSameJob`, `NoStrayFile`, `UnqueuedOnlyIfBroken` |
| `RowValidation` | all combinations of field values: `RowsAreSortedOut`, `StoredAsWritten`, `OnlyAwkwardRowsAbort` |
| `ImportQueries` | every filter, order and page size while two imports run: `PageHoldsItsShare`, `NothingSkipped`, `RepeatedOnlyIfPushed`, `ErrorsListedOnce` |
| `RateLimiterSkew` | skew, delay, lost replies, ids that repeat: `LimitHolds`, `NoFalseRejection`, `RetryAfterSuffices` |
| `AccountSummaryFaults` | failing Redis and Postgres, dying workers: `BoundedStaleness`, `StaleOnlyUntilInvalidated` |

Runs in which TLC finds a behaviour of the code that contradicts its
documentation (the quotations are in `PROJECT.json` under `findings`):

| Run | What happens |
|---|---|
| `SlowCrashLosesJob` | the slow worker acknowledges the entry of the second one, which then dies: the job stays PROCESSING without an entry |
| `OverlongId` | a `transaction_id` Postgres rejects: no retry is ever counted, the file is retried for ever |
| `RedisDownAtEnqueue` | the row is committed, `XADD` fails; the retry is answered 202 and nothing ever enqueues the job |

Other divergences met while modelling, for which no run is kept:

- an import slower than its claim runs twice and rows the other worker
  inserted count as failed for good (`import_worker.py` 199), although
  "a duplicate job is harmless" (`queue.py` 23-24). `ExactCounters` holds only
  while no claim is outlived;
- `seen_in_file` starts empty in every attempt (`import_worker.py` 134), so
  after a resume a repetition of an id from before the checkpoint gets no
  error row, against `README.md` 194-196. `RepeatsReported` states what is
  left;
- a summary read before a commit may be stored after the `DEL`
  (`account_service.py` 41), so the next read does not recompute as
  `cache.py` 12-15 says. `BoundedStaleness` states how long this lasts;
- a worker that dies between the commit of FAILED for a missing column and
  `XACK` leaves an entry whose redelivery sets the job to PROCESSING again
  (`import_worker.py` 82-96);
- if Redis loses an entry in a restart, nothing enqueues its job again: it
  stays QUEUED, and a repeated upload is answered with it
  (`import_service.py` 74-80). `NoUploadLost` and `AcceptedIsImported` except
  it;
- the sort columns of `list_transactions` are not unique and have no
  tie-breaker (`transaction_service.py` 51-54), so with equal amounts or
  times pages may skip and repeat rows. `NothingSkipped` and
  `RepeatedOnlyIfPushed` assume that the order is total;
- a worker slower than its claim also writes a smaller `last_committed_row`
  over a larger one (`import_worker.py` 206); `ARCHITECTURE.md` 105-107 calls
  the checkpoint strictly increasing. `CheckpointMonotone` holds only while no
  claim is outlived;
- `XACK` is inside the try block: if it is applied and its reply is lost, a
  COMPLETED job is set back to QUEUED although its entry is gone
  (`import_worker.py` 98-103). `AckError` models it; `NoJobLost` is therefore
  checked without that fault;
- an entry that always raises leaves the loop over the reclaimed entries and
  drops the sound ones behind it, each time (`import_worker.py` 225-231);
- an amount `NaN` or `Infinity` raises in `validate_row` (lines 43, 47), and a
  message that quotes an overlong field, an overlong id or a NUL character
  cannot be stored, although an invalid row must not abort the import
  (`validation.py` 4-6); nor can a time such as `9999-12-31T23:59:59-05:00`,
  which `_parse_timestamp` accepts (83) and UTC does not have. `Awkward` in
  `RowValidation` lists these rows; `RowRaises` and `BatchRejected` model what follows;
- `Idempotency-Key` is looked up across clients (`import_service.py` 74), not
  "for this client" (5-7); `RepeatGetsSameJob` speaks only of one client;
- an instance whose clock is ahead trims too much (`rate_limiter.py` 67
  against 15-18): `LimitHolds` states what is left of the limit;
- `id(object())` may repeat within a millisecond and two calls then count as
  one (`rate_limiter.py` 68, which calls it "unique per call"), although "the
  limit holds no matter when a client bursts" (8-9), also for "concurrent
  requests on the same instance" (12-13). If calls are counted instead of
  members, TLC finds, with the constants of `RateLimiterSkew`, three calls sent
  at time 0 with one id: all three are admitted against a limit of 2, and the
  sorted set has one member.
  `LimitHolds` states what is left, and `OnlySharedMembersExceed` that this is
  the only way past the limit;
- `Retry-After` is rounded down (`deps.py` 25): `RetryAfterSuffices` states
  how much a client may still have to wait;
- `queue.py` 13-14 says the stream is bounded with XTRIM/MAXLEN, and nothing
  trims it; `worker_claim_batch_size` (`config.py` 27) is not used.

Bounds, and why they suffice:

- Worker: two workers and two jobs, since every hazard is one of two workers
  on one job or of two jobs with a common id; files of three rows with batches
  of two, so that there is a full batch, a partial one and a row on each side
  of a checkpoint; two retries, so that a job can fail once and be taken up
  again, and also be exhausted; `ClaimCount` 2 in `ImportWorkerCrash` and
  the pipeline, so that an exception can drop an entry reclaimed
  with the failing one, and 1 elsewhere, so that a reclaim can leave an entry
  behind; two faults, so that a fault can hit the recovery from another
  one (one for liveness).
- API: three requests, so that a retry can follow a race; two faults.
- Pipeline: two requests and two workers. For liveness three files (sound,
  failing after its first batch, malformed), one fault of a worker and one of
  the API. With a restart the requests differ in key and content, so that they
  race, repeat each other or have nothing in common; one fault of the API, one
  restart from a snapshot of any age and no crash of a worker, since a restart
  already brings every delivery back.
- Validation: per field the empty value, a good one, the longest that fits and
  one more; amounts on both sides of zero, of two decimal places and of the
  largest number; times at and just beyond both ends of the calendar.
- Queries: imports of six and three rows in batches of two, pages of one and
  two rows, so that a batch can fall before, into and after every page.
- Limiter: a limit of 2 with three calls and three ids, all equal or not, a window of 5 ticks, a second of 2
  (so that rounding down loses something), skew and delay of one tick each, time for the window to slide and the key to expire.
- Summary: three readers (a fill, a hit, a later hit) and two batches, a TTL
  of two ticks and a delay of one, so that an entry can outlive a commit by
  the full bound and be seen expiring.

Fairness (`FairSpec`):

- a live worker keeps taking steps: `worker_loop` catches every exception and
  goes on; a dead one is restarted: the deployment keeps at least one worker
  replica (`deployment/main.bicep` 37);
- the idle time of an entry nobody works on reaches 30 s, as it grows with the
  clock;
- a handler of the API that has begun goes on to its end.

`FairPipeline` takes the same from both components: a handler past its first
step, a live worker's loop (a missing group included), the restart of a dead
worker, the clock of Redis. It asks nothing of `SaveSnapshot`.

Nothing is assumed of clients, of the API's future requests or of faults.
Deadlock is checked in the runs of `ImportWorker` and in `PipelineLiveness`,
whose loops never end. Without a consumer group every worker repeats one
failing command, which changes nothing, so `RedisRestart` does not check it.
The other modules describe a finite number of requests, which may all be
finished.

## 4. Proofs

All theorems hold for every value of the constants that satisfies the named
assumption of the module, and the hypotheses a theorem states: any number of
workers, jobs, requests, calls, any file, row, batch size, page size, limit,
window or TTL, any number of faults. Every invariant that a passing run checks
is stated by a theorem, and so are the action properties and the refinement.

- **`ImportWorkerProofs`** (`ConstantsAssumption`; every fault). `TypeCorrect`,
  `CheckpointIsDurable`, `CompletedIsTrue`, `RetriesAreBounded`.
  `CommittedRowsStored` is not inductive, because with an expired claim a
  worker writes a checkpoint from a copy of the job that may be stale in
  either direction. The inductive invariant `DurableInv` says of every worker
  at its rows that the rows its *own copy* covers are stored and that the ids
  in `seen` are stored (`CopyIsSound`). Transactions are never deleted, so
  what is sound stays sound; a batch stores exactly what it adds to the copy;
  and a checkpoint in the table is always the value of somebody's copy.
  `RetryInv` says that a worker that may still count an attempt has one left
  in its copy.
- **`ImportRecoveryProofs`** (the same, and `SoundDeliveries`: no worker is
  slower than its claim and `XACK` does not fail). Crashes and database
  failures may happen at every step and any number of times. Without the
  hypothesis the properties are false: section 3 lists what an outlived claim
  and a lost `XACK` do. Four invariants, each resting on the one before:
  - `HoldInv`: what a worker holds is pending and not idle, so that nobody else
    reads or reclaims it. It yields `NeverTwoWorkers`.
  - `RunInv`: the copy of the worker at a job *equals* the row, since nobody
    else writes it, and at each step of `process_entry` the row is what that
    step takes it for; a job that is not finished is to be delivered or
    pending. It yields `NoImportIsLost` and `GivenUpForAReason`. Every step is
    then a move of one row (`MovesRow`: begin, advance, complete, requeue, give
    up) or leaves the rows alone, from which `CheckpointNeverMovesBack`,
    `CompletedForGood` and `WorkerImplementsContract` follow.
  - `CountInv`: tables, counters and checkpoint agree, in the prefix the
    checkpoint covers and nowhere else. It yields `CountersAreExact`,
    `BatchesAreAtomic` and `ErrorReportIsExact`. The work is in `BatchCounts`
    and `BatchEffect`: the rows inserted, the rows reported and the rows
    already present partition a batch.
  - `RepeatInv`: the checkpoint of an undisturbed import lies on a boundary of
    batches or at the end, and `seen` holds the ids of all rows before it
    (`SeenInv`). Whatever happens, `seen` holds no others (`SeenBound`): a row
    that was skipped as a repetition does repeat an earlier one, so that a
    rejected batch always has a row that no attempt can store (`Doomed`). It
    yields `RepeatsAreReported`.
- **`ImportApiProofs`** (`ApiAssumption`; every fault). `ApiTypeCorrect`,
  `FilesStay`, `EnqueuedOnce`, `RepeatIsSafe`, `StrayOnlyIfBroken`,
  `ForgottenOnlyIfBroken`. The invariant `ApiInv` relates where a handler is to
  what it has done: a request in the table is past its own commit, keys in the
  table are distinct, only requests in the table are in the stream, and an
  answer names the row with the request's key. `TraceInv` adds that a handler
  answers last of all and that one that has lost has unlinked its file.
- **`ImportPipelineProofs`** (`PipelineAssumption`; every fault of the
  pipeline, any number of restarts of Redis). The composition is proved from
  the parts: `ImportApiProofs` is instantiated, `ImportRecoveryProofs`
  extended. `PipelineImplementsApi` and `PipelineImplementsWorkers` (the
  latter without a restart) say that the pipeline implements either part, and
  `PipelineKeepsContract` that it therefore implements `ImportContract`.
  `PipelineInv` adds to the invariants of the parts that a job with any trace
  in the stream, with a worker, in its own row or in Redis's snapshot is in the
  table (`EntriesAreKnown`); the snapshot has to be mentioned because a restart
  turns it into the stream. It yields `WorkersFindTheirInput` and
  `RepeatsAreImportedOnce`. `DurableInv` does not speak of Redis, so the
  durability theorems hold across restarts (`CheckpointSurvivesRedis`,
  `CompletedSurvivesRedis`). `NoUploadIsLost` (`SoundDeliveries`) joins the
  endpoint's trace to the worker's `RunInv`: until the first restart whatever
  the API has added is in the stream of the workers (`UntilRestart`).
- **`RowValidationProofs`** (`RowAssumption` and `ColumnsAgree`: the two
  decimal places of `validate_row` are those of the column, and a message that
  quotes nothing fits). `EveryRowIsSortedOut`, `NothingIsRounded`,
  `AbortsAreAwkward`, for every row instead of the run's sample. Each test of
  `Checks` is right about the row (`CheckSays`), a row that passes all of them
  is valid (`PassedIsValid`), and with at most two decimal places there is
  nothing to round (`NothingToRound`). The order of the tests plays no part:
  it only chooses the message.
- **`ImportQueriesProofs`** (`QueriesAssumption`). `QueriesTypeCorrect`,
  `PagesKeepTheirPromise`, `WalkIsComplete`, `OnlyPushedRowsRepeat`,
  `ErrorReportReadsOnce`. The argument counts: the *rank* of a row is the
  number of listed rows that sort before it. Commits never lower a rank, and
  `WalkInv` says that with a total order the rows of the start that are not
  yet seen have a rank of at least what the pages have covered, and the rows
  seen one below it unless something was committed before them. In an error
  report later rows are committed later, so no rank ever changes.
- **`RateLimiterProofs`** (`LimiterAssumption`). `LimiterTypeCorrect`,
  `LimitIsKept`, `OnlySharedMembersExceed`, `RejectedForAReason`, `WaitingHelps`
  (assuming a positive limit: with a limit of 0 no wait helps). The invariant
  `RecentInSet` says that every admission within `Window - MaxSkew - MaxDelay`
  still has its member in the sorted set: trimming by another clock cannot
  reach it, and the key does not expire before it leaves. The members of the
  recent admissions are therefore a subset of a set of at most `Limit`
  elements, whether or not calls share them; calls whose members differ inject
  into it.
  Conversely every member comes from a call that was let through
  (`MembersAreCalls`), and `WaitInv` follows the oldest member until it leaves.
- **`AccountSummaryProofs`** (`SummaryAssumption`). `SummaryTypeCorrect`,
  `StalenessIsBounded`, `OvertakenUntilInvalidated`. The invariant follows a
  summary from its query to the cache: a fill lacks only what was committed
  since its query (`FillsAreRecent`), and an entry expires before anything it
  lacks is older than the bound (`EntryExpiresInTime`). `OvertakenInv` relates
  an entry to the batches committed since it was stored: each of them is still
  to invalidate it, or its worker died.

Only model-checked: `EveryImportSettles` and `AcceptedIsImported`, and the
liveness properties of the runs that expect a violation. Fairness and `ENABLED`
are out of the prover's reach.

## 5. Not modelled

- Authentication: one lookup by hash without state of its own; a request's
  client is an input. Clients are created by a script and never changed.
- `get_transaction`: a lookup by a unique column.
- Health probes, logging, request ids, response schemas: no state, or layout.
- The indexes and the tables of the migration that repeat the models.
- Load tests, deployment and build files: tools around the program.
- Lost `XACK`s and outlived claims are modelled for the workers alone and not
  in the pipeline, where they would multiply its states without a new
  interaction.

## 6. Plan

Done: all components with state, their composition, the contract and its
refinement, and theorems for every invariant, action property and refinement
that the passing runs check. What is left:

1. What a restart of Redis leaves of the recovery theorems: `RetriesBounded` in
   the pipeline, and a bound on what is lost in terms of the age of the
   snapshot.
2. What is left of `ExactCounters` when a claim is outlived: the counters never
   exceed the rows, for every fault.
3. The safety part of `EveryImportSettles`: a settled job stays settled.

Runs are kept few, one for each question; a later one takes the place of an
existing one that it subsumes, as `PipelineLiveness` took that of a liveness
run for the workers alone.
