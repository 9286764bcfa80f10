---------------------------- MODULE ImportWorker ----------------------------
(***************************************************************************)
(* The import worker (app/workers/import_worker.py) together with the two  *)
(* stores it lives on: the Redis stream of app/redis_utils/queue.py and    *)
(* the Postgres tables import_jobs, transactions and import_errors.        *)
(*                                                                         *)
(* One step is one Redis command or one Postgres transaction; everything a *)
(* worker computes between two of them is local and belongs to the second. *)
(* Each worker holds its own ORM copy of the job (orm), because the        *)
(* session is opened with expire_on_commit=False: the copy is read once    *)
(* per delivery and never refreshed.                                       *)
(*                                                                         *)
(* A stream entry carries nothing but its job's id and a job is enqueued   *)
(* once, so an entry is named by its job.                                  *)
(***************************************************************************)
EXTENDS Integers, Sequences, FiniteSets

CONSTANTS
    Workers,     \* worker processes, one stream consumer each
    Jobs,        \* import_jobs.id
    Tids,        \* transaction_id
    None,        \* the absence of a job
    CsvFiles,    \* the files that may have been uploaded
    MaxRows,     \* bound: rows of the longest file
    BatchSize,   \* settings.worker_batch_size
    ClaimCount,  \* the count of XAUTOCLAIM
    MaxRetries,  \* MAX_RETRIES
    Faults,      \* the kinds of fault this instance is exposed to
    MaxFaults    \* bound: faults per behaviour

(***************************************************************************)
(* What validate_row and the database can do with a row:                   *)
(*   ok      validated and accepted by the transactions table              *)
(*   bad     rejected by validate_row with an error message                *)
(*   raise   reading or validating it raises: an undecodable byte, a csv   *)
(*           error, an amount "NaN" or "Infinity"                          *)
(*   dberr   Postgres rejects every statement that stores it, as           *)
(*           transaction or as error: a transaction_id of more than 128    *)
(*           characters, an overlong message, a NUL character in either    *)
(*   unfit   validated, but rejected by the transactions table: an amount  *)
(*           of too many digits, an overlong account_id                    *)
(*   unsent  validated, but the driver cannot encode it: a time that is    *)
(*           outside the years 1 to 9999 in UTC                            *)
(* The last two do no harm if their transaction_id was seen before: they   *)
(* are reported as repetitions then and never sent.                        *)
(***************************************************************************)
ValidKind == {"ok", "unfit", "unsent"}
RowKind == ValidKind \cup {"bad", "raise", "dberr"}
Row == [kind: RowKind, tid: Tids]
CsvFile == [header: BOOLEAN, rows: Seq(Row)]

FaultKind ==
    {"crash",     \* a worker process dies
     "db",        \* a Postgres statement or connection fails
     "ack",       \* XACK fails and is not applied
     "ack_reply", \* XACK is applied and its reply is lost
     "slow"}      \* a delivery is held longer than worker_claim_idle_ms

ASSUME ConstantsAssumption ==
    /\ None \notin Jobs
    /\ MaxRows \in Nat /\ MaxRetries \in Nat /\ MaxFaults \in Nat
    /\ BatchSize \in Nat \ {0} /\ ClaimCount \in Nat \ {0}
    /\ Faults \subseteq FaultKind
    /\ IsFiniteSet(Tids)
    /\ \A f \in CsvFiles : f \in CsvFile /\ Len(f.rows) <= MaxRows

VARIABLES
    csv,        \* the file at each job's storage_path; never rewritten
    jobs,       \* table import_jobs
    txns,       \* table transactions: transaction_id -> import_job_id
    errs,       \* table import_errors: how often each row is reported
    id,         \* position of each job's entry in the stream, 0 before XADD
    last,       \* the stream's last entry id
    delivered,  \* the group's last-delivered-id
    pel,        \* the group's pending entries
    idle,       \* pending entries idle for worker_claim_idle_ms
    pc,         \* per worker: the step it is about to take
    src,        \* per worker: what the current entries came from
    todo,       \* per worker: entries received and not begun
    cur,        \* per worker: the entry process_entry works on
    orm,        \* per worker: its ORM copy of the current job
    seen,       \* per worker: seen_in_file
    faults      \* faults so far

storeVars == <<jobs, txns, errs>>
streamVars == <<id, last, delivered, pel, idle>>
localVars == <<pc, src, todo, cur, orm, seen>>
vars == <<csv, jobs, txns, errs, id, last, delivered, pel, idle,
          pc, src, todo, cur, orm, seen, faults>>

Status == {"QUEUED", "PROCESSING", "COMPLETED", "FAILED"}
NULL == -1
RowNumber == 1..MaxRows

\* processed_rows is always written together with, and equal to,
\* last_committed_row; completed_at is whether it is set.
JobRow == [status: Status,
           last_committed_row: 0..MaxRows,
           successful_rows: Nat,
           failed_rows: Nat,
           total_rows: Nat \cup {NULL},
           retry_count: Nat,
           completed_at: BOOLEAN]

NewJob == [status |-> "QUEUED", last_committed_row |-> 0,
           successful_rows |-> 0, failed_rows |-> 0, total_rows |-> NULL,
           retry_count |-> 0, completed_at |-> FALSE]

PC == {"down", "reclaim", "read", "load", "exhausted", "begin", "rows",
       "ack", "drop", "except"}

Init ==
    /\ csv \in [Jobs -> CsvFiles]
    /\ jobs = [j \in Jobs |-> NewJob]
    /\ txns = [t \in Tids |-> None]
    /\ errs = [j \in Jobs |-> [i \in RowNumber |-> 0]]
    /\ id = [j \in Jobs |-> 0] /\ last = 0 /\ delivered = 0
    /\ pel = {} /\ idle = {}
    /\ pc = [w \in Workers |-> "reclaim"]
    /\ src = [w \in Workers |-> "new"]
    /\ todo = [w \in Workers |-> {}]
    /\ cur = [w \in Workers |-> None]
    /\ orm = [w \in Workers |-> NewJob]
    /\ seen = [w \in Workers |-> {}]
    /\ faults = 0

-----------------------------------------------------------------------------
(* Helpers *)

Goto(w, label) == pc' = [pc EXCEPT ![w] = label]

\* process_entry is over: the session closes and its copy of the job is gone.
Release(w) ==
    /\ cur' = [cur EXCEPT ![w] = None]
    /\ orm' = [orm EXCEPT ![w] = NewJob]
    /\ seen' = [seen EXCEPT ![w] = {}]

\* The next entry of the list, or the next call of worker_loop.
Continue(w) ==
    /\ Goto(w, IF todo[w] # {} THEN "load"
               ELSE IF src[w] = "reclaimed" THEN "read" ELSE "reclaim")
    /\ Release(w)
    /\ UNCHANGED <<src, todo>>

\* The exception reaches worker_loop, which drops the rest of the list.
Abort(w, label) ==
    /\ Goto(w, label)
    /\ Release(w)
    /\ todo' = [todo EXCEPT ![w] = {}]
    /\ UNCHANGED src

Holds(w, j) == j = cur[w] \/ j \in todo[w]

Fault(kind) ==
    /\ kind \in Faults
    /\ faults < MaxFaults
    /\ faults' = faults + 1

\* A flush writes the columns whose value differs from the loaded one and
\* leaves the others to whoever wrote them last.
Flush(db, loaded, new) ==
    [c \in DOMAIN db |-> IF new[c] = loaded[c] THEN db[c] ELSE new[c]]

FlushJob(w, new) == jobs' = [jobs EXCEPT ![cur[w]] = Flush(@, orm[w], new)]

\* Assign attributes of the ORM object and commit.
CommitJob(w, new) ==
    /\ FlushJob(w, new)
    /\ orm' = [orm EXCEPT ![w] = new]
    /\ UNCHANGED <<txns, errs>>

Failed(job) == [job EXCEPT !.status = "FAILED", !.completed_at = TRUE]

File(w) == csv[cur[w]]
\* Mutant: the batch left over at the end of the file is not committed.
RowsLeftFullBatch(w) ==
    orm[w].last_committed_row + BatchSize <= Len(File(w).rows)
RowsLeft(w) == orm[w].last_committed_row < Len(File(w).rows)
UpToRow(w) == LET lo == orm[w].last_committed_row
                  n == Len(File(w).rows)
              IN  IF lo + BatchSize <= n THEN lo + BatchSize ELSE n
\* Mutant: < for <= in the test that skips committed rows.
BatchRowsOffByOne(w) ==
    {i \in orm[w].last_committed_row .. UpToRow(w) : i > 0}
BatchRows(w) == (orm[w].last_committed_row + 1) .. UpToRow(w)
RowsOfKind(w, kinds) == {i \in BatchRows(w) : File(w).rows[i].kind \in kinds}

\* Mutant: only the ids of earlier batches are compared.
BatchValidEarlierOnly(w) ==
    {i \in RowsOfKind(w, ValidKind) : File(w).rows[i].tid \notin seen[w]}

\* Rows that validate and whose transaction_id is new to seen_in_file.
BatchValid(w) ==
    {i \in RowsOfKind(w, ValidKind) :
        LET t == File(w).rows[i].tid
        IN  /\ t \notin seen[w]
            /\ \A k \in RowsOfKind(w, ValidKind) :
                  k < i => File(w).rows[k].tid # t}
BatchErrors(w) == BatchRows(w) \ BatchValid(w)
TidsOf(w, rows) == {File(w).rows[i].tid : i \in rows}
\* INSERT ... ON CONFLICT DO NOTHING
Inserted(w) == {t \in TidsOf(w, BatchValid(w)) : txns[t] = None}

-----------------------------------------------------------------------------
(* The API hands a job over: its row is committed, then XADD. *)
EnqueueImportJob(j) ==
    /\ id[j] = 0
    /\ last' = last + 1
    /\ id' = [id EXCEPT ![j] = last + 1]
    /\ UNCHANGED <<csv, storeVars, delivered, pel, idle, localVars, faults>>

(* worker_loop *)

\* XAUTOCLAIM from 0-0: the first ClaimCount idle entries in stream order.
Claimable == {j \in idle :
                Cardinality({k \in idle : id[k] < id[j]}) < ClaimCount}

\* Mutant: the entries are read without taking them over.
ReclaimWithoutClaim(w) ==
    /\ pc[w] = "reclaim"
    /\ todo' = [todo EXCEPT ![w] = Claimable]
    /\ src' = [src EXCEPT ![w] = "reclaimed"]
    /\ Goto(w, IF Claimable = {} THEN "read" ELSE "load")
    /\ UNCHANGED <<csv, storeVars, streamVars, cur, orm, seen, faults>>

ReclaimStaleJobs(w) ==
    /\ pc[w] = "reclaim"
    /\ idle' = idle \ Claimable
    /\ todo' = [todo EXCEPT ![w] = Claimable]
    /\ src' = [src EXCEPT ![w] = "reclaimed"]
    /\ Goto(w, IF Claimable = {} THEN "read" ELSE "load")
    /\ UNCHANGED <<csv, storeVars, id, last, delivered, pel, cur, orm, seen,
                   faults>>

\* XREADGROUP ">" COUNT 1, which comes back empty after block_ms.
ReadNewJobs(w) ==
    /\ pc[w] = "read"
    /\ src' = [src EXCEPT ![w] = "new"]
    /\ \/ \E j \in Jobs :
            /\ id[j] = delivered + 1
            /\ delivered' = delivered + 1
            /\ pel' = pel \cup {j}
            /\ todo' = [todo EXCEPT ![w] = {j}]
            /\ Goto(w, "load")
       \/ /\ delivered = last
          /\ Goto(w, "reclaim")
          /\ UNCHANGED <<delivered, pel, todo>>
    /\ UNCHANGED <<csv, storeVars, id, last, idle, cur, orm, seen, faults>>

(* process_entry. A job row is committed before its entry is added and is  *)
(* never deleted, so the "job is None" return cannot be taken.             *)

\* Mutants: > for >=, and one attempt too few.
ExhaustedLate(job) == job.retry_count > MaxRetries
ExhaustedEarly(job) == job.retry_count + 1 >= MaxRetries
Exhausted(job) == job.retry_count >= MaxRetries

\* Mutant: a completed job is not recognised when it is delivered again.
BranchRerun(job) == IF Exhausted(job) THEN "exhausted" ELSE "begin"

Branch(job) ==
    IF job.status = "COMPLETED" THEN "drop"
    ELSE IF Exhausted(job) THEN "exhausted" ELSE "begin"

LoadJob(w) ==
    /\ pc[w] = "load"
    /\ \E j \in todo[w] :
        /\ \A k \in todo[w] : id[j] <= id[k]
        /\ cur' = [cur EXCEPT ![w] = j]
        /\ todo' = [todo EXCEPT ![w] = @ \ {j}]
        /\ orm' = [orm EXCEPT ![w] = jobs[j]]
        /\ Goto(w, Branch(jobs[j]))
    /\ UNCHANGED <<csv, storeVars, streamVars, src, seen, faults>>

FailExhausted(w) ==
    /\ pc[w] = "exhausted"
    /\ CommitJob(w, Failed(orm[w]))
    /\ Goto(w, "drop")
    /\ UNCHANGED <<csv, streamVars, src, todo, cur, seen, faults>>

(* _run_import *)

BeginRun(w) ==
    /\ pc[w] = "begin"
    /\ CommitJob(w, [orm[w] EXCEPT !.status = "PROCESSING"])
    /\ Goto(w, "rows")
    /\ UNCHANGED <<csv, streamVars, src, todo, cur, seen, faults>>

FailMissingColumns(w) ==
    /\ pc[w] = "rows" /\ ~File(w).header
    /\ CommitJob(w, Failed(orm[w]))
    /\ Goto(w, "ack")
    /\ UNCHANGED <<csv, streamVars, src, todo, cur, seen, faults>>

BatchDue(w) ==
    /\ pc[w] = "rows" /\ File(w).header
    /\ RowsLeft(w)

\* The rows of that kind that the batch sends to the transactions table.
Sent(w, kind) == {i \in BatchValid(w) : File(w).rows[i].kind = kind}

\* The loop reaches a row that raises before the batch is full, or the first
\* statement of the full batch raises before it reaches Postgres.
BatchRaises(w) == RowsOfKind(w, {"raise"}) # {} \/ Sent(w, "unsent") # {}

\* Otherwise, Postgres rejects a statement of the batch.
BatchFails(w) == RowsOfKind(w, {"dberr"}) # {} \/ Sent(w, "unfit") # {}

\* The except block takes over; no transaction has failed.
RowRaises(w) ==
    /\ BatchDue(w)
    /\ BatchRaises(w)
    /\ Goto(w, "except")
    /\ UNCHANGED <<csv, storeVars, streamVars, src, todo, cur, orm, seen,
                   faults>>

\* Mutant: the checkpoint runs one row ahead.
BatchJobAhead(w) ==
    [orm[w] EXCEPT !.last_committed_row = UpToRow(w) + 1]

\* Mutant: the rows sent are counted, not the rows inserted.
BatchJobCountsSent(w) ==
    [orm[w] EXCEPT !.last_committed_row = UpToRow(w),
        !.successful_rows = @ + Cardinality(BatchValid(w)),
        !.failed_rows = @ + Cardinality(BatchErrors(w))]

\* Mutant: the rows already present are subtracted from failed_rows.
BatchJobSwapped(w) ==
    [orm[w] EXCEPT !.last_committed_row = UpToRow(w),
        !.successful_rows = @ + Cardinality(Inserted(w)),
        !.failed_rows = @ + Cardinality(BatchErrors(w))
                  + (Cardinality(Inserted(w)) - Cardinality(BatchValid(w)))]

\* Mutant: the batch is committed, its checkpoint is not.
BatchJobNoCheckpoint(w) == orm[w]

\* The batch as _commit_batch leaves the ORM copy of the job.
BatchJob(w) ==
    [orm[w] EXCEPT
        !.last_committed_row = UpToRow(w),
        !.successful_rows = @ + Cardinality(Inserted(w)),
        !.failed_rows = @ + Cardinality(BatchErrors(w))
                  + (Cardinality(BatchValid(w)) - Cardinality(Inserted(w)))]

\* _commit_batch: one transaction over all three tables. The explicit UPDATE
\* writes its columns whether or not they changed, the status included.
CommitBatch(w) ==
    /\ BatchDue(w)
    /\ ~BatchRaises(w) /\ ~BatchFails(w)
    /\ txns' = [t \in Tids |->
                  IF t \in Inserted(w) THEN cur[w] ELSE txns[t]]
    /\ errs' = [errs EXCEPT ![cur[w]] = [i \in RowNumber |->
                  @[i] + IF i \in BatchErrors(w) THEN 1 ELSE 0]]
    /\ LET new == BatchJob(w)
       IN  /\ jobs' = [jobs EXCEPT ![cur[w]] =
                [@ EXCEPT !.last_committed_row = new.last_committed_row,
                          !.successful_rows = new.successful_rows,
                          !.failed_rows = new.failed_rows,
                          !.status = new.status]]
           /\ orm' = [orm EXCEPT ![w] = new]
    /\ seen' = [seen EXCEPT ![w] = @ \cup TidsOf(w, BatchValid(w))]
    /\ UNCHANGED <<csv, streamVars, pc, src, todo, cur, faults>>

\* Postgres rejects a statement of the batch. The transaction is aborted, so
\* the commit in process_entry's except block fails too and the attempt
\* leaves no trace, not even in retry_count.
BatchRejected(w) ==
    /\ BatchDue(w)
    /\ ~BatchRaises(w) /\ BatchFails(w)
    /\ Abort(w, "reclaim")
    /\ UNCHANGED <<csv, storeVars, streamVars, faults>>

CompleteRun(w) ==
    /\ pc[w] = "rows" /\ File(w).header
    /\ ~RowsLeft(w)
    /\ CommitJob(w, [orm[w] EXCEPT !.total_rows = Len(File(w).rows),
                                   !.status = "COMPLETED",
                                   !.completed_at = TRUE])
    /\ Goto(w, "ack")
    /\ UNCHANGED <<csv, streamVars, src, todo, cur, seen, faults>>

\* XACK: "ack" is the call inside the try block, "drop" the ones before it.
\* It removes the entry whoever owns it.
AckJob(w) ==
    /\ pc[w] \in {"ack", "drop"}
    /\ pel' = pel \ {cur[w]}
    /\ idle' = idle \ {cur[w]}
    /\ Continue(w)
    /\ UNCHANGED <<csv, storeVars, id, last, delivered, faults>>

\* Mutants: the attempt is not counted; progress is thrown away.
RequeuedUncounted(job) == [job EXCEPT !.status = "QUEUED"]
RequeuedFromStart(job) ==
    [job EXCEPT !.retry_count = @ + 1, !.status = "QUEUED",
                !.last_committed_row = 0]

\* The except block: count the attempt, requeue, do not ack, re-raise.
Requeued(job) == [job EXCEPT !.retry_count = @ + 1, !.status = "QUEUED"]

\* Mutant: the entry is acknowledged although the attempt failed.
HandleExceptionAcks(w) ==
    /\ pc[w] = "except"
    /\ FlushJob(w, Requeued(orm[w]))
    /\ pel' = pel \ {cur[w]}
    /\ Abort(w, "reclaim")
    /\ UNCHANGED <<csv, txns, errs, id, last, delivered, idle, faults>>

HandleException(w) ==
    /\ pc[w] = "except"
    /\ FlushJob(w, Requeued(orm[w]))
    /\ Abort(w, "reclaim")
    /\ UNCHANGED <<csv, txns, errs, streamVars, faults>>

-----------------------------------------------------------------------------
(* Time and faults *)

\* worker_claim_idle_ms pass for an entry nobody is working on any more.
EntryGoesIdle(j) ==
    /\ j \in pel \ idle
    /\ \A w \in Workers : ~Holds(w, j)
    /\ idle' = idle \cup {j}
    /\ UNCHANGED <<csv, storeVars, id, last, delivered, pel, localVars, faults>>

\* They pass while a live worker still holds it: nothing renews the claim.
OutlivesClaim(j) ==
    /\ j \in pel \ idle
    /\ \E w \in Workers : Holds(w, j)
    /\ Fault("slow")
    /\ idle' = idle \cup {j}
    /\ UNCHANGED <<csv, storeVars, id, last, delivered, pel, localVars>>

\* The process dies; SIGTERM is the case of a worker at the top of its loop.
Crash(w) ==
    /\ pc[w] # "down"
    /\ Fault("crash")
    /\ Abort(w, "down")
    /\ UNCHANGED <<csv, storeVars, streamVars>>

Restart(w) ==
    /\ pc[w] = "down"
    /\ Goto(w, "reclaim")
    /\ UNCHANGED <<csv, storeVars, streamVars, src, todo, cur, orm, seen,
                   faults>>

\* A transaction fails and the except block's commit with it.
DbError(w) ==
    /\ pc[w] \in {"load", "exhausted", "begin", "rows", "except"}
    /\ Fault("db")
    /\ Abort(w, "reclaim")
    /\ UNCHANGED <<csv, storeVars, streamVars>>

\* No connection for the batch: no transaction is open yet, so the except
\* block can still commit.
DbUnreachable(w) ==
    /\ BatchDue(w)
    /\ Fault("db")
    /\ Goto(w, "except")
    /\ UNCHANGED <<csv, storeVars, streamVars, src, todo, cur, orm, seen>>

\* XACK raises, applied (its reply is lost) or not.
AckError(w) ==
    /\ \/ Fault("ack") /\ UNCHANGED <<pel, idle>>
       \/ /\ Fault("ack_reply")
          /\ pel' = pel \ {cur[w]}
          /\ idle' = idle \ {cur[w]}
    /\ \/ /\ pc[w] = "ack"
          /\ Goto(w, "except")
          /\ UNCHANGED <<src, todo, cur, orm, seen>>
       \/ /\ pc[w] = "drop"
          /\ Abort(w, "reclaim")
    /\ UNCHANGED <<csv, storeVars, id, last, delivered>>

-----------------------------------------------------------------------------
WorkerStep(w) ==
    \/ ReclaimStaleJobs(w) \/ ReadNewJobs(w) \/ LoadJob(w)
    \/ FailExhausted(w) \/ BeginRun(w) \/ FailMissingColumns(w)
    \/ RowRaises(w) \/ CommitBatch(w) \/ BatchRejected(w) \/ CompleteRun(w)
    \/ AckJob(w) \/ HandleException(w)

WorkerFault(w) ==
    Crash(w) \/ DbError(w) \/ DbUnreachable(w) \/ AckError(w)

Next ==
    \/ \E j \in Jobs :
         EnqueueImportJob(j) \/ EntryGoesIdle(j) \/ OutlivesClaim(j)
    \/ \E w \in Workers : WorkerStep(w) \/ Restart(w) \/ WorkerFault(w)

Spec == Init /\ [][Next]_vars

\* Live workers keep running their loop, dead ones are restarted by the
\* orchestrator, time passes. Faults and the API owe nothing.
Fairness ==
    /\ \A w \in Workers : WF_vars(WorkerStep(w)) /\ WF_vars(Restart(w))
    /\ \A j \in Jobs : WF_vars(EntryGoesIdle(j))

FairSpec == Spec /\ Fairness

-----------------------------------------------------------------------------
(* Properties *)

\* Every variable has its type.
TypeOK ==
    /\ csv \in [Jobs -> CsvFiles]
    /\ jobs \in [Jobs -> JobRow]
    /\ txns \in [Tids -> Jobs \cup {None}]
    /\ errs \in [Jobs -> [RowNumber -> Nat]]
    /\ id \in [Jobs -> Nat] /\ last \in Nat /\ delivered \in Nat
    /\ pel \subseteq Jobs /\ idle \subseteq Jobs
    /\ pc \in [Workers -> PC]
    /\ src \in [Workers -> {"new", "reclaimed"}]
    /\ todo \in [Workers -> SUBSET Jobs]
    /\ cur \in [Workers -> Jobs \cup {None}]
    /\ orm \in [Workers -> JobRow]
    /\ seen \in [Workers -> SUBSET Tids]
    /\ faults \in 0..MaxFaults

Terminal(j) == jobs[j].status \in {"COMPLETED", "FAILED"}
Enqueued(j) == id[j] # 0
Settled(j) == Terminal(j) /\ j \notin pel /\ id[j] <= delivered

\* Row i of j's file is a valid transaction whose id is in the table.
Stored(j, i) ==
    LET row == csv[j].rows[i] IN row.kind = "ok" => txns[row.tid] # None

\* What resuming from last_committed_row relies on: every valid row the
\* checkpoint covers is in transactions, whatever fails, is lost or is
\* delivered twice (import_worker.py 138, 173-211).
CommittedRowsStored ==
    \A j \in Jobs : \A i \in 1..Len(csv[j].rows) :
        i <= jobs[j].last_committed_row => Stored(j, i)

\* A job that reports COMPLETED has all its valid rows in transactions, also
\* when several workers hold it at once with stale copies (162-165).
CompletedMeansStored ==
    \A j \in Jobs : jobs[j].status = "COMPLETED" =>
        \A i \in 1..Len(csv[j].rows) : Stored(j, i)

\* Retries are bounded, also when two workers count the same job (87, 101).
RetriesBounded == \A j \in Jobs : jobs[j].retry_count <= MaxRetries

\* A worker failure does not lose an import: a job that is not finished is
\* still in the stream, pending or in a worker's hands (96-107).
NoJobLost ==
    \A j \in Jobs : Enqueued(j) /\ ~Terminal(j) =>
        \/ id[j] > delivered
        \/ j \in pel
        \/ \E w \in Workers : Holds(w, j)

\* ARCHITECTURE.md: an entry is delivered to one consumer at a time. While
\* no delivery outlives its claim, a job is in the hands of one worker only,
\* however often it is reclaimed (queue.py 56-84).
OneWorkerPerJob ==
    \A v, w \in Workers : \A j \in Jobs :
        v # w /\ Holds(v, j) => ~Holds(w, j)

\* The progress a client reads adds up at every moment: successful_rows is
\* the number of transactions that bear the job's id, and every row up to
\* the checkpoint was counted once, as successful or as failed (194-210).
ExactCounters ==
    \A j \in Jobs :
        /\ jobs[j].successful_rows = Cardinality({t \in Tids : txns[t] = j})
        /\ jobs[j].successful_rows + jobs[j].failed_rows
             = jobs[j].last_committed_row

\* A batch and its checkpoint are one transaction: no row beyond the
\* checkpoint has left a transaction or an error behind (169-211).
NothingBeyondCheckpoint ==
    \A j \in Jobs :
        LET done == 1..jobs[j].last_committed_row
        IN  /\ \A t \in Tids : txns[t] = j =>
                 \E i \in done \cap DOMAIN csv[j].rows :
                     csv[j].rows[i] = [kind |-> "ok", tid |-> t]
            /\ \A i \in RowNumber \ done : errs[j][i] = 0

\* The error report has each invalid row of the committed part exactly once
\* and no row twice, however often the import was resumed (142-149, 188-192).
ErrorsReportedOnce ==
    \A j \in Jobs : \A i \in RowNumber :
        /\ errs[j][i] <= 1
        /\ /\ i \in DOMAIN csv[j].rows
           /\ i <= jobs[j].last_committed_row
           /\ csv[j].rows[i].kind = "bad"
           => errs[j][i] = 1

\* A job is only given up for a missing column or after MAX_RETRIES failed
\* attempts (87-94, 124-129).
FailedIsJustified ==
    \A j \in Jobs : jobs[j].status = "FAILED" =>
        ~csv[j].header \/ jobs[j].retry_count >= MaxRetries

\* ARCHITECTURE.md: last_committed_row is a strictly increasing checkpoint.
CheckpointMonotone ==
    [][\A j \in Jobs :
         jobs'[j].last_committed_row >= jobs[j].last_committed_row]_vars

\* Once a client has read COMPLETED the job never runs or changes again,
\* although its entry may be delivered again (82-85).
CompletedIsFinal ==
    [][\A j \in Jobs : jobs[j].status = "COMPLETED" => jobs'[j] = jobs[j]]_vars

\* A poison-pill file does not loop for ever: every enqueued import is
\* finished at last and its entry acknowledged for good (87-107).
EveryImportSettles == \A j \in Jobs : Enqueued(j) ~> []Settled(j)

\* A transaction_id that a file repeats is reported at its later rows: within
\* a batch always, across batches if the import ran through without a fault
\* and a retry. seen_in_file does not outlive an attempt, so after a resume
\* the repetition is only counted as failed (134, 146-153).
RepeatsReported ==
    \A j \in Jobs : jobs[j].status = "COMPLETED" =>
        \A i, k \in DOMAIN csv[j].rows :
            /\ k < i
            /\ csv[j].rows[k].kind \in ValidKind
            /\ csv[j].rows[i].kind \in ValidKind
            /\ csv[j].rows[i].tid = csv[j].rows[k].tid
            /\ \/ (i - 1) \div BatchSize = (k - 1) \div BatchSize
               \/ faults = 0 /\ jobs[j].retry_count = 0
            => errs[j][i] = 1

-----------------------------------------------------------------------------
\* GET /imports/{id}: the columns of the row, as a client polls them.
GetImportStatus(j) ==
    [status |-> jobs[j].status, total |-> jobs[j].total_rows,
     processed |-> jobs[j].last_committed_row,
     successful |-> jobs[j].successful_rows, failed |-> jobs[j].failed_rows]

Contract == INSTANCE ImportContract WITH
    size <- [j \in Jobs |-> Len(csv[j].rows)],
    malformed <- [j \in Jobs |-> ~csv[j].header],
    answer <- [j \in Jobs |-> GetImportStatus(j)],
    tries <- [j \in Jobs |-> jobs[j].retry_count]

\* While no delivery outlives its claim and XACK is sound, whatever crashes and
\* however often an import is taken up again, the answers a client polls are
\* those of ImportContract: progress that only grows and counts each row once,
\* COMPLETED for good and for the whole file, never COMPLETED after FAILED
\* (72-211; imports.py 29-50).
ImplementsContract == Contract!Spec
=============================================================================
