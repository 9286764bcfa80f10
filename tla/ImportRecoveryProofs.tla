------------------------ MODULE ImportRecoveryProofs ------------------------
(***************************************************************************)
(* What the import worker guarantees while a delivery is sound: no claim   *)
(* is outlived by the worker that holds it, and XACK does what it says.    *)
(* Workers may crash and Postgres may fail at every step, any number of    *)
(* times.                                                                  *)
(***************************************************************************)
EXTENDS ImportWorkerProofs

\* Neither a worker slower than worker_claim_idle_ms nor a failing XACK.
SoundDeliveries == Faults \cap {"slow", "ack", "ack_reply"} = {}

-----------------------------------------------------------------------------
(* Who holds an entry *)

\* Stream positions are given out once and in order, and an entry is pending
\* only after it was delivered.
StreamInv ==
    /\ delivered <= last
    /\ \A j \in Jobs : id[j] <= last
    /\ \A j, k \in Jobs : id[j] = id[k] /\ id[j] # 0 => j = k
    /\ idle \subseteq pel
    /\ \A j \in pel : id[j] # 0 /\ id[j] <= delivered

\* What a worker holds is pending, so that nobody reads it, and not idle, so
\* that nobody reclaims it; what it works on is no longer on its list.
ClaimsInv ==
    /\ \A w \in Workers : \A j \in Jobs : Holds(w, j) => j \in pel \ idle
    /\ \A w \in Workers : cur[w] \in Jobs => cur[w] \notin todo[w]
    /\ OneWorkerPerJob

HoldInv == TypeInv /\ StreamInv /\ ClaimsInv

LEMMA HoldInit == Init => HoldInv
<1> SUFFICES ASSUME Init PROVE HoldInv
  OBVIOUS
<1>1. TypeInv BY TypeInit
<1>2. StreamInv BY DEF Init, StreamInv
<1>3. ClaimsInv
  BY ConstantsAssumption DEF Init, ClaimsInv, Holds, OneWorkerPerJob
<1>4. QED BY <1>1, <1>2, <1>3 DEF HoldInv

\* A worker takes over entries nobody holds, none of which it works on.
LEMMA TakeOver ==
    ASSUME HoldInv, NEW w \in Workers, NEW S \in SUBSET Jobs,
           \A v \in Workers : \A j \in S : ~Holds(v, j),
           todo' = [todo EXCEPT ![w] = S], cur' = cur,
           S \subseteq pel' \ idle', pel \ idle \subseteq pel' \ idle'
    PROVE  ClaimsInv'
<1>1. TypeOK /\ ClaimsInv
  BY DEF HoldInv, TypeInv
<1>2. \A v \in Workers : \A j \in Jobs :
        Holds(v, j)' <=> IF v = w THEN j = cur[w] \/ j \in S ELSE Holds(v, j)
  BY <1>1 DEF TypeOK, Holds
<1>3. \A v \in Workers : \A j \in Jobs : Holds(v, j)' => j \in pel' \ idle'
  BY <1>1, <1>2 DEF ClaimsInv, Holds
<1>4. \A v \in Workers : cur'[v] \in Jobs => cur'[v] \notin todo'[v]
  BY <1>1 DEF ClaimsInv, TypeOK, Holds
<1>5. OneWorkerPerJob'
  BY <1>1, <1>2 DEF ClaimsInv, OneWorkerPerJob, Holds
<1>6. QED BY <1>3, <1>4, <1>5 DEF ClaimsInv

\* A worker drops entries it holds.
LEMMA LetGo ==
    ASSUME HoldInv, NEW w \in Workers,
           \A v \in Workers : \A j \in Jobs :
               Holds(v, j)' => Holds(v, j) /\ j \in pel' \ idle',
           \A v \in Workers : /\ cur'[v] = cur[v] \/ cur'[v] = None
                              /\ todo'[v] \subseteq todo[v]
    PROVE  ClaimsInv'
<1>1. OneWorkerPerJob'
  BY DEF HoldInv, ClaimsInv, OneWorkerPerJob
<1>2. \A v \in Workers : cur'[v] \in Jobs => cur'[v] \notin todo'[v]
  BY ConstantsAssumption DEF HoldInv, ClaimsInv
<1>3. QED BY <1>1, <1>2 DEF ClaimsInv

LEMMA HoldNext ==
    ASSUME SoundDeliveries
    PROVE  HoldInv /\ [Next]_vars => HoldInv'
<1> SUFFICES ASSUME HoldInv, [Next]_vars PROVE HoldInv'
  OBVIOUS
<1>a. TypeInv' /\ TypeOK /\ HasJob /\ StreamInv /\ ClaimsInv /\ None \notin Jobs
  BY TypeNext, ConstantsAssumption DEF HoldInv, TypeInv
<1>b. SUFFICES StreamInv' /\ ClaimsInv'
  BY <1>a DEF HoldInv
<1>1. ASSUME UNCHANGED <<streamVars, todo, cur>>
      PROVE  StreamInv' /\ ClaimsInv'
  BY <1>1, <1>a DEF streamVars, StreamInv, ClaimsInv, OneWorkerPerJob, Holds
<1>2. ASSUME NEW w \in Workers,
             \/ FailExhausted(w) \/ BeginRun(w) \/ FailMissingColumns(w)
             \/ RowRaises(w) \/ CommitBatch(w) \/ CompleteRun(w)
             \/ Restart(w) \/ DbUnreachable(w)
      PROVE  StreamInv' /\ ClaimsInv'
  BY <1>1, <1>2 DEF FailExhausted, BeginRun, FailMissingColumns, RowRaises,
                    CommitBatch, CompleteRun, Restart, DbUnreachable
<1>3. ASSUME NEW w \in Workers, NEW l, Abort(w, l), UNCHANGED streamVars
      PROVE  StreamInv' /\ ClaimsInv'
  <2>1. StreamInv'
    BY <1>3, <1>a DEF streamVars, StreamInv
  <2>2. \A v \in Workers : /\ cur'[v] = cur[v] \/ cur'[v] = None
                           /\ todo'[v] \subseteq todo[v]
    BY <1>3, <1>a DEF Abort, Release, TypeOK
  <2>3. \A v \in Workers : \A j \in Jobs :
          Holds(v, j)' => Holds(v, j) /\ j \in pel' \ idle'
    BY <1>3, <1>a, <2>2 DEF streamVars, ClaimsInv, Holds
  <2>4. QED BY <2>1, <2>2, <2>3, LetGo
<1>4. ASSUME NEW w \in Workers,
             BatchRejected(w) \/ HandleException(w) \/ Crash(w) \/ DbError(w)
      PROVE  StreamInv' /\ ClaimsInv'
  BY <1>3, <1>4 DEF BatchRejected, HandleException, Crash, DbError
<1>5. ASSUME NEW j \in Jobs, EnqueueImportJob(j) PROVE StreamInv' /\ ClaimsInv'
  <2>1. StreamInv'
    BY <1>5, <1>a DEF EnqueueImportJob, StreamInv, TypeOK
  <2>2. ClaimsInv'
    BY <1>5, <1>a DEF EnqueueImportJob, localVars, ClaimsInv, OneWorkerPerJob,
                      Holds
  <2>3. QED BY <2>1, <2>2
<1>6. ASSUME NEW j \in Jobs, EntryGoesIdle(j) PROVE StreamInv' /\ ClaimsInv'
  BY <1>6, <1>a DEF EntryGoesIdle, localVars, StreamInv, ClaimsInv,
                    OneWorkerPerJob, Holds
<1>7. ASSUME NEW w \in Workers, ReclaimStaleJobs(w)
      PROVE  StreamInv' /\ ClaimsInv'
  <2>1. StreamInv'
    BY <1>7, <1>a DEF ReclaimStaleJobs, StreamInv
  <2>2. Claimable \subseteq idle
    BY DEF Claimable
  <2>3. \A v \in Workers : \A j \in Claimable : ~Holds(v, j)
    BY <2>2, <1>a DEF ClaimsInv, TypeOK
  <2>4. ClaimsInv'
    BY <1>7, <1>a, <2>2, <2>3, TakeOver DEF ReclaimStaleJobs, StreamInv, TypeOK
  <2>5. QED BY <2>1, <2>4
<1>8. ASSUME NEW w \in Workers, ReadNewJobs(w) PROVE StreamInv' /\ ClaimsInv'
  <2>1. CASE UNCHANGED <<delivered, pel, todo>>
    BY <1>8, <2>1, <1>1 DEF ReadNewJobs, streamVars
  <2>2. ASSUME NEW j \in Jobs, id[j] = delivered + 1,
               delivered' = delivered + 1, pel' = pel \cup {j},
               todo' = [todo EXCEPT ![w] = {j}]
        PROVE  StreamInv' /\ ClaimsInv'
    <3>1. id' = id /\ last' = last /\ idle' = idle /\ cur' = cur
      BY <1>8 DEF ReadNewJobs
    <3>2. StreamInv'
      BY <2>2, <3>1, <1>a DEF StreamInv, TypeOK
    <3>3. j \notin pel
      BY <2>2, <1>a DEF StreamInv, TypeOK
    <3>4. \A v \in Workers : ~Holds(v, j)
      BY <3>3, <1>a DEF ClaimsInv
    <3>5. {j} \in SUBSET Jobs /\ {j} \subseteq pel' \ idle'
      BY <2>2, <3>1, <3>3, <1>a DEF StreamInv
    <3>6. ClaimsInv'
      <4> DEFINE S == {j}
      <4>1. /\ todo' = [todo EXCEPT ![w] = S] /\ S \in SUBSET Jobs
            /\ \A v \in Workers : \A k \in S : ~Holds(v, k)
            /\ S \subseteq pel' \ idle' /\ pel \ idle \subseteq pel' \ idle'
        BY <2>2, <3>1, <3>4, <3>5
      <4> HIDE DEF S
      <4>2. QED BY <3>1, <4>1, TakeOver
    <3>7. QED BY <3>2, <3>6
  <2>3. QED BY <1>8, <2>1, <2>2 DEF ReadNewJobs
<1>9. ASSUME NEW w \in Workers, LoadJob(w) PROVE StreamInv' /\ ClaimsInv'
  <2>1. PICK j \in todo[w] : /\ cur' = [cur EXCEPT ![w] = j]
                             /\ todo' = [todo EXCEPT ![w] = @ \ {j}]
    BY <1>9 DEF LoadJob
  <2>2. UNCHANGED streamVars
    BY <1>9 DEF LoadJob
  <2>3. \A v \in Workers : \A k \in Jobs : Holds(v, k)' => Holds(v, k)
    BY <2>1, <1>a DEF Holds, TypeOK
  <2>4. \A v \in Workers : cur'[v] \in Jobs => cur'[v] \notin todo'[v]
    BY <2>1, <1>a DEF ClaimsInv, TypeOK
  <2>5. ClaimsInv'
    BY <2>2, <2>3, <2>4, <1>a DEF streamVars, ClaimsInv, OneWorkerPerJob
  <2>6. QED BY <2>2, <2>5, <1>a DEF streamVars, StreamInv
<1>10. ASSUME NEW w \in Workers, AckJob(w) PROVE StreamInv' /\ ClaimsInv'
  <2>1. /\ cur[w] \in Jobs
        /\ pel' = pel \ {cur[w]} /\ idle' = idle \ {cur[w]}
        /\ cur' = [cur EXCEPT ![w] = None] /\ todo' = todo
        /\ UNCHANGED <<id, last, delivered>>
    BY <1>10, <1>a DEF AckJob, HasJob, Busy, Continue, Release
  <2>2. StreamInv'
    BY <2>1, <1>a DEF StreamInv
  <2>3. \A v \in Workers : \A j \in Jobs : Holds(v, j)' => Holds(v, j)
    BY <2>1, <1>a DEF Holds, TypeOK
  <2>4. \A v \in Workers : \A j \in Jobs : Holds(v, j)' => j # cur[w]
    BY <2>1, <1>a DEF Holds, TypeOK, ClaimsInv, OneWorkerPerJob
  <2>5. \A v \in Workers : \A j \in Jobs :
          Holds(v, j)' => Holds(v, j) /\ j \in pel' \ idle'
    BY <2>1, <2>3, <2>4, <1>a DEF ClaimsInv
  <2>6. ClaimsInv'
    BY <2>1, <2>5, <1>a, LetGo DEF TypeOK
  <2>7. QED BY <2>2, <2>6
<1>11. ASSUME NEW j \in Jobs, OutlivesClaim(j) PROVE FALSE
  BY <1>11 DEF OutlivesClaim, Fault, SoundDeliveries
<1>12. ASSUME NEW w \in Workers, AckError(w) PROVE FALSE
  BY <1>12 DEF AckError, Fault, SoundDeliveries
<1>13. CASE UNCHANGED vars
  BY <1>13, <1>1 DEF vars, streamVars
<1>14. QED
  BY <1>2, <1>4, <1>5, <1>6, <1>7, <1>8, <1>9, <1>10, <1>11, <1>12, <1>13
  DEF Next, WorkerStep, WorkerFault

\* An entry is delivered to one consumer at a time: a job is in the hands of
\* one worker only, however often it crashes, fails and is reclaimed, provided
\* that no worker outlives its claim and no XACK fails.
THEOREM NeverTwoWorkers ==
    ASSUME SoundDeliveries
    PROVE  Spec => []OneWorkerPerJob
<1>1. HoldInv => OneWorkerPerJob BY DEF HoldInv, ClaimsInv
<1>2. QED BY <1>1, HoldInit, HoldNext, PTL DEF Spec

-----------------------------------------------------------------------------
(* What a job is at each step of process_entry *)

\* The copy is exact, since nobody else writes the job, and the job is what
\* the step takes it for.
CopyIsExact(w) ==
    pc[w] \in Busy =>
        LET job == jobs[cur[w]]
        IN  /\ orm[w] = job
            /\ pc[w] = "begin" => job.status # "COMPLETED" /\ ~Exhausted(job)
            /\ pc[w] = "exhausted" => job.status # "COMPLETED" /\ Exhausted(job)
            /\ pc[w] \in {"rows", "except"} => job.status = "PROCESSING"
            /\ pc[w] \in {"ack", "drop"} => job.status \in {"COMPLETED", "FAILED"}

\* A job that runs has an attempt left, one given up was given up for a
\* reason, and one that is not finished is still to be delivered or pending.
JobIsSound(j) ==
    /\ jobs[j].retry_count <= MaxRetries
    /\ jobs[j].status = "PROCESSING" => ~Exhausted(jobs[j])
    /\ jobs[j].status = "FAILED" => ~csv[j].header \/ Exhausted(jobs[j])
    /\ jobs[j].last_committed_row <= Len(csv[j].rows)
    /\ Enqueued(j) /\ ~Terminal(j) => id[j] > delivered \/ j \in pel

RunInv ==
    /\ HoldInv
    /\ \A w \in Workers : CopyIsExact(w)
    /\ \A j \in Jobs : JobIsSound(j)

\* The moves of a row of import_jobs, as one worker at a time makes them:
\* begin an attempt, advance the checkpoint, complete, count a failed
\* attempt, give up.
Begins(old, new) ==
    /\ old.status # "COMPLETED" /\ ~Exhausted(old)
    /\ new = [old EXCEPT !.status = "PROCESSING"]

Advances(file, old, new) ==
    /\ old.status = "PROCESSING" /\ file.header
    /\ \E more \in 1 .. Len(file.rows) - old.last_committed_row :
       \E stored \in 0..more :
           new = [old EXCEPT !.last_committed_row = @ + more,
                             !.successful_rows = @ + stored,
                             !.failed_rows = @ + (more - stored)]

Completes(file, old, new) ==
    /\ old.status = "PROCESSING" /\ file.header
    /\ old.last_committed_row = Len(file.rows)
    /\ new = [old EXCEPT !.total_rows = Len(file.rows),
                         !.status = "COMPLETED", !.completed_at = TRUE]

Requeues(old, new) == old.status = "PROCESSING" /\ new = Requeued(old)

GivesUp(file, old, new) ==
    /\ \/ old.status = "PROCESSING" /\ ~file.header
       \/ old.status # "COMPLETED" /\ Exhausted(old)
    /\ new = Failed(old)

RowMoves(file, old, new) ==
    \/ Begins(old, new) \/ Advances(file, old, new)
    \/ Completes(file, old, new) \/ Requeues(old, new)
    \/ GivesUp(file, old, new)

\* Worker w makes one of them with the job it works on.
MovesRow(w, new) ==
    /\ pc[w] \in Busy /\ cur[w] \in Jobs /\ new \in JobRow
    /\ RowMoves(csv[cur[w]], jobs[cur[w]], new)
    /\ jobs' = [jobs EXCEPT ![cur[w]] = new]
    /\ UNCHANGED <<csv, streamVars>>

\* With an exact copy a flush writes what was assigned.
LEMMA ExactFlush ==
    ASSUME TypeOK, NEW w \in Workers, cur[w] \in Jobs,
           orm[w] = jobs[cur[w]], NEW new \in JobRow, FlushJob(w, new)
    PROVE  jobs' = [jobs EXCEPT ![cur[w]] = new]
<1>1. jobs[cur[w]] \in JobRow
  BY DEF TypeOK
<1>2. Flush(jobs[cur[w]], orm[w], new) = new
  BY <1>1 DEF Flush, JobRow
<1>3. QED BY <1>2 DEF FlushJob

\* Every row of a batch is counted once: the batch adds as many rows to the
\* two counters as it adds to the checkpoint.
LEMMA BatchCounts ==
    ASSUME TypeOK, NEW w \in Workers, cur[w] \in Jobs, RowsLeft(w)
    PROVE  LET more == UpToRow(w) - orm[w].last_committed_row
               stored == Cardinality(Inserted(w))
           IN  /\ more \in 1 .. Len(File(w).rows) - orm[w].last_committed_row
               /\ stored \in 0..more
               /\ BatchJob(w) = [orm[w] EXCEPT
                    !.last_committed_row = @ + more,
                    !.successful_rows = @ + stored,
                    !.failed_rows = @ + (more - stored)]
<1> DEFINE lo == orm[w].last_committed_row
           n == Len(File(w).rows)
           more == UpToRow(w) - lo
<1>1. /\ lo \in Nat /\ UpToRow(w) \in Nat /\ n \in Nat
      /\ lo < UpToRow(w) /\ UpToRow(w) <= n
      /\ BatchRows(w) = (lo + 1) .. UpToRow(w)
  BY BatchRange, FileType, ConstantsAssumption
<1>2. /\ IsFiniteSet(BatchRows(w)) /\ Cardinality(BatchRows(w)) = more
  <2> DEFINE a == lo + 1
             b == UpToRow(w)
  <2>1. /\ a \in Int /\ b \in Int /\ ~(a > b) /\ b - a + 1 = more
        /\ BatchRows(w) = a..b
    BY <1>1
  <2> HIDE DEF a, b
  <2>2. QED BY <2>1, FS_Interval
<1>3. BatchValid(w) \subseteq BatchRows(w)
  BY DEF BatchValid, RowsOfKind
<1>4. /\ IsFiniteSet(BatchValid(w))
      /\ Cardinality(BatchErrors(w)) = more - Cardinality(BatchValid(w))
  <2>1. BatchRows(w) \cap BatchValid(w) = BatchValid(w)
    BY <1>3
  <2>2. QED BY <1>2, <1>3, <2>1, FS_Subset, FS_Difference DEF BatchErrors
<1>5. /\ IsFiniteSet(TidsOf(w, BatchValid(w)))
      /\ Cardinality(TidsOf(w, BatchValid(w))) <= Cardinality(BatchValid(w))
  <2> DEFINE f == [i \in BatchValid(w) |-> File(w).rows[i].tid]
  <2>1. f \in Surjection(BatchValid(w), TidsOf(w, BatchValid(w)))
    BY DEF TidsOf, Surjection
  <2>2. QED BY <1>4, <2>1, FS_Surjection
<1>6. /\ IsFiniteSet(Inserted(w))
      /\ Cardinality(Inserted(w)) <= Cardinality(TidsOf(w, BatchValid(w)))
  BY <1>5, FS_Subset DEF Inserted
<1>7. Cardinality(BatchValid(w)) <= more
  BY <1>2, <1>3, FS_Subset
<1>8. /\ Cardinality(Inserted(w)) \in Nat /\ Cardinality(BatchValid(w)) \in Nat
      /\ Cardinality(TidsOf(w, BatchValid(w))) \in Nat
  BY <1>4, <1>5, <1>6, FS_CardinalityType
<1>9. more \in 1..n - lo /\ Cardinality(Inserted(w)) \in 0..more
  BY <1>1, <1>5, <1>6, <1>7, <1>8
<1>10. orm[w] \in JobRow
  BY DEF TypeOK
<1>11. /\ UpToRow(w) = lo + more
       /\ \A k \in Nat : k + Cardinality(BatchErrors(w))
              + (Cardinality(BatchValid(w)) - Cardinality(Inserted(w)))
            = k + (more - Cardinality(Inserted(w)))
  BY <1>1, <1>4, <1>8, <1>9
<1>12. BatchJob(w) = [orm[w] EXCEPT
          !.last_committed_row = @ + more,
          !.successful_rows = @ + Cardinality(Inserted(w)),
          !.failed_rows = @ + (more - Cardinality(Inserted(w)))]
  BY <1>10, <1>11 DEF BatchJob, JobRow
<1>13. QED BY <1>9, <1>12

\* A move keeps a job sound.
LEMMA MoveIsSound ==
    ASSUME RunInv, NEW w \in Workers, NEW new, MovesRow(w, new)
    PROVE  \A j \in Jobs : JobIsSound(j)'
<1> PICK J \in Jobs : J = cur[w]
  BY DEF MovesRow
<1> DEFINE old == jobs[J]
<1>1. /\ TypeOK /\ old \in JobRow /\ new \in JobRow
      /\ JobIsSound(J) /\ J \in pel /\ csv' = csv /\ UNCHANGED <<id, delivered, pel>>
  BY DEF RunInv, HoldInv, TypeInv, TypeOK, ClaimsInv, Holds, MovesRow, streamVars
<1>2. /\ jobs'[J] = new
      /\ \A j \in Jobs : j # J => jobs'[j] = jobs[j]
  BY <1>1 DEF MovesRow, TypeOK
<1>3. /\ new.retry_count <= MaxRetries
      /\ new.status = "PROCESSING" => ~Exhausted(new)
      /\ new.status = "FAILED" => ~csv[J].header \/ Exhausted(new)
      /\ new.last_committed_row <= Len(csv[J].rows)
  <2>1. /\ old.retry_count <= MaxRetries
        /\ old.status = "PROCESSING" => ~(old.retry_count >= MaxRetries)
        /\ old.status = "FAILED" =>
             ~csv[J].header \/ old.retry_count >= MaxRetries
        /\ old.last_committed_row <= Len(csv[J].rows)
    BY <1>1 DEF JobIsSound, Exhausted
  <2>2. /\ old.retry_count \in Nat /\ MaxRetries \in Nat
        /\ old.last_committed_row \in Nat /\ Len(csv[J].rows) \in Nat
    <3>1. csv[J].rows \in Seq(Row)
      BY <1>1, ConstantsAssumption DEF TypeOK, CsvFile
    <3>2. Len(csv[J].rows) \in Nat
      BY <3>1
    <3>3. /\ old.retry_count \in Nat /\ old.last_committed_row \in 0..MaxRows
      BY <1>1 DEF JobRow
    <3>4. QED BY <3>2, <3>3, ConstantsAssumption
  <2>3. CASE Begins(old, new)
    BY <1>1, <2>1, <2>2, <2>3 DEF Begins, Exhausted, JobRow
  <2>4. CASE Advances(csv[J], old, new)
    <3>1. PICK more \in 1 .. Len(csv[J].rows) - old.last_committed_row :
          \E stored \in 0..more :
             new = [old EXCEPT !.last_committed_row = @ + more,
                               !.successful_rows = @ + stored,
                               !.failed_rows = @ + (more - stored)]
      BY <2>4 DEF Advances
    <3>2. /\ new.last_committed_row = old.last_committed_row + more
          /\ new.retry_count = old.retry_count /\ new.status = old.status
      BY <1>1, <3>1 DEF JobRow
    <3>3. new.last_committed_row <= Len(csv[J].rows)
      BY <2>2, <3>2
    <3>4. old.status = "PROCESSING"
      BY <2>4 DEF Advances
    <3>5. QED BY <2>1, <3>2, <3>3, <3>4 DEF Exhausted
  <2>5. CASE Completes(csv[J], old, new)
    BY <1>1, <2>1, <2>2, <2>5 DEF Completes, Exhausted, JobRow
  <2>6. CASE Requeues(old, new)
    BY <1>1, <2>1, <2>2, <2>6 DEF Requeues, Requeued, Exhausted, JobRow
  <2>7. CASE GivesUp(csv[J], old, new)
    BY <1>1, <2>1, <2>2, <2>7 DEF GivesUp, Failed, Exhausted, JobRow
  <2>8. QED
    BY <2>3, <2>4, <2>5, <2>6, <2>7 DEF MovesRow, RowMoves
<1>4. JobIsSound(J)'
  BY <1>1, <1>2, <1>3 DEF JobIsSound, Exhausted
<1>5. \A j \in Jobs \ {J} : JobIsSound(j)'
  BY <1>1, <1>2 DEF RunInv, JobIsSound, Enqueued, Terminal
<1>6. QED BY <1>4, <1>5

\* The copies of the workers a step of w does not concern stay exact: it
\* writes no other job than its own, which nobody else works on.
LEMMA OthersExact ==
    ASSUME RunInv, NEW w \in Workers,
           \/ jobs' = jobs
           \/ cur[w] \in Jobs /\ \A j \in Jobs : j # cur[w] => jobs'[j] = jobs[j],
           \A v \in Workers \ {w} :
               pc'[v] = pc[v] /\ cur'[v] = cur[v] /\ orm'[v] = orm[v],
           CopyIsExact(w)'
    PROVE  \A v \in Workers : CopyIsExact(v)'
<1> SUFFICES ASSUME NEW v \in Workers \ {w}, pc[v] \in Busy
             PROVE  CopyIsExact(v)'
  BY DEF CopyIsExact
<1>1. cur[v] \in Jobs /\ CopyIsExact(v)
  BY DEF RunInv, HoldInv, TypeInv, HasJob
<1>2. cur[w] \in Jobs => cur[v] # cur[w]
  BY <1>1 DEF RunInv, HoldInv, ClaimsInv, OneWorkerPerJob, Holds
<1>3. jobs'[cur[v]] = jobs[cur[v]]
  BY <1>1, <1>2
<1>4. QED BY <1>1, <1>3 DEF CopyIsExact

\* The five steps of process_entry that commit a change of the job each make
\* one of the moves.
LEMMA CommitMoves ==
    ASSUME RunInv, NEW w \in Workers, pc[w] \in Busy,
           NEW new \in JobRow, FlushJob(w, new),
           RowMoves(csv[cur[w]], orm[w], new), UNCHANGED <<csv, streamVars>>
    PROVE  MovesRow(w, new)
<1>1. TypeOK /\ cur[w] \in Jobs /\ orm[w] = jobs[cur[w]]
  BY DEF RunInv, HoldInv, TypeInv, HasJob, CopyIsExact
<1>2. QED BY <1>1, ExactFlush DEF MovesRow

LEMMA BeginMoves ==
    ASSUME RunInv, NEW w \in Workers, BeginRun(w)
    PROVE  MovesRow(w, [orm[w] EXCEPT !.status = "PROCESSING"])
<1> DEFINE new == [orm[w] EXCEPT !.status = "PROCESSING"]
<1>1. pc[w] \in Busy /\ new \in JobRow
  BY DEF BeginRun, Busy, RunInv, HoldInv, TypeInv, TypeOK, JobRow, Status
<1>2. Begins(orm[w], new)
  BY DEF BeginRun, Busy, RunInv, CopyIsExact, Begins
<1>3. QED BY <1>1, <1>2, CommitMoves DEF BeginRun, CommitJob, RowMoves

LEMMA CompleteMoves ==
    ASSUME RunInv, NEW w \in Workers, CompleteRun(w)
    PROVE  MovesRow(w, [orm[w] EXCEPT !.total_rows = Len(File(w).rows),
                                      !.status = "COMPLETED",
                                      !.completed_at = TRUE])
<1> DEFINE n == Len(File(w).rows)
           new == [orm[w] EXCEPT !.total_rows = n, !.status = "COMPLETED",
                                 !.completed_at = TRUE]
<1>1. /\ pc[w] \in Busy /\ cur[w] \in Jobs /\ TypeOK /\ orm[w] \in JobRow
      /\ CopyIsExact(w) /\ JobIsSound(cur[w]) /\ File(w) = csv[cur[w]]
  BY DEF CompleteRun, Busy, RunInv, HoldInv, TypeInv, HasJob, TypeOK, File
<1>2. n \in Nat /\ orm[w].last_committed_row \in Nat
  BY <1>1, FileType, ConstantsAssumption DEF JobRow
<1>3. new \in JobRow
  BY <1>1, <1>2 DEF JobRow, Status
<1>4. orm[w].last_committed_row = n
  <2>1. orm[w].last_committed_row <= n
    BY <1>1 DEF CopyIsExact, JobIsSound
  <2>2. ~(orm[w].last_committed_row < n)
    BY DEF CompleteRun, RowsLeft
  <2>3. QED BY <1>2, <2>1, <2>2
<1>5. orm[w].status = "PROCESSING"
  BY <1>1 DEF CompleteRun, CopyIsExact
<1>6. Completes(csv[cur[w]], orm[w], new)
  BY <1>1, <1>4, <1>5 DEF CompleteRun, Completes
<1>7. QED BY <1>1, <1>3, <1>6, CommitMoves DEF CompleteRun, CommitJob, RowMoves

LEMMA FailMoves ==
    ASSUME RunInv, NEW w \in Workers, FailExhausted(w) \/ FailMissingColumns(w)
    PROVE  MovesRow(w, Failed(orm[w]))
<1>1. /\ pc[w] \in Busy /\ Failed(orm[w]) \in JobRow /\ CopyIsExact(w)
  BY DEF FailExhausted, FailMissingColumns, Busy, RunInv, HoldInv, TypeInv,
         TypeOK, Failed, JobRow, Status
<1>2. GivesUp(csv[cur[w]], orm[w], Failed(orm[w]))
  BY <1>1 DEF FailExhausted, FailMissingColumns, CopyIsExact, GivesUp, File
<1>3. QED
  BY <1>1, <1>2, CommitMoves
  DEF FailExhausted, FailMissingColumns, CommitJob, RowMoves

LEMMA ExceptionMoves ==
    ASSUME RunInv, NEW w \in Workers, HandleException(w)
    PROVE  MovesRow(w, Requeued(orm[w]))
<1>1. /\ pc[w] \in Busy /\ orm[w] \in JobRow /\ CopyIsExact(w)
  BY DEF HandleException, Busy, RunInv, HoldInv, TypeInv, TypeOK
<1>2. Requeued(orm[w]) \in JobRow
  <2>1. orm[w].retry_count + 1 \in Nat BY <1>1 DEF JobRow
  <2>2. QED BY <1>1, <2>1 DEF Requeued, JobRow, Status
<1>3. Requeues(orm[w], Requeued(orm[w]))
  BY <1>1 DEF HandleException, CopyIsExact, Requeues
<1>4. QED
  BY <1>1, <1>2, <1>3, CommitMoves DEF HandleException, RowMoves

LEMMA BatchMoves ==
    ASSUME RunInv, NEW w \in Workers, CommitBatch(w)
    PROVE  MovesRow(w, BatchJob(w))
<1> DEFINE new == BatchJob(w)
           old == orm[w]
<1>1. /\ pc[w] \in Busy /\ cur[w] \in Jobs /\ TypeOK /\ RowsLeft(w)
      /\ old = jobs[cur[w]] /\ old \in JobRow
      /\ old.status = "PROCESSING" /\ File(w) = csv[cur[w]] /\ File(w).header
  BY DEF CommitBatch, BatchDue, Busy, RunInv, HoldInv, TypeInv, HasJob, TypeOK,
         CopyIsExact, File
<1>2. new \in JobRow
  BY <1>1, BatchJobType
<1>3. Advances(csv[cur[w]], old, new)
  <2> DEFINE more == UpToRow(w) - old.last_committed_row
             stored == Cardinality(Inserted(w))
  <2>1. /\ more \in 1 .. Len(File(w).rows) - old.last_committed_row
        /\ stored \in 0..more
        /\ new = [old EXCEPT !.last_committed_row = @ + more,
                             !.successful_rows = @ + stored,
                             !.failed_rows = @ + (more - stored)]
    BY <1>1, BatchCounts
  <2> HIDE DEF more, stored, new
  <2>2. QED BY <1>1, <2>1 DEF Advances
<1>4. /\ new.total_rows = old.total_rows /\ new.retry_count = old.retry_count
      /\ new.completed_at = old.completed_at
  BY <1>1 DEF BatchJob, JobRow
<1>5. [old EXCEPT !.last_committed_row = new.last_committed_row,
                  !.successful_rows = new.successful_rows,
                  !.failed_rows = new.failed_rows,
                  !.status = new.status] = new
  BY <1>1, <1>2, <1>4 DEF JobRow
<1>6. jobs' = [jobs EXCEPT ![cur[w]] = new]
  BY <1>1, <1>5 DEF CommitBatch
<1>7. QED
  BY <1>1, <1>2, <1>3, <1>6 DEF MovesRow, RowMoves, CommitBatch

LEMMA RunInit == Init => RunInv
<1> SUFFICES ASSUME Init PROVE RunInv
  OBVIOUS
<1>1. HoldInv BY HoldInit
<1>2. \A w \in Workers : CopyIsExact(w)
  BY DEF Init, CopyIsExact, Busy
<1>3. ASSUME NEW j \in Jobs PROVE JobIsSound(j)
  <2>1. csv[j] \in CsvFile
    BY ConstantsAssumption DEF Init
  <2>2. Len(csv[j].rows) \in Nat
    BY <2>1 DEF CsvFile
  <2>3. jobs[j].retry_count = 0 /\ jobs[j].status = "QUEUED"
        /\ jobs[j].last_committed_row = 0 /\ id[j] = 0
    BY DEF Init, NewJob
  <2>4. QED BY <2>2, <2>3, ConstantsAssumption DEF JobIsSound, Enqueued
<1>4. QED BY <1>1, <1>2, <1>3 DEF RunInv

LEMMA RunNext ==
    ASSUME SoundDeliveries
    PROVE  RunInv /\ [Next]_vars => RunInv'
<1> SUFFICES ASSUME RunInv, [Next]_vars PROVE RunInv'
  OBVIOUS
<1> DEFINE Copies == \A v \in Workers : CopyIsExact(v)
           Sound == \A j \in Jobs : JobIsSound(j)
<1>a. HoldInv' /\ TypeOK /\ HasJob /\ StreamInv /\ ClaimsInv /\ Copies /\ Sound
  BY HoldNext DEF RunInv, HoldInv, TypeInv
<1>b. SUFFICES Copies' /\ Sound'
  BY <1>a DEF RunInv
<1>1. ASSUME UNCHANGED <<csv, jobs>>,
             \A j \in Jobs : Enqueued(j)' /\ ~Terminal(j) =>
                               id'[j] > delivered' \/ j \in pel'
      PROVE  Sound'
  BY <1>1, <1>a DEF JobIsSound, Terminal
<1>2. ASSUME UNCHANGED <<csv, jobs, id, delivered, pel>> PROVE Sound'
  BY <1>2, <1>a DEF JobIsSound, Enqueued, Terminal
<1>3. ASSUME UNCHANGED <<jobs, pc, cur, orm>> PROVE Copies'
  BY <1>3, <1>a DEF CopyIsExact
<1>4. ASSUME NEW j \in Jobs, EnqueueImportJob(j) PROVE Copies' /\ Sound'
  <2>1. \A k \in Jobs : id'[k] = IF k = j THEN last + 1 ELSE id[k]
    BY <1>4, <1>a DEF EnqueueImportJob, TypeOK
  <2>2. last + 1 > delivered
    BY <1>a DEF StreamInv, TypeOK
  <2>3. UNCHANGED <<csv, jobs, delivered, pel, pc, cur, orm>>
    BY <1>4 DEF EnqueueImportJob, storeVars, localVars
  <2>4. \A k \in Jobs : Enqueued(k)' /\ ~Terminal(k) =>
                          id'[k] > delivered' \/ k \in pel'
    BY <2>1, <2>2, <2>3, <1>a DEF JobIsSound, Enqueued
  <2>5. QED BY <1>1, <1>3, <2>3, <2>4
<1>5. ASSUME NEW j \in Jobs, EntryGoesIdle(j) PROVE Copies' /\ Sound'
  BY <1>2, <1>3, <1>5 DEF EntryGoesIdle, storeVars, localVars
<1>6. ASSUME NEW w \in Workers, NEW l \in PC, Goto(w, l), l \notin Busy,
             jobs' = jobs,
             \A v \in Workers \ {w} : cur'[v] = cur[v] /\ orm'[v] = orm[v]
      PROVE  Copies'
  <2>1. CopyIsExact(w)'
    BY <1>6, <1>a DEF Goto, TypeOK, CopyIsExact
  <2>2. QED BY <1>6, <1>a, <2>1, OthersExact DEF Goto, TypeOK
<1>7. /\ {"down", "reclaim", "read", "load"} \subseteq PC \ Busy
  BY DEF PC, Busy
<1>8. ASSUME NEW w \in Workers, ReclaimStaleJobs(w) PROVE Copies' /\ Sound'
  <2>1. \E l \in {"read", "load"} : Goto(w, l)
    BY <1>8 DEF ReclaimStaleJobs
  <2>2. UNCHANGED <<csv, jobs, id, delivered, pel, cur, orm>>
    BY <1>8 DEF ReclaimStaleJobs, storeVars
  <2>3. QED BY <1>2, <1>6, <1>7, <2>1, <2>2
<1>9. ASSUME NEW w \in Workers, ReadNewJobs(w) PROVE Copies' /\ Sound'
  <2>1. \E l \in {"reclaim", "load"} : Goto(w, l)
    BY <1>9 DEF ReadNewJobs
  <2>2. UNCHANGED <<csv, jobs, id, cur, orm>>
    BY <1>9 DEF ReadNewJobs, storeVars
  <2>3. CASE UNCHANGED <<delivered, pel>>
    BY <1>2, <1>6, <1>7, <2>1, <2>2, <2>3
  <2>4. ASSUME NEW j \in Jobs, id[j] = delivered + 1,
               delivered' = delivered + 1, pel' = pel \cup {j}
        PROVE  Sound'
    <3>1. \A k \in Jobs : id[k] > delivered => id[k] > delivered' \/ k = j
      BY <2>4, <1>a DEF StreamInv, TypeOK
    <3>2. \A k \in Jobs : Enqueued(k)' /\ ~Terminal(k) =>
                            id'[k] > delivered' \/ k \in pel'
      BY <2>2, <2>4, <3>1, <1>a DEF JobIsSound, Enqueued
    <3>3. QED BY <1>1, <2>2, <3>2
  <2>5. QED BY <1>6, <1>7, <1>9, <2>1, <2>2, <2>3, <2>4 DEF ReadNewJobs
<1>10. ASSUME NEW w \in Workers, LoadJob(w) PROVE Copies' /\ Sound'
  <2>1. PICK j \in Jobs : /\ cur' = [cur EXCEPT ![w] = j]
                          /\ orm' = [orm EXCEPT ![w] = jobs[j]]
                          /\ Goto(w, Branch(jobs[j]))
    BY <1>10, <1>a DEF LoadJob, TypeOK
  <2>2. UNCHANGED <<csv, jobs, id, delivered, pel>>
    BY <1>10 DEF LoadJob, storeVars, streamVars
  <2>3. CopyIsExact(w)'
    BY <2>1, <2>2, <1>a DEF CopyIsExact, Goto, Branch, TypeOK, Exhausted
  <2>4. Copies'
    BY <2>1, <2>2, <2>3, <1>a, OthersExact DEF Goto, TypeOK
  <2>5. QED BY <1>2, <2>2, <2>4
<1>11. ASSUME NEW w \in Workers, NEW new, MovesRow(w, new),
              orm' = [orm EXCEPT ![w] = new], cur' = cur,
              NEW l \in {"drop", "rows", "ack"}, pc' = [pc EXCEPT ![w] = l],
              l = "rows" => new.status = "PROCESSING",
              l \in {"drop", "ack"} => new.status \in {"COMPLETED", "FAILED"}
       PROVE  Copies' /\ Sound'
  <2>1. Sound'
    BY <1>11, MoveIsSound
  <2>2. /\ cur[w] \in Jobs /\ jobs' = [jobs EXCEPT ![cur[w]] = new]
    BY <1>11 DEF MovesRow
  <2>3. CopyIsExact(w)'
    BY <1>11, <2>2, <1>a DEF CopyIsExact, TypeOK
  <2>4. Copies'
    BY <1>11, <2>2, <2>3, <1>a, OthersExact DEF TypeOK
  <2>5. QED BY <2>1, <2>4
<1>12. ASSUME NEW w \in Workers,
              \/ FailExhausted(w) \/ BeginRun(w) \/ FailMissingColumns(w)
              \/ CompleteRun(w) \/ CommitBatch(w)
       PROVE  Copies' /\ Sound'
  <2>1. orm[w] \in JobRow
    BY <1>a DEF TypeOK
  <2> HIDE DEF Copies, Sound
  <2>2. CASE FailExhausted(w) \/ FailMissingColumns(w)
    <3> DEFINE new == Failed(orm[w])
    <3>1. new.status = "FAILED" /\ MovesRow(w, new)
      BY <2>1, <2>2, FailMoves DEF Failed, JobRow
    <3>2. \E l \in {"drop", "ack"} : pc' = [pc EXCEPT ![w] = l]
      BY <2>2 DEF FailExhausted, FailMissingColumns, Goto
    <3>3. orm' = [orm EXCEPT ![w] = new] /\ cur' = cur
      BY <2>2 DEF FailExhausted, FailMissingColumns, CommitJob
    <3> HIDE DEF new
    <3>4. QED BY <1>11, <3>1, <3>2, <3>3
  <2>3. CASE BeginRun(w)
    <3> DEFINE new == [orm[w] EXCEPT !.status = "PROCESSING"]
    <3>1. new.status = "PROCESSING" /\ MovesRow(w, new)
      BY <2>1, <2>3, BeginMoves DEF JobRow
    <3>2. /\ pc' = [pc EXCEPT ![w] = "rows"]
          /\ orm' = [orm EXCEPT ![w] = new] /\ cur' = cur
      BY <2>3 DEF BeginRun, CommitJob, Goto
    <3> HIDE DEF new
    <3>3. QED BY <1>11, <3>1, <3>2
  <2>4. CASE CompleteRun(w)
    <3> DEFINE new == [orm[w] EXCEPT !.total_rows = Len(File(w).rows),
                                     !.status = "COMPLETED",
                                     !.completed_at = TRUE]
    <3>1. new.status = "COMPLETED" /\ MovesRow(w, new)
      BY <2>1, <2>4, CompleteMoves DEF JobRow
    <3>2. /\ pc' = [pc EXCEPT ![w] = "ack"]
          /\ orm' = [orm EXCEPT ![w] = new] /\ cur' = cur
      BY <2>4 DEF CompleteRun, CommitJob, Goto
    <3> HIDE DEF new
    <3>3. QED BY <1>11, <3>1, <3>2
  <2>5. CASE CommitBatch(w)
    <3>1. /\ pc[w] = "rows" /\ pc' = pc /\ cur' = cur
          /\ orm' = [orm EXCEPT ![w] = BatchJob(w)]
      BY <2>5 DEF CommitBatch, BatchDue
    <3>2. pc' = [pc EXCEPT ![w] = "rows"]
      BY <3>1, <1>a DEF TypeOK
    <3>3. orm[w].status = "PROCESSING"
      BY <3>1, <1>a DEF Copies, CopyIsExact, Busy
    <3>4. BatchJob(w).status = "PROCESSING"
      BY <2>1, <3>3 DEF BatchJob, JobRow
    <3>5. QED BY <1>11, <2>5, <3>1, <3>2, <3>4, BatchMoves
  <2>6. QED BY <1>12, <2>2, <2>3, <2>4, <2>5
<1>13. ASSUME NEW w \in Workers, RowRaises(w) \/ DbUnreachable(w)
       PROVE  Copies' /\ Sound'
  <2>1. /\ UNCHANGED <<csv, jobs, id, delivered, pel, cur, orm>>
        /\ pc[w] = "rows" /\ Goto(w, "except")
    BY <1>13 DEF RowRaises, DbUnreachable, BatchDue, storeVars, streamVars
  <2>2. CopyIsExact(w)'
    BY <2>1, <1>a DEF CopyIsExact, Goto, TypeOK, Busy
  <2>3. Copies'
    BY <2>1, <2>2, <1>a, OthersExact DEF Goto, TypeOK
  <2>4. QED BY <1>2, <2>1, <2>3
<1>14. ASSUME NEW w \in Workers,
              BatchRejected(w) \/ Crash(w) \/ DbError(w) \/ Restart(w)
       PROVE  Copies' /\ Sound'
  <2>1. /\ UNCHANGED <<csv, jobs, id, delivered, pel>>
        /\ \E l \in {"down", "reclaim"} : Goto(w, l)
        /\ Release(w) \/ UNCHANGED <<cur, orm>>
    BY <1>14 DEF BatchRejected, Crash, DbError, Restart, Abort, storeVars,
                 streamVars
  <2>2. \A v \in Workers \ {w} : cur'[v] = cur[v] /\ orm'[v] = orm[v]
    BY <2>1, <1>a DEF Release, TypeOK
  <2>3. QED BY <1>2, <1>6, <1>7, <2>1, <2>2
<1>15. ASSUME NEW w \in Workers, AckJob(w) PROVE Copies' /\ Sound'
  <2>1. /\ UNCHANGED <<csv, jobs, id, delivered>> /\ pel' = pel \ {cur[w]}
        /\ \E l \in {"load", "read", "reclaim"} : Goto(w, l)
        /\ Release(w) /\ pc[w] \in {"ack", "drop"}
    BY <1>15 DEF AckJob, Continue, storeVars
  <2>2. \A v \in Workers \ {w} : cur'[v] = cur[v] /\ orm'[v] = orm[v]
    BY <2>1, <1>a DEF Release, TypeOK
  <2>3. cur[w] \in Jobs => Terminal(cur[w])
    BY <2>1, <1>a DEF CopyIsExact, Terminal, Busy
  <2>4. \A j \in Jobs : Enqueued(j)' /\ ~Terminal(j) =>
                          id'[j] > delivered' \/ j \in pel'
    BY <2>1, <2>3, <1>a DEF JobIsSound, Enqueued
  <2>5. QED BY <1>1, <1>6, <1>7, <2>1, <2>2, <2>4
<1>16. ASSUME NEW w \in Workers, HandleException(w) PROVE Copies' /\ Sound'
  <2>1. MovesRow(w, Requeued(orm[w]))
    BY <1>16, ExceptionMoves
  <2>2. /\ Goto(w, "reclaim") /\ Release(w)
    BY <1>16 DEF HandleException, Abort
  <2>3. CopyIsExact(w)'
    BY <2>2, <1>a DEF CopyIsExact, Goto, TypeOK, Busy
  <2>4. Copies'
    BY <2>1, <2>2, <2>3, <1>a, OthersExact DEF MovesRow, Goto, Release, TypeOK
  <2>5. QED BY <2>1, <2>4, MoveIsSound
<1>17. ASSUME NEW j \in Jobs, OutlivesClaim(j) PROVE FALSE
  BY <1>17 DEF OutlivesClaim, Fault, SoundDeliveries
<1>18. ASSUME NEW w \in Workers, AckError(w) PROVE FALSE
  BY <1>18 DEF AckError, Fault, SoundDeliveries
<1>19. CASE UNCHANGED vars
  BY <1>2, <1>3, <1>19 DEF vars
<1>20. QED
  BY <1>4, <1>5, <1>8, <1>9, <1>10, <1>12, <1>13, <1>14, <1>15, <1>16, <1>17,
     <1>18, <1>19
  DEF Next, WorkerStep, WorkerFault

\* A worker failure does not lose an import: whatever crashes between taking
\* an entry and acknowledging it, a job that is not finished is still in the
\* stream or pending.
THEOREM NoImportIsLost ==
    ASSUME SoundDeliveries
    PROVE  Spec => []NoJobLost
<1>1. RunInv => NoJobLost BY DEF RunInv, JobIsSound, NoJobLost
<1>2. QED BY <1>1, RunInit, RunNext, PTL DEF Spec

\* A job is only given up for a missing column or after MAX_RETRIES counted
\* attempts.
THEOREM GivenUpForAReason ==
    ASSUME SoundDeliveries
    PROVE  Spec => []FailedIsJustified
<1>1. RunInv => FailedIsJustified
  BY DEF RunInv, JobIsSound, FailedIsJustified, Exhausted
<1>2. QED BY <1>1, RunInit, RunNext, PTL DEF Spec

-----------------------------------------------------------------------------
(* What a client sees *)

\* A step leaves import_jobs alone, or one worker makes one move with one row.
LEMMA StepMovesRow ==
    ASSUME SoundDeliveries, RunInv, [Next]_vars
    PROVE  /\ csv' = csv
           /\ jobs' = jobs \/ \E w \in Workers : \E new \in JobRow : MovesRow(w, new)
<1> DEFINE G == /\ csv' = csv
                /\ \/ jobs' = jobs
                   \/ \E w \in Workers : \E new \in JobRow : MovesRow(w, new)
<1> SUFFICES G
  OBVIOUS
<1>1. ASSUME NEW w \in Workers, NEW new, MovesRow(w, new) PROVE G
  BY <1>1 DEF MovesRow
<1>2. ASSUME UNCHANGED <<csv, jobs>> PROVE G
  BY <1>2
<1> HIDE DEF G
<1>3. ASSUME NEW w \in Workers,
             \/ FailExhausted(w) \/ BeginRun(w) \/ FailMissingColumns(w)
             \/ CompleteRun(w) \/ CommitBatch(w) \/ HandleException(w)
      PROVE  G
  BY <1>1, <1>3, FailMoves, BeginMoves, CompleteMoves, BatchMoves,
     ExceptionMoves
<1>4. ASSUME NEW w \in Workers,
             \/ ReclaimStaleJobs(w) \/ ReadNewJobs(w) \/ LoadJob(w)
             \/ RowRaises(w) \/ BatchRejected(w) \/ AckJob(w) \/ Restart(w)
             \/ WorkerFault(w)
      PROVE  G
  BY <1>2, <1>4 DEF ReclaimStaleJobs, ReadNewJobs, LoadJob, RowRaises,
     BatchRejected, AckJob, Restart, WorkerFault, Crash, DbError,
     DbUnreachable, AckError, storeVars
<1>5. ASSUME NEW j \in Jobs,
             EnqueueImportJob(j) \/ EntryGoesIdle(j) \/ OutlivesClaim(j)
      PROVE  G
  BY <1>2, <1>5 DEF EnqueueImportJob, EntryGoesIdle, OutlivesClaim, storeVars
<1>6. CASE UNCHANGED vars
  BY <1>2, <1>6 DEF vars
<1>7. QED
  BY <1>3, <1>4, <1>5, <1>6 DEF Next, WorkerStep

\* One step never takes a checkpoint back.
LEMMA CheckpointGrows ==
    ASSUME SoundDeliveries, RunInv, [Next]_vars
    PROVE  \A j \in Jobs :
             jobs'[j].last_committed_row >= jobs[j].last_committed_row
<1> DEFINE Grows(j) ==
             jobs'[j].last_committed_row >= jobs[j].last_committed_row
<1>1. TypeOK
  BY DEF RunInv, HoldInv, TypeInv
<1>2. \A j \in Jobs : jobs[j].last_committed_row \in Nat
  BY <1>1, ConstantsAssumption DEF TypeOK, JobRow
<1>3. CASE jobs' = jobs
  BY <1>2, <1>3
<1>4. ASSUME NEW w \in Workers, NEW new \in JobRow, MovesRow(w, new)
      PROVE  \A j \in Jobs : Grows(j)
  <2> PICK J \in Jobs : J = cur[w]
    BY <1>4 DEF MovesRow
  <2>1. new.last_committed_row >= jobs[J].last_committed_row
    <3>1. jobs[J] \in JobRow /\ jobs[J].last_committed_row \in Nat
      BY <1>1, <1>2 DEF TypeOK
    <3>2. CASE Advances(csv[J], jobs[J], new)
      <4>1. PICK more \in 1 .. Len(csv[J].rows) - jobs[J].last_committed_row :
              new.last_committed_row = jobs[J].last_committed_row + more
        BY <3>1, <3>2 DEF Advances, JobRow
      <4>2. more \in Int /\ more >= 1
        OBVIOUS
      <4>3. QED BY <3>1, <4>1, <4>2
    <3>3. CASE new.last_committed_row = jobs[J].last_committed_row
      BY <3>1, <3>3
    <3>4. QED
      BY <1>4, <3>1, <3>2, <3>3
      DEF MovesRow, RowMoves, Begins, Completes, Requeues, Requeued, GivesUp,
          Failed, JobRow
  <2>2. QED BY <1>1, <1>2, <1>4, <2>1 DEF MovesRow, TypeOK
<1>5. QED BY <1>3, <1>4, StepMovesRow

\* The checkpoint a crashed import resumes from never goes back, whoever
\* resumes it and however often.
THEOREM CheckpointNeverMovesBack ==
    ASSUME SoundDeliveries
    PROVE  Spec => CheckpointMonotone
<1>1. RunInv /\ [Next]_vars => \A j \in Jobs :
        jobs'[j].last_committed_row >= jobs[j].last_committed_row
  BY CheckpointGrows
<1>2. QED BY <1>1, RunInit, RunNext, PTL DEF Spec, CheckpointMonotone

\* Once a client has read COMPLETED, nothing about the job changes any more,
\* although its entry may be delivered again.
THEOREM CompletedForGood ==
    ASSUME SoundDeliveries
    PROVE  Spec => CompletedIsFinal
<1>1. ASSUME RunInv, [Next]_vars
      PROVE  \A j \in Jobs : jobs[j].status = "COMPLETED" => jobs'[j] = jobs[j]
  <2>1. ASSUME NEW w \in Workers, NEW new \in JobRow, MovesRow(w, new)
        PROVE  /\ jobs[cur[w]].status # "COMPLETED"
               /\ \A j \in Jobs : j # cur[w] => jobs'[j] = jobs[j]
    BY <1>1, <2>1 DEF MovesRow, RowMoves, Begins, Advances, Completes, Requeues,
                      GivesUp, RunInv, HoldInv, TypeInv, TypeOK
  <2>2. QED BY <1>1, <2>1, StepMovesRow
<1>2. QED BY <1>1, RunInit, RunNext, PTL DEF Spec, CompletedIsFinal

\* An answer of GET /imports/{id}, and what the row of a job shows.
Answer(status, total, processed, successful, failed) ==
    [status |-> status, total |-> total, processed |-> processed,
     successful |-> successful, failed |-> failed]

Shown(job) == Answer(job.status, job.total_rows, job.last_committed_row,
                     job.successful_rows, job.failed_rows)

\* A move of a row is a step of the contract for its job, or shows nothing
\* new: a job that is given up for good although it was FAILED before.
LEMMA MoveIsContractStep ==
    ASSUME RunInv, NEW w \in Workers, NEW new \in JobRow, MovesRow(w, new)
    PROVE  [Contract!Next]_(Contract!contractVars)
<1> PICK J \in Jobs : J = cur[w]
  BY DEF MovesRow
<1> DEFINE old == jobs[J]
           answer == [j \in Jobs |-> GetImportStatus(j)]
           tries == [j \in Jobs |-> jobs[j].retry_count]
           size == [j \in Jobs |-> Len(csv[j].rows)]
           malformed == [j \in Jobs |-> ~csv[j].header]
<1>1. /\ TypeOK /\ old \in JobRow /\ JobIsSound(J)
      /\ RowMoves(csv[J], old, new) /\ jobs' = [jobs EXCEPT ![J] = new]
      /\ csv' = csv
  BY DEF RunInv, HoldInv, TypeInv, TypeOK, MovesRow
<1>2. /\ answer' = [answer EXCEPT ![J] = Shown(new)]
      /\ answer[J] = Shown(old) /\ answer = [answer EXCEPT ![J] = @]
  BY <1>1 DEF GetImportStatus, Shown, Answer, TypeOK
<1>3. /\ tries' = [tries EXCEPT ![J] = new.retry_count]
      /\ tries[J] = old.retry_count /\ tries = [tries EXCEPT ![J] = @]
  BY <1>1 DEF TypeOK
<1>4. /\ size' = size /\ malformed' = malformed
      /\ size[J] = Len(csv[J].rows) /\ (malformed[J] <=> ~csv[J].header)
  BY <1>1
<1>5. /\ old.retry_count \in Nat /\ MaxRetries \in Nat
      /\ old.retry_count <= MaxRetries
      /\ old.status = "PROCESSING" => old.retry_count < MaxRetries
      /\ old.status = "FAILED" =>
           ~csv[J].header \/ old.retry_count = MaxRetries
      /\ old.status \in Status
  BY <1>1, ConstantsAssumption DEF JobIsSound, Exhausted, JobRow
<1>6. /\ Shown(old).status = old.status
      /\ Shown(old).processed = old.last_committed_row
      /\ Shown(old).successful = old.successful_rows
      /\ Shown(old).failed = old.failed_rows
  BY DEF Shown, Answer
<1>7. SUFFICES \/ Contract!Begin(J) \/ Contract!Advance(J)
               \/ Contract!Complete(J) \/ Contract!Retry(J)
               \/ Contract!Fail(J)
               \/ (answer' = answer /\ tries' = tries)
  BY <1>4 DEF Contract!Next, Contract!contractVars
<1> HIDE DEF answer, tries, size, malformed
<1>8. CASE Begins(old, new)
  <2>1. /\ Shown(new) = [Shown(old) EXCEPT !.status = "PROCESSING"]
        /\ new.retry_count = old.retry_count
    BY <1>1, <1>8 DEF Begins, Shown, Answer, JobRow
  <2>2. /\ \/ answer[J].status \in {"QUEUED", "PROCESSING"}
           \/ answer[J].status = "FAILED" /\ malformed[J]
        /\ tries[J] < MaxRetries
    BY <1>2, <1>3, <1>4, <1>5, <1>6, <1>8 DEF Begins, Exhausted, Status
  <2>3. /\ answer' = [answer EXCEPT ![J].status = "PROCESSING"]
        /\ tries' = tries
    BY <1>2, <1>3, <2>1
  <2>4. Contract!Begin(J)
    BY <2>2, <2>3 DEF Contract!Begin, Contract!Show, answer, tries, malformed
  <2>5. QED BY <2>4
<1>9. CASE Completes(csv[J], old, new)
  <2>1. /\ new.status = "COMPLETED" /\ new.total_rows = Len(csv[J].rows)
        /\ new.last_committed_row = old.last_committed_row
        /\ new.successful_rows = old.successful_rows
        /\ new.failed_rows = old.failed_rows
        /\ new.retry_count = old.retry_count
    BY <1>1, <1>9 DEF Completes, JobRow
  <2>2. Shown(new) = [Shown(old) EXCEPT !.status = "COMPLETED",
                                        !.total = Len(csv[J].rows)]
    <3> DEFINE a == Shown(old)
               b == Answer("COMPLETED", old.total_rows, old.last_committed_row,
                           old.successful_rows, old.failed_rows)
    <3>1. b = [a EXCEPT !.status = "COMPLETED"]
      BY DEF Shown, Answer
    <3>2. Shown(new) = [b EXCEPT !.total = Len(csv[J].rows)]
      BY <2>1 DEF Shown, Answer
    <3> HIDE DEF a, b
    <3>3. Shown(new) = [a EXCEPT !.status = "COMPLETED",
                                 !.total = Len(csv[J].rows)]
      BY <3>1, <3>2
    <3>4. QED BY <3>3 DEF a
  <2>3. /\ answer[J].status = "PROCESSING" /\ ~malformed[J]
        /\ answer[J].processed = size[J]
    BY <1>2, <1>4, <1>6, <1>9 DEF Completes
  <2>4. /\ answer' = [answer EXCEPT ![J].status = "COMPLETED",
                                    ![J].total = size[J]]
        /\ tries' = tries
    BY <1>2, <1>3, <1>4, <2>1, <2>2
  <2>5. Contract!Complete(J)
    BY <2>3, <2>4 DEF Contract!Complete, answer, tries, malformed, size
  <2>6. QED BY <2>5
<1>10. CASE Requeues(old, new)
  <2>1. /\ Shown(new) = [Shown(old) EXCEPT !.status = "QUEUED"]
        /\ new.retry_count = old.retry_count + 1
    BY <1>1, <1>10 DEF Requeues, Requeued, Shown, Answer, JobRow
  <2>2. /\ answer[J].status = "PROCESSING" /\ tries[J] < MaxRetries
    BY <1>2, <1>3, <1>5, <1>6, <1>10 DEF Requeues
  <2>3. /\ answer' = [answer EXCEPT ![J].status = "QUEUED"]
        /\ tries' = [tries EXCEPT ![J] = @ + 1]
    BY <1>2, <1>3, <2>1
  <2>4. Contract!Retry(J)
    BY <2>2, <2>3 DEF Contract!Retry, Contract!Show, answer, tries
  <2>5. QED BY <2>4
<1>11. CASE GivesUp(csv[J], old, new)
  <2>1. /\ Shown(new) = [Shown(old) EXCEPT !.status = "FAILED"]
        /\ new.retry_count = old.retry_count
    BY <1>1, <1>11 DEF GivesUp, Failed, Shown, Answer, JobRow
  <2>2. /\ answer' = [answer EXCEPT ![J].status = "FAILED"]
        /\ tries' = tries
    BY <1>2, <1>3, <2>1
  <2>3. CASE old.status = "FAILED"
    <3>1. Shown(new) = Shown(old)
      BY <2>1, <2>3 DEF Shown, Answer
    <3>2. QED BY <1>2, <2>2, <3>1
  <2>4. CASE old.status # "FAILED"
    <3>1. \/ answer[J].status = "PROCESSING" /\ malformed[J]
          \/ answer[J].status = "QUEUED" /\ tries[J] = MaxRetries
      BY <1>2, <1>3, <1>4, <1>5, <1>6, <1>11, <2>4
      DEF GivesUp, Exhausted, Status
    <3>2. Contract!Fail(J)
      BY <2>2, <3>1 DEF Contract!Fail, Contract!Show, answer, tries, malformed
    <3>3. QED BY <3>2
  <2>5. QED BY <2>3, <2>4
<1>12. CASE Advances(csv[J], old, new)
  <2>1. PICK more \in 1 .. Len(csv[J].rows) - old.last_committed_row :
          \E k \in 0..more :
             new = [old EXCEPT !.last_committed_row = @ + more,
                               !.successful_rows = @ + k,
                               !.failed_rows = @ + (more - k)]
    BY <1>12 DEF Advances
  <2>2. PICK stored \in 0..more :
           new = [old EXCEPT !.last_committed_row = @ + more,
                             !.successful_rows = @ + stored,
                             !.failed_rows = @ + (more - stored)]
    BY <2>1
  <2>3. /\ new.status = old.status /\ new.total_rows = old.total_rows
        /\ new.last_committed_row = old.last_committed_row + more
        /\ new.successful_rows = old.successful_rows + stored
        /\ new.failed_rows = old.failed_rows + (more - stored)
        /\ new.retry_count = old.retry_count
    BY <1>1, <2>2 DEF JobRow
  <2>4. new.failed_rows = old.failed_rows + more - stored
    <3>1. more \in Int /\ stored \in Int /\ old.failed_rows \in Int
      BY <1>1 DEF JobRow
    <3>2. QED BY <2>3, <3>1
  <2>5. Shown(new) = [Shown(old) EXCEPT
          !.processed = old.last_committed_row + more,
          !.successful = old.successful_rows + stored,
          !.failed = old.failed_rows + more - stored]
    <3> DEFINE p == old.last_committed_row + more
               o == old.successful_rows + stored
               f == old.failed_rows + more - stored
               a == Shown(old)
               b == Answer(old.status, old.total_rows, p,
                           old.successful_rows, old.failed_rows)
               c == Answer(old.status, old.total_rows, p, o, old.failed_rows)
    <3>1. Shown(new) = Answer(old.status, old.total_rows, p, o, f)
      BY <2>3, <2>4 DEF Shown
    <3> HIDE DEF p, o, f
    <3>2. b = [a EXCEPT !.processed = p]
      BY DEF Shown, Answer
    <3>3. c = [b EXCEPT !.successful = o]
      BY DEF Answer
    <3>4. Shown(new) = [c EXCEPT !.failed = f]
      BY <3>1 DEF Answer
    <3> HIDE DEF a, b, c
    <3>5. Shown(new) = [a EXCEPT !.processed = p, !.successful = o, !.failed = f]
      BY <3>2, <3>3, <3>4
    <3>6. QED BY <3>5 DEF a, p, o, f
  <2>6. /\ answer[J].status = "PROCESSING" /\ ~malformed[J]
        /\ more \in 1 .. size[J] - answer[J].processed
    BY <1>2, <1>4, <1>6, <1>12 DEF Advances
  <2>7. /\ answer' = [answer EXCEPT ![J].processed = @ + more,
                                    ![J].successful = @ + stored,
                                    ![J].failed = @ + more - stored]
        /\ tries' = tries
    <3>1. answer' = [answer EXCEPT ![J] = [answer[J] EXCEPT
             !.processed = answer[J].processed + more,
             !.successful = answer[J].successful + stored,
             !.failed = answer[J].failed + more - stored]]
      BY <1>2, <1>6, <2>5
    <3>2. answer' = [answer EXCEPT ![J].processed = @ + more,
                                   ![J].successful = @ + stored,
                                   ![J].failed = @ + more - stored]
      BY <3>1
    <3>3. QED BY <1>3, <2>3, <3>2
  <2>8. Contract!Advance(J)
    <3>1. \E m \in 1 .. size[J] - answer[J].processed : \E k \in 0..m :
            answer' = [answer EXCEPT ![J].processed = @ + m,
                                     ![J].successful = @ + k,
                                     ![J].failed = @ + m - k]
      BY <2>6, <2>7, Zenon
    <3>2. QED
      BY <2>6, <2>7, <3>1, Zenon
      DEF Contract!Advance, answer, tries, malformed, size
  <2>9. QED BY <2>8
<1>13. QED BY <1>1, <1>8, <1>9, <1>10, <1>11, <1>12 DEF RowMoves

\* The worker implements the contract of GET /imports/{id}: the answers a
\* client polls are those of an import without workers, batches and crashes.
THEOREM WorkerImplementsContract ==
    ASSUME SoundDeliveries
    PROVE  Spec => ImplementsContract
<1>1. Init => Contract!Init
  BY DEF Init, NewJob, GetImportStatus, Contract!Init, Contract!Queued,
         Contract!Unknown, NULL
<1>2. ASSUME RunInv, [Next]_vars
      PROVE  [Contract!Next]_(Contract!contractVars)
  <2>1. CASE jobs' = jobs
    BY <1>2, <2>1, StepMovesRow DEF Contract!contractVars, GetImportStatus
  <2>2. QED BY <1>2, <2>1, StepMovesRow, MoveIsContractStep
<1>3. QED
  BY <1>1, <1>2, RunInit, RunNext, PTL DEF Spec, ImplementsContract, Contract!Spec


-----------------------------------------------------------------------------
(* Counting *)

\* The tables agree with the checkpoint and the counters.
CountInv ==
    /\ RunInv
    /\ ExactCounters
    /\ NothingBeyondCheckpoint
    /\ ErrorsReportedOnce

LEMMA CountInit == Init => CountInv
<1> SUFFICES ASSUME Init PROVE CountInv
  OBVIOUS
<1>1. RunInv BY RunInit
<1>2. \A j \in Jobs : /\ jobs[j].last_committed_row = 0
                      /\ jobs[j].successful_rows = 0
                      /\ jobs[j].failed_rows = 0
  BY DEF Init, NewJob
<1>3. \A j \in Jobs : \A t \in Tids : txns[t] # j
  BY ConstantsAssumption DEF Init
<1>4. ExactCounters
  <2>1. \A j \in Jobs : {t \in Tids : txns[t] = j} = {}
    BY <1>3
  <2>2. QED BY <1>2, <2>1, FS_EmptySet DEF ExactCounters
<1>5. \A j \in Jobs : \A i \in RowNumber : errs[j][i] = 0 /\ i > 0
  BY ConstantsAssumption DEF Init, RowNumber
<1>6. NothingBeyondCheckpoint
  BY <1>3, <1>5 DEF NothingBeyondCheckpoint
<1>7. ErrorsReportedOnce
  <2>1. \A i \in RowNumber : i > 0 /\ ~(i <= 0)
    BY ConstantsAssumption DEF RowNumber
  <2>2. QED BY <1>2, <1>5, <2>1 DEF ErrorsReportedOnce
<1>8. QED BY <1>1, <1>4, <1>6, <1>7 DEF CountInv

\* Only a batch stores rows, reports errors or moves a counter.
LEMMA OnlyBatchesCount ==
    ASSUME SoundDeliveries, RunInv, [Next]_vars,
           \A w \in Workers : ~CommitBatch(w)
    PROVE  /\ UNCHANGED <<csv, txns, errs>>
           /\ \A j \in Jobs :
                /\ jobs'[j].last_committed_row = jobs[j].last_committed_row
                /\ jobs'[j].successful_rows = jobs[j].successful_rows
                /\ jobs'[j].failed_rows = jobs[j].failed_rows
<1> DEFINE Same(old, new) ==
             /\ new.last_committed_row = old.last_committed_row
             /\ new.successful_rows = old.successful_rows
             /\ new.failed_rows = old.failed_rows
           G == /\ UNCHANGED <<csv, txns, errs>>
                /\ \A j \in Jobs : Same(jobs[j], jobs'[j])
<1> SUFFICES G
  OBVIOUS
<1>1. ASSUME UNCHANGED <<csv, jobs, txns, errs>> PROVE G
  BY <1>1
<1>2. ASSUME NEW w \in Workers, NEW new, MovesRow(w, new), Same(orm[w], new),
             UNCHANGED <<txns, errs>>
      PROVE  G
  <2>1. TypeOK /\ orm[w] = jobs[cur[w]]
    BY <1>2 DEF RunInv, HoldInv, TypeInv, CopyIsExact, MovesRow
  <2>2. QED BY <1>2, <2>1 DEF MovesRow, TypeOK
<1>3. \A w \in Workers : orm[w] \in JobRow
  BY DEF RunInv, HoldInv, TypeInv, TypeOK
<1> HIDE DEF G
<1>4. ASSUME NEW w \in Workers, FailExhausted(w) \/ FailMissingColumns(w)
      PROVE  G
  <2>1. Same(orm[w], Failed(orm[w]))
    BY <1>3 DEF Failed, JobRow
  <2>2. UNCHANGED <<txns, errs>>
    BY <1>4 DEF FailExhausted, FailMissingColumns, CommitJob
  <2>3. QED BY <1>2, <1>4, <2>1, <2>2, FailMoves
<1>5. ASSUME NEW w \in Workers, BeginRun(w) PROVE G
  <2> DEFINE new == [orm[w] EXCEPT !.status = "PROCESSING"]
  <2>1. Same(orm[w], new) /\ MovesRow(w, new)
    BY <1>3, <1>5, BeginMoves DEF JobRow
  <2>2. UNCHANGED <<txns, errs>>
    BY <1>5 DEF BeginRun, CommitJob
  <2> HIDE DEF new
  <2>3. QED BY <1>2, <2>1, <2>2
<1>6. ASSUME NEW w \in Workers, CompleteRun(w) PROVE G
  <2> DEFINE new == [orm[w] EXCEPT !.total_rows = Len(File(w).rows),
                                   !.status = "COMPLETED",
                                   !.completed_at = TRUE]
  <2>1. Same(orm[w], new) /\ MovesRow(w, new)
    BY <1>3, <1>6, CompleteMoves DEF JobRow
  <2>2. UNCHANGED <<txns, errs>>
    BY <1>6 DEF CompleteRun, CommitJob
  <2> HIDE DEF new
  <2>3. QED BY <1>2, <2>1, <2>2
<1>7. ASSUME NEW w \in Workers, HandleException(w) PROVE G
  <2>1. Same(orm[w], Requeued(orm[w])) /\ UNCHANGED <<txns, errs>>
    BY <1>3, <1>7 DEF Requeued, JobRow, HandleException
  <2>2. QED BY <1>2, <1>7, <2>1, ExceptionMoves
<1>8. ASSUME NEW w \in Workers,
             \/ ReclaimStaleJobs(w) \/ ReadNewJobs(w) \/ LoadJob(w)
             \/ RowRaises(w) \/ BatchRejected(w) \/ AckJob(w) \/ Restart(w)
             \/ WorkerFault(w)
      PROVE  G
  BY <1>1, <1>8 DEF ReclaimStaleJobs, ReadNewJobs, LoadJob, RowRaises,
     BatchRejected, AckJob, Restart, WorkerFault, Crash, DbError,
     DbUnreachable, AckError, storeVars
<1>9. ASSUME NEW j \in Jobs,
             EnqueueImportJob(j) \/ EntryGoesIdle(j) \/ OutlivesClaim(j)
      PROVE  G
  BY <1>1, <1>9 DEF EnqueueImportJob, EntryGoesIdle, OutlivesClaim, storeVars
<1>10. CASE UNCHANGED vars
  BY <1>1, <1>10 DEF vars
<1>11. QED
  BY <1>4, <1>5, <1>6, <1>7, <1>8, <1>9, <1>10 DEF Next, WorkerStep

\* What a batch of worker w does to the tables: rows lo + 1 to hi of job j's
\* file are stored, reported and counted.
StoresBatch(w, j, lo, hi) ==
    LET new == jobs'[j]
        stored == Cardinality(Inserted(w))
    IN  /\ csv' = csv /\ \A k \in Jobs : k # j => jobs'[k] = jobs[k]
        /\ jobs[j].last_committed_row = lo /\ new.last_committed_row = hi
        /\ new.successful_rows = jobs[j].successful_rows + stored
        /\ new.failed_rows = jobs[j].failed_rows + (hi - lo - stored)
        /\ txns' = [t \in Tids |-> IF t \in Inserted(w) THEN j ELSE txns[t]]
        /\ \A t \in Inserted(w) :
             /\ t \in Tids /\ txns[t] = None
             /\ \E i \in (lo + 1)..hi :
                  csv[j].rows[i] = [kind |-> "ok", tid |-> t]
        /\ \A i \in RowNumber : errs'[j][i] =
             errs[j][i] + IF i \in BatchErrors(w) THEN 1 ELSE 0
        /\ \A k \in Jobs : k # j => errs'[k] = errs[k]
        /\ BatchErrors(w) \subseteq (lo + 1)..hi
        /\ \A i \in (lo + 1)..hi :
             csv[j].rows[i].kind = "bad" => i \in BatchErrors(w)

\* A batch that is committed sends no row that would have failed.
LEMMA SentIsStored ==
    ASSUME NEW w, CommitBatch(w), NEW i \in BatchValid(w)
    PROVE  File(w).rows[i].kind = "ok"
BY DEF CommitBatch, BatchRaises, BatchFails, Sent, BatchValid, RowsOfKind,
       ValidKind

LEMMA BatchEffect ==
    ASSUME RunInv, NEW w \in Workers, CommitBatch(w), NEW J \in Jobs, J = cur[w]
    PROVE  \E lo, hi \in Nat : /\ StoresBatch(w, J, lo, hi)
                               /\ lo < hi /\ hi <= Len(csv[J].rows)
                               /\ hi \in {lo + BatchSize, Len(csv[J].rows)}
                               /\ BatchRows(w) = (lo + 1)..hi
<1> DEFINE lo == orm[w].last_committed_row
           hi == UpToRow(w)
           new == BatchJob(w)
<1>1. /\ TypeOK /\ RowsLeft(w) /\ jobs[J] = orm[w] /\ File(w) = csv[J]
      /\ csv' = csv /\ orm[w] \in JobRow
  BY DEF CommitBatch, BatchDue, RunInv, HoldInv, TypeInv, TypeOK, CopyIsExact,
         Busy, File
<1>2. jobs'[J] = new /\ \A k \in Jobs : k # J => jobs'[k] = jobs[k]
  BY <1>1, BatchMoves DEF MovesRow, TypeOK
<1>3. txns' = [t \in Tids |-> IF t \in Inserted(w) THEN J ELSE txns[t]]
  BY DEF CommitBatch
<1>4. /\ BatchRows(w) = (lo + 1)..hi
      /\ BatchRows(w) \subseteq 1..Len(csv[J].rows)
      /\ lo \in Nat /\ hi \in Nat /\ lo < hi /\ hi <= Len(csv[J].rows)
  BY <1>1, BatchRange, ConstantsAssumption
<1>5. /\ new.last_committed_row = hi
      /\ new.successful_rows = orm[w].successful_rows + Cardinality(Inserted(w))
      /\ new.failed_rows = orm[w].failed_rows
                             + (hi - lo - Cardinality(Inserted(w)))
  <2> DEFINE more == hi - lo
             stored == Cardinality(Inserted(w))
  <2>1. new = [orm[w] EXCEPT !.last_committed_row = @ + more,
                             !.successful_rows = @ + stored,
                             !.failed_rows = @ + (more - stored)]
    BY <1>1, BatchCounts
  <2>2. lo + more = hi
    BY <1>4
  <2> HIDE DEF more, stored, new
  <2>3. /\ new.last_committed_row = lo + more
        /\ new.successful_rows = orm[w].successful_rows + stored
        /\ new.failed_rows = orm[w].failed_rows + (more - stored)
    BY <1>1, <2>1 DEF JobRow
  <2>4. QED BY <2>2, <2>3 DEF more, stored
<1>6. /\ BatchErrors(w) \subseteq BatchRows(w)
      /\ \A i \in BatchRows(w) :
           csv[J].rows[i].kind = "bad" => i \in BatchErrors(w)
  BY <1>1 DEF BatchErrors, BatchValid, RowsOfKind, ValidKind
<1>7. ASSUME NEW t \in Inserted(w)
      PROVE  /\ t \in Tids /\ txns[t] = None
             /\ \E i \in BatchRows(w) :
                  csv[J].rows[i] = [kind |-> "ok", tid |-> t]
  <2>1. txns[t] = None /\ t \in TidsOf(w, BatchValid(w))
    BY DEF Inserted
  <2>2. PICK i \in BatchValid(w) : t = csv[J].rows[i].tid
    BY <1>1, <2>1 DEF TidsOf
  <2>3. i \in BatchRows(w) /\ csv[J].rows[i].kind = "ok"
    BY <1>1, <2>2, SentIsStored DEF BatchValid, RowsOfKind
  <2>4. csv[J].rows[i] \in Row
    BY <1>1, <1>4, <2>3, FileType
  <2>5. csv[J].rows[i] = [kind |-> "ok", tid |-> t] /\ t \in Tids
    BY <2>2, <2>3, <2>4 DEF Row
  <2>6. QED BY <2>1, <2>3, <2>5
<1>8. /\ \A i \in RowNumber : errs'[J][i] =
            errs[J][i] + IF i \in BatchErrors(w) THEN 1 ELSE 0
      /\ \A k \in Jobs : k # J => errs'[k] = errs[k]
  BY <1>1 DEF CommitBatch, TypeOK
<1> HIDE DEF lo, hi, new
<1>9. jobs[J].last_committed_row = lo
  BY <1>1 DEF lo
<1>10. StoresBatch(w, J, lo, hi)
  BY <1>1, <1>2, <1>3, <1>4, <1>5, <1>6, <1>7, <1>8, <1>9 DEF StoresBatch
<1>11. hi \in {lo + BatchSize, Len(csv[J].rows)}
  BY <1>1 DEF UpToRow, lo, hi
<1>12. QED BY <1>4, <1>10, <1>11

LEMMA CountNext ==
    ASSUME SoundDeliveries
    PROVE  CountInv /\ [Next]_vars => CountInv'
<1> SUFFICES ASSUME CountInv, [Next]_vars PROVE CountInv'
  OBVIOUS
<1>1. RunInv /\ RunInv' /\ TypeOK
  BY RunNext DEF CountInv, RunInv, HoldInv, TypeInv
<1>2. CASE \A w \in Workers : ~CommitBatch(w)
  <2>1. /\ UNCHANGED <<csv, txns, errs>>
        /\ \A j \in Jobs :
             /\ jobs'[j].last_committed_row = jobs[j].last_committed_row
             /\ jobs'[j].successful_rows = jobs[j].successful_rows
             /\ jobs'[j].failed_rows = jobs[j].failed_rows
    BY <1>1, <1>2, OnlyBatchesCount
  <2>2. ExactCounters'
    BY <2>1 DEF CountInv, ExactCounters
  <2>3. NothingBeyondCheckpoint'
    BY <2>1 DEF CountInv, NothingBeyondCheckpoint
  <2>4. ErrorsReportedOnce'
    BY <2>1 DEF CountInv, ErrorsReportedOnce
  <2>5. QED BY <1>1, <2>2, <2>3, <2>4 DEF CountInv
<1>3. ASSUME NEW w \in Workers, CommitBatch(w) PROVE CountInv'
  <2> PICK J \in Jobs : J = cur[w]
    BY <1>1, <1>3 DEF CommitBatch, BatchDue, RunInv, HoldInv, TypeInv, HasJob,
                      Busy
  <2>1. PICK lo \in Nat, hi \in Nat : /\ StoresBatch(w, J, lo, hi)
                                      /\ lo < hi /\ hi <= Len(csv[J].rows)
    BY <1>1, <1>3, BatchEffect
  <2> DEFINE ids(j) == {t \in Tids : txns[t] = j}
  <2>2. ExactCounters'
    <3>0. /\ \A t \in Tids : txns'[t] = IF t \in Inserted(w) THEN J ELSE txns[t]
          /\ \A t \in Inserted(w) : t \in Tids /\ txns[t] = None
          /\ None \notin Jobs
      BY <2>1, ConstantsAssumption DEF StoresBatch
    <3>1. ids(J)' = ids(J) \cup Inserted(w) /\ ids(J) \cap Inserted(w) = {}
      BY <3>0
    <3>2. ASSUME NEW j \in Jobs, j # J PROVE ids(j)' = ids(j)
      BY <3>0, <3>2
    <3>3. IsFiniteSet(ids(J)) /\ IsFiniteSet(Inserted(w))
      <4>1. ids(J) \in SUBSET Tids /\ Inserted(w) \in SUBSET Tids
        BY <2>1 DEF StoresBatch
      <4>2. QED BY <4>1, ConstantsAssumption, FS_Subset
    <3> DEFINE A == ids(J)
               B == Inserted(w)
    <3>4. Cardinality(A \cup B) = Cardinality(A) + Cardinality(B)
          /\ Cardinality(A) \in Nat /\ Cardinality(B) \in Nat
      <4> HIDE DEF A, B
      <4>1. IsFiniteSet(A) /\ IsFiniteSet(B) /\ A \cap B = {}
        BY <3>1, <3>3 DEF A, B
      <4>2. Cardinality(A) \in Nat /\ Cardinality(B) \in Nat
        BY <4>1, FS_CardinalityType
      <4>3. Cardinality(A \cap B) = 0
        BY <4>1, FS_EmptySet
      <4>4. Cardinality(A \cup B)
              = Cardinality(A) + Cardinality(B) - Cardinality(A \cap B)
        BY <4>1, FS_Union
      <4>5. QED BY <4>2, <4>3, <4>4
    <3>5. /\ jobs[J].successful_rows = Cardinality(A)
          /\ jobs[J].successful_rows + jobs[J].failed_rows = lo
          /\ jobs[J].failed_rows \in Nat
      BY <1>1, <2>1 DEF CountInv, ExactCounters, StoresBatch, TypeOK, JobRow
    <3>6. /\ jobs'[J].successful_rows = jobs[J].successful_rows + Cardinality(B)
          /\ jobs'[J].failed_rows = jobs[J].failed_rows
                                      + (hi - lo - Cardinality(B))
          /\ jobs'[J].last_committed_row = hi
      BY <2>1 DEF StoresBatch
    <3>7. /\ jobs'[J].successful_rows = Cardinality(A \cup B)
          /\ jobs'[J].successful_rows + jobs'[J].failed_rows
               = jobs'[J].last_committed_row
      <4> HIDE DEF A, B
      <4>1. QED BY <3>4, <3>5, <3>6
    <3>8. ASSUME NEW j \in Jobs
          PROVE  /\ jobs'[j].successful_rows = Cardinality(ids(j)')
                 /\ jobs'[j].successful_rows + jobs'[j].failed_rows
                      = jobs'[j].last_committed_row
      <4>1. CASE j = J
        BY <3>1, <3>7, <4>1
      <4>2. CASE j # J
        <5>1. jobs'[j] = jobs[j]
          BY <2>1, <4>2 DEF StoresBatch
        <5>2. ids(j)' = ids(j)
          BY <3>2, <4>2
        <5>3. /\ jobs[j].successful_rows = Cardinality(ids(j))
              /\ jobs[j].successful_rows + jobs[j].failed_rows
                   = jobs[j].last_committed_row
          BY DEF CountInv, ExactCounters
        <5> HIDE DEF ids
        <5>4. QED BY <5>1, <5>2, <5>3
      <4>3. QED BY <4>1, <4>2
    <3>9. QED BY <3>8 DEF ExactCounters
  <2>3. NothingBeyondCheckpoint'
    <3>1. DOMAIN csv[J].rows = 1..Len(csv[J].rows) /\ Len(csv[J].rows) \in Nat
      BY <1>1, ConstantsAssumption DEF TypeOK, CsvFile
    <3>2. ASSUME NEW t \in Tids, txns'[t] = J
          PROVE  \E i \in 1..hi \cap DOMAIN csv[J].rows :
                     csv[J].rows[i] = [kind |-> "ok", tid |-> t]
      <4>1. CASE t \in Inserted(w)
        <5>1. PICK i \in (lo + 1)..hi :
                csv[J].rows[i] = [kind |-> "ok", tid |-> t]
          BY <2>1, <4>1 DEF StoresBatch
        <5>2. i \in 1..hi \cap DOMAIN csv[J].rows
          BY <2>1, <3>1
        <5>3. QED BY <5>1, <5>2
      <4>2. CASE t \notin Inserted(w)
        <5>1. txns[t] = J /\ jobs[J].last_committed_row = lo
          BY <2>1, <3>2, <4>2 DEF StoresBatch
        <5>2. PICK i \in 1..lo \cap DOMAIN csv[J].rows :
                csv[J].rows[i] = [kind |-> "ok", tid |-> t]
          BY <5>1 DEF CountInv, NothingBeyondCheckpoint
        <5>3. i \in 1..hi
          BY <2>1
        <5>4. QED BY <5>2, <5>3
      <4>3. QED BY <4>1, <4>2
    <3>3. ASSUME NEW i \in RowNumber, i \notin 1..hi PROVE errs'[J][i] = 0
      <4>1. i \notin 1..lo /\ i \notin (lo + 1)..hi
        BY <2>1, <3>3, ConstantsAssumption DEF RowNumber
      <4>2. errs[J][i] = 0
        BY <2>1, <4>1 DEF CountInv, NothingBeyondCheckpoint, StoresBatch
      <4>3. QED BY <2>1, <4>1, <4>2 DEF StoresBatch
    <3>4. \A j \in Jobs : j # J =>
            /\ \A t \in Tids : txns'[t] = j => txns[t] = j
            /\ jobs'[j] = jobs[j] /\ errs'[j] = errs[j]
      BY <2>1, ConstantsAssumption DEF StoresBatch
    <3>5. jobs'[J].last_committed_row = hi /\ csv' = csv
      BY <2>1 DEF StoresBatch
    <3>6. ASSUME NEW j \in Jobs
          PROVE  LET done == 1..jobs'[j].last_committed_row
                 IN  /\ \A t \in Tids : txns'[t] = j =>
                          \E i \in done \cap DOMAIN csv[j].rows :
                              csv[j].rows[i] = [kind |-> "ok", tid |-> t]
                     /\ \A i \in RowNumber \ done : errs'[j][i] = 0
      <4>1. CASE j = J
        BY <3>2, <3>3, <3>5, <4>1
      <4>2. CASE j # J
        BY <3>4, <4>2 DEF CountInv, NothingBeyondCheckpoint
      <4>3. QED BY <4>1, <4>2
    <3>7. QED BY <3>5, <3>6 DEF NothingBeyondCheckpoint
  <2>4. ErrorsReportedOnce'
    <3>1. ASSUME NEW i \in RowNumber
          PROVE  /\ errs'[J][i] <= 1
                 /\ i \in DOMAIN csv[J].rows /\ i <= hi
                      /\ csv[J].rows[i].kind = "bad" => errs'[J][i] = 1
      <4>1. /\ i \in Nat /\ i > 0 /\ errs[J][i] \in Nat
            /\ jobs[J].last_committed_row = lo
        BY <1>1, <2>1, ConstantsAssumption DEF RowNumber, TypeOK, StoresBatch
      <4>2. CASE i <= lo
        <5>1. i \notin (lo + 1)..hi
          BY <4>2, <4>1
        <5>2. errs'[J][i] = errs[J][i]
          BY <2>1, <4>1, <5>1 DEF StoresBatch
        <5>3. QED BY <4>1, <4>2, <5>2 DEF CountInv, ErrorsReportedOnce
      <4>3. CASE ~(i <= lo)
        <5>1. errs[J][i] = 0
          BY <4>1, <4>3 DEF CountInv, NothingBeyondCheckpoint
        <5>2. errs'[J][i] = IF i \in BatchErrors(w) THEN 1 ELSE 0
          BY <2>1, <5>1 DEF StoresBatch
        <5>3. i <= hi => i \in (lo + 1)..hi
          BY <4>1, <4>3
        <5>4. QED BY <2>1, <5>2, <5>3 DEF StoresBatch
      <4>4. QED BY <4>2, <4>3
    <3>2. /\ jobs'[J].last_committed_row = hi /\ csv' = csv
          /\ \A j \in Jobs : j # J => jobs'[j] = jobs[j] /\ errs'[j] = errs[j]
      BY <2>1 DEF StoresBatch
    <3>3. ASSUME NEW j \in Jobs, NEW i \in RowNumber
          PROVE  /\ errs'[j][i] <= 1
                 /\ i \in DOMAIN csv[j].rows /\ i <= jobs'[j].last_committed_row
                      /\ csv[j].rows[i].kind = "bad" => errs'[j][i] = 1
      BY <3>1, <3>2 DEF CountInv, ErrorsReportedOnce
    <3>4. QED BY <3>2, <3>3 DEF ErrorsReportedOnce
  <2>5. QED BY <1>1, <2>2, <2>3, <2>4 DEF CountInv
<1>4. QED BY <1>2, <1>3

\* The progress a client reads adds up at every moment, after every crash and
\* resume: successful_rows is the number of transactions that bear the job's
\* id, and every row up to the checkpoint was counted once.
THEOREM CountersAreExact ==
    ASSUME SoundDeliveries
    PROVE  Spec => []ExactCounters
<1>1. CountInv => ExactCounters BY DEF CountInv
<1>2. QED BY <1>1, CountInit, CountNext, PTL DEF Spec

\* A crash leaves nothing half done: no row beyond the checkpoint has left a
\* transaction or an error behind.
THEOREM BatchesAreAtomic ==
    ASSUME SoundDeliveries
    PROVE  Spec => []NothingBeyondCheckpoint
<1>1. CountInv => NothingBeyondCheckpoint BY DEF CountInv
<1>2. QED BY <1>1, CountInit, CountNext, PTL DEF Spec

\* The error report has every invalid row of the committed part once, however
\* often the import was resumed.
THEOREM ErrorReportIsExact ==
    ASSUME SoundDeliveries
    PROVE  Spec => []ErrorsReportedOnce
<1>1. CountInv => ErrorsReportedOnce BY DEF CountInv
<1>2. QED BY <1>1, CountInit, CountNext, PTL DEF Spec

-----------------------------------------------------------------------------
(* Repeated transaction ids *)

\* validate_row accepts row i of j's file.
Validates(j, i) == csv[j].rows[i].kind \in ValidKind
SameTid(j, i, k) == csv[j].rows[i].tid = csv[j].rows[k].tid

\* Row i repeats the transaction_id of an earlier row k.
Repeats(j, i, k) ==
    /\ i \in DOMAIN csv[j].rows /\ k \in DOMAIN csv[j].rows /\ k < i
    /\ Validates(j, k) /\ Validates(j, i) /\ SameTid(j, i, k)

SameBatch(i, k) == (i - 1) \div BatchSize = (k - 1) \div BatchSize

\* Row i will be rejected in every attempt: it cannot be stored at all, or not
\* as a transaction and no earlier row makes it a repetition.
Doomed(j, i) ==
    \/ csv[j].rows[i].kind = "dberr"
    \/ /\ csv[j].rows[i].kind = "unfit"
       /\ \A k \in DOMAIN csv[j].rows : ~Repeats(j, i, k)

\* Nothing has interrupted the import of j so far, and no row that Postgres
\* rejects will.
Uninterrupted(j) ==
    /\ faults = 0 /\ jobs[j].retry_count = 0
    /\ \A i \in DOMAIN csv[j].rows :
          i > jobs[j].last_committed_row => ~Doomed(j, i)

AtWork(j) == \E w \in Workers : cur[w] = j /\ pc[w] \in {"rows", "except"}

\* A checkpoint is a whole number of batches or the end of the file; what the
\* checkpoint covers is reported as it should be; and an uninterrupted import
\* that has begun to store rows is still in the hands of its first worker.
RepeatsSound(j) ==
    LET lcr == jobs[j].last_committed_row
    IN  /\ jobs[j].status = "COMPLETED" => lcr = Len(csv[j].rows)
        /\ ~csv[j].header => lcr = 0
        /\ lcr = Len(csv[j].rows) \/ \E q \in Nat : lcr = q * BatchSize
        /\ \A i, k \in RowNumber :
             /\ Repeats(j, i, k) /\ i <= lcr
             /\ SameBatch(i, k) \/ Uninterrupted(j)
             => errs[j][i] = 1
        /\ Uninterrupted(j) /\ jobs[j].status # "COMPLETED" /\ lcr > 0
             => AtWork(j)

\* seen_in_file holds every valid id of the committed part.
SeenInv(w) ==
    pc[w] = "rows" /\ Uninterrupted(cur[w]) =>
        \A i \in DOMAIN csv[cur[w]].rows :
            /\ i <= jobs[cur[w]].last_committed_row
            /\ Validates(cur[w], i)
            => csv[cur[w]].rows[i].tid \in seen[w]

\* It holds no other id, whatever has happened.
SeenBound(w) ==
    \A t \in seen[w] :
        /\ pc[w] \in Busy
        /\ \E i \in DOMAIN csv[cur[w]].rows :
             /\ i <= jobs[cur[w]].last_committed_row
             /\ Validates(cur[w], i) /\ csv[cur[w]].rows[i].tid = t

RepeatInv ==
    /\ CountInv
    /\ \A j \in Jobs : RepeatsSound(j)
    /\ \A w \in Workers : SeenInv(w) /\ SeenBound(w)

LEMMA RepeatInit == Init => RepeatInv
<1> SUFFICES ASSUME Init PROVE RepeatInv
  OBVIOUS
<1>1. CountInv BY CountInit
<1>2. \A w \in Workers : SeenInv(w) /\ SeenBound(w)
  BY DEF Init, SeenInv, SeenBound
<1>3. ASSUME NEW j \in Jobs PROVE RepeatsSound(j)
  <2>1. jobs[j].last_committed_row = 0 /\ jobs[j].status = "QUEUED"
    BY DEF Init, NewJob
  <2>2. 0 = 0 * BatchSize /\ ~(0 > 0)
    BY ConstantsAssumption
  <2>3. \A i \in RowNumber : ~(i <= 0)
    BY ConstantsAssumption DEF RowNumber
  <2>4. QED BY <2>1, <2>2, <2>3 DEF RepeatsSound
<1>4. QED BY <1>1, <1>2, <1>3 DEF RepeatInv

\* A quotient and a multiple.
LEMMA SameQuotient ==
    ASSUME NEW B \in Nat \ {0}, NEW q \in Nat, NEW x \in Nat, NEW y \in Nat,
           x >= q * B, x \div B = y \div B
    PROVE  y >= q * B
OBVIOUS

\* Two rows of one batch are both before or both after a batch boundary.
LEMMA BatchBoundary ==
    ASSUME NEW q \in Nat, NEW i \in Nat \ {0}, NEW k \in Nat \ {0},
           SameBatch(i, k), i > q * BatchSize
    PROVE  k > q * BatchSize
<1> DEFINE x == i - 1
           y == k - 1
           B == BatchSize
<1>1. B \in Nat \ {0}
  BY ConstantsAssumption
<1>2. x \in Nat /\ y \in Nat /\ q * B \in Nat
  BY <1>1
<1>3. x >= q * B /\ x \div B = y \div B
  BY <1>1, <1>2 DEF SameBatch
<1>4. y >= q * B
  <2> HIDE DEF x, y, B
  <2>1. QED BY <1>1, <1>2, <1>3, SameQuotient
<1>5. QED BY <1>2, <1>4

\* Faults and retries are never undone.
LEMMA InterruptionsStay ==
    ASSUME SoundDeliveries, RunInv, [Next]_vars
    PROVE  /\ faults' = 0 => faults = 0
           /\ \A j \in Jobs : jobs'[j].retry_count = 0 => jobs[j].retry_count = 0
<1>1. TypeOK BY DEF RunInv, HoldInv, TypeInv
<1>2. faults \in Nat
  BY <1>1, ConstantsAssumption DEF TypeOK
<1>3. faults' = faults \/ faults' = faults + 1
  <2>1. ASSUME NEW w \in Workers, WorkerStep(w) PROVE faults' = faults
    BY <2>1 DEF WorkerStep, ReclaimStaleJobs, ReadNewJobs, LoadJob,
       FailExhausted, BeginRun, FailMissingColumns, RowRaises, CommitBatch,
       BatchRejected, CompleteRun, AckJob, HandleException
  <2>2. ASSUME NEW w \in Workers, WorkerFault(w) PROVE faults' = faults + 1
    BY <2>2 DEF WorkerFault, Crash, DbError, DbUnreachable, AckError, Fault
  <2>3. ASSUME NEW j \in Jobs,
               EnqueueImportJob(j) \/ EntryGoesIdle(j) \/ OutlivesClaim(j)
        PROVE  faults' = faults \/ faults' = faults + 1
    BY <2>3 DEF EnqueueImportJob, EntryGoesIdle, OutlivesClaim, Fault
  <2>4. ASSUME NEW w \in Workers, Restart(w) PROVE faults' = faults
    BY <2>4 DEF Restart
  <2>5. QED BY <2>1, <2>2, <2>3, <2>4 DEF Next, vars
<1>4. ASSUME NEW w \in Workers, NEW new \in JobRow, MovesRow(w, new)
      PROVE  \A j \in Jobs : jobs'[j].retry_count = 0 => jobs[j].retry_count = 0
  <2> PICK J \in Jobs : J = cur[w]
    BY <1>4 DEF MovesRow
  <2> DEFINE old == jobs[J]
  <2>1. old \in JobRow /\ old.retry_count \in Nat
    BY <1>1 DEF TypeOK, JobRow
  <2>2. new.retry_count = old.retry_count \/ new.retry_count = old.retry_count + 1
    BY <1>4, <2>1 DEF MovesRow, RowMoves, Begins, Advances, Completes, Requeues,
                      Requeued, GivesUp, Failed, JobRow
  <2>3. QED BY <1>1, <1>4, <2>1, <2>2 DEF MovesRow, TypeOK
<1>5. QED BY <1>2, <1>3, <1>4, StepMovesRow

\* A job somebody else does not work on: only one worker has it.
LEMMA NobodyElseAtWork ==
    ASSUME RunInv, NEW w \in Workers, cur[w] \in Jobs,
           pc[w] \notin {"rows", "except"}
    PROVE  ~AtWork(cur[w])
BY DEF RunInv, HoldInv, ClaimsInv, OneWorkerPerJob, Holds, AtWork

\* While nothing interrupts it, the worker that has begun to store the rows of
\* a file goes on until the job is completed, with seen_in_file intact.
WorkGoesOn ==
    /\ \A j \in Jobs :
         /\ AtWork(j) /\ Uninterrupted(j)' /\ jobs'[j].status # "COMPLETED"
         /\ jobs[j].last_committed_row > 0
         => AtWork(j)'
    /\ \A w \in Workers : SeenInv(w)'

LEMMA WorkGoesOnWithoutBatch ==
    ASSUME SoundDeliveries, RepeatInv, [Next]_vars,
           \A w \in Workers : ~CommitBatch(w)
    PROVE  WorkGoesOn
<1>1. /\ RunInv /\ TypeOK /\ HasJob
  BY DEF RepeatInv, CountInv, RunInv, HoldInv, TypeInv
<1>2. /\ csv' = csv
      /\ \A j \in Jobs :
           /\ jobs'[j].last_committed_row = jobs[j].last_committed_row
           /\ Uninterrupted(j)' => Uninterrupted(j)
  BY <1>1, OnlyBatchesCount, InterruptionsStay
  DEF Uninterrupted, Doomed, Repeats, Validates, SameTid
<1>3. ASSUME NEW w \in Workers,
             \A v \in Workers \ {w} :
                 pc'[v] = pc[v] /\ cur'[v] = cur[v] /\ seen'[v] = seen[v],
             SeenInv(w)',
             pc[w] \in {"rows", "except"} =>
                 \/ pc'[w] \in {"rows", "except"} /\ cur'[w] = cur[w]
                 \/ \A j \in Jobs : j = cur[w] =>
                      \/ ~Uninterrupted(j)' \/ jobs'[j].status = "COMPLETED"
                      \/ ~(jobs[j].last_committed_row > 0)
      PROVE  WorkGoesOn
  <2>1. ASSUME NEW j \in Jobs, AtWork(j), Uninterrupted(j)',
               jobs'[j].status # "COMPLETED", jobs[j].last_committed_row > 0
        PROVE  AtWork(j)'
    <3>1. PICK v \in Workers : cur[v] = j /\ pc[v] \in {"rows", "except"}
      BY <2>1 DEF AtWork
    <3>2. CASE v = w
      BY <1>3, <2>1, <3>1, <3>2 DEF AtWork
    <3>3. CASE v # w
      BY <1>3, <3>1, <3>3 DEF AtWork
    <3>4. QED BY <3>2, <3>3
  <2>2. ASSUME NEW v \in Workers \ {w}, pc[v] = "rows", Uninterrupted(cur[v])'
        PROVE  SeenInv(v)'
    <3>1. cur[v] \in Jobs /\ cur'[v] = cur[v] /\ seen'[v] = seen[v]
          /\ SeenInv(v)
      BY <1>1, <1>3, <2>2 DEF HasJob, Busy, RepeatInv
    <3>2. PICK J \in Jobs : J = cur[v] /\ J = cur'[v]
      BY <3>1
    <3>3. Uninterrupted(J)'
      BY <2>2, <3>2
      DEF Uninterrupted, Doomed, Repeats, Validates, SameTid
    <3>4. Uninterrupted(J) /\ csv' = csv
          /\ jobs'[J].last_committed_row = jobs[J].last_committed_row
      BY <1>2, <3>3
    <3>5. QED BY <2>2, <3>1, <3>2, <3>4 DEF SeenInv, Validates
  <2>3. ASSUME NEW v \in Workers PROVE SeenInv(v)'
    <3>1. CASE v = w
      BY <1>3, <3>1
    <3>2. CASE v # w /\ pc'[v] = "rows" /\ Uninterrupted(cur[v])'
      BY <1>3, <2>2, <3>2
    <3>3. CASE ~(pc'[v] = "rows" /\ Uninterrupted(cur[v])')
      BY <3>3 DEF SeenInv
    <3>4. QED BY <3>1, <3>2, <3>3
  <2>4. QED BY <2>1, <2>3 DEF WorkGoesOn
<1>4. ASSUME faults' # 0 PROVE WorkGoesOn
  BY <1>4 DEF WorkGoesOn, SeenInv, Uninterrupted
<1>5. ASSUME UNCHANGED <<pc, cur, seen>> PROVE WorkGoesOn
  <2>1. \A j \in Jobs : AtWork(j) => AtWork(j)'
    BY <1>5 DEF AtWork
  <2>2. ASSUME NEW w \in Workers, pc[w] = "rows", Uninterrupted(cur[w])'
        PROVE  SeenInv(w)'
    <3>1. PICK J \in Jobs : J = cur[w] /\ J = cur'[w]
      BY <1>1, <1>5, <2>2 DEF HasJob, Busy
    <3>2. Uninterrupted(J)'
      BY <2>2, <3>1
      DEF Uninterrupted, Doomed, Repeats, Validates, SameTid
    <3>3. Uninterrupted(J) /\ csv' = csv /\ SeenInv(w)
          /\ jobs'[J].last_committed_row = jobs[J].last_committed_row
      BY <1>2, <3>2 DEF RepeatInv
    <3>4. QED BY <1>5, <2>2, <3>1, <3>3 DEF SeenInv, Validates
  <2>3. \A w \in Workers : SeenInv(w)'
    BY <1>5, <2>2 DEF SeenInv
  <2>4. QED BY <2>1, <2>3 DEF WorkGoesOn
<1>6. ASSUME NEW w \in Workers, NEW l, Goto(w, l), l # "rows",
             UNCHANGED <<cur, seen>> \/ Release(w)
                \/ \E j : cur' = [cur EXCEPT ![w] = j] /\ seen' = seen
      PROVE  /\ \A v \in Workers \ {w} :
                  pc'[v] = pc[v] /\ cur'[v] = cur[v] /\ seen'[v] = seen[v]
             /\ SeenInv(w)' /\ pc'[w] = l
  BY <1>6, <1>1 DEF Goto, Release, TypeOK, SeenInv
<1>7. ASSUME NEW w \in Workers,
             \/ ReclaimStaleJobs(w) \/ ReadNewJobs(w) \/ LoadJob(w)
             \/ AckJob(w) \/ Restart(w) \/ FailExhausted(w)
      PROVE  WorkGoesOn
  <2>1. pc[w] \notin {"rows", "except"}
    BY <1>7 DEF ReclaimStaleJobs, ReadNewJobs, LoadJob, AckJob, Restart,
                FailExhausted
  <2>2. \E l : Goto(w, l) /\ l # "rows"
    BY <1>7 DEF ReclaimStaleJobs, ReadNewJobs, LoadJob, Branch, AckJob,
                Continue, Restart, FailExhausted
  <2>3. UNCHANGED <<cur, seen>> \/ Release(w)
          \/ \E j : cur' = [cur EXCEPT ![w] = j] /\ seen' = seen
    BY <1>7 DEF ReclaimStaleJobs, ReadNewJobs, LoadJob, AckJob, Continue,
                Restart, FailExhausted
  <2>4. QED BY <1>3, <1>6, <2>1, <2>2, <2>3
<1>8. ASSUME NEW w \in Workers, RowRaises(w) PROVE WorkGoesOn
  BY <1>3, <1>6, <1>8 DEF RowRaises
<1>9. ASSUME NEW w \in Workers, BatchRejected(w) PROVE WorkGoesOn
  <2>1. Goto(w, "reclaim") /\ Release(w)
    BY <1>9 DEF BatchRejected, Abort
  <2>2. ASSUME NEW j \in Jobs, j = cur[w] PROVE ~Uninterrupted(j)'
    <3>1. /\ RowsLeft(w) /\ orm[w] = jobs[j] /\ File(w) = csv[j]
      BY <1>1, <1>9, <2>2
      DEF BatchRejected, BatchDue, RunInv, CopyIsExact, Busy, File
    <3>2. PICK i \in BatchRows(w) :
            \/ csv[j].rows[i].kind = "dberr"
            \/ csv[j].rows[i].kind = "unfit" /\ i \in BatchValid(w)
      BY <1>9, <3>1 DEF BatchRejected, BatchFails, Sent, BatchValid, RowsOfKind
    <3>3. /\ i \in 1..Len(csv[j].rows) /\ i > jobs[j].last_committed_row
          /\ \A k \in Nat : k < i /\ k > jobs[j].last_committed_row
               => k \in BatchRows(w)
      BY <1>1, <2>2, <3>1, <3>2, BatchRange, ConstantsAssumption
    <3>4. DOMAIN csv[j].rows = 1..Len(csv[j].rows)
          /\ jobs[j].last_committed_row \in Nat
      BY <1>1, ConstantsAssumption DEF TypeOK, CsvFile, JobRow
    <3>5. CASE csv[j].rows[i].kind = "dberr"
      BY <1>2, <3>3, <3>4, <3>5 DEF Uninterrupted, Doomed
    <3>6. CASE csv[j].rows[i].kind = "unfit" /\ i \in BatchValid(w)
      <4> SUFFICES ASSUME Uninterrupted(j), NEW k \in DOMAIN csv[j].rows,
                          Repeats(j, i, k)
                   PROVE  FALSE
        BY <1>2, <3>3, <3>4, <3>6 DEF Uninterrupted, Doomed
      <4>1. k < i /\ k \in Nat /\ Validates(j, k) /\ SameTid(j, i, k)
        BY <3>4 DEF Repeats
      <4>2. CASE k <= jobs[j].last_committed_row
        <5>1. pc[w] = "rows" /\ SeenInv(w)
          BY <1>9 DEF BatchRejected, BatchDue, RepeatInv
        <5>2. csv[j].rows[k].tid \in seen[w]
          BY <2>2, <4>1, <4>2, <5>1 DEF SeenInv
        <5>3. QED BY <3>1, <3>6, <4>1, <5>2 DEF BatchValid, SameTid
      <4>3. CASE ~(k <= jobs[j].last_committed_row)
        <5>1. k \in BatchRows(w)
          BY <3>3, <3>4, <4>1, <4>3
        <5>2. QED
          BY <3>1, <3>6, <4>1, <5>1
          DEF BatchValid, RowsOfKind, SameTid, Validates
      <4>4. QED BY <4>2, <4>3
    <3>7. QED BY <3>2, <3>5, <3>6
  <2>3. QED BY <1>3, <1>6, <2>1, <2>2
<1>10. ASSUME NEW w \in Workers, BeginRun(w) PROVE WorkGoesOn
  <2>1. /\ pc[w] = "begin" /\ cur[w] \in Jobs /\ UNCHANGED <<cur, seen>>
        /\ pc' = [pc EXCEPT ![w] = "rows"]
    BY <1>1, <1>10 DEF BeginRun, Goto, HasJob, Busy
  <2> PICK J \in Jobs : J = cur[w]
    BY <2>1
  <2>2. jobs[J].status # "COMPLETED"
    BY <1>1, <2>1 DEF RunInv, CopyIsExact, Busy
  <2>3. ~AtWork(J)
    BY <1>1, <2>1, NobodyElseAtWork
  <2>4. Uninterrupted(J) => ~(jobs[J].last_committed_row > 0)
    BY <2>2, <2>3 DEF RepeatInv, RepeatsSound
  <2>5. \A i \in DOMAIN csv[J].rows : i > 0 /\ i \in Nat
    BY <1>1, ConstantsAssumption DEF TypeOK, CsvFile
  <2>6. jobs[J].last_committed_row \in Nat
    BY <1>1, ConstantsAssumption DEF TypeOK, JobRow
  <2>7. Uninterrupted(J)' =>
          \A i \in DOMAIN csv[J].rows : ~(i <= jobs'[J].last_committed_row)
    BY <1>2, <2>4, <2>5, <2>6
  <2>8. SeenInv(w)'
    BY <1>2, <2>1, <2>7 DEF SeenInv
  <2>9. QED BY <1>1, <1>3, <2>1, <2>8 DEF TypeOK
<1>11. ASSUME NEW w \in Workers, FailMissingColumns(w) PROVE WorkGoesOn
  <2>1. Goto(w, "ack") /\ UNCHANGED <<cur, seen>>
    BY <1>11 DEF FailMissingColumns
  <2>2. ASSUME NEW j \in Jobs, j = cur[w]
        PROVE  ~(jobs[j].last_committed_row > 0)
    BY <1>11, <2>2 DEF FailMissingColumns, File, RepeatInv, RepeatsSound
  <2>3. QED BY <1>3, <1>6, <2>1, <2>2
<1>12. ASSUME NEW w \in Workers, CompleteRun(w) PROVE WorkGoesOn
  <2>1. Goto(w, "ack") /\ UNCHANGED <<cur, seen>>
    BY <1>12 DEF CompleteRun
  <2>2. ASSUME NEW j \in Jobs, j = cur[w]
        PROVE  jobs'[j].status = "COMPLETED"
    <3> DEFINE new == [orm[w] EXCEPT !.total_rows = Len(File(w).rows),
                                     !.status = "COMPLETED",
                                     !.completed_at = TRUE]
    <3>1. orm[w] \in JobRow
      BY <1>1 DEF TypeOK
    <3>2. new.status = "COMPLETED" /\ MovesRow(w, new)
      BY <1>1, <1>12, <3>1, CompleteMoves DEF JobRow
    <3> HIDE DEF new
    <3>3. QED BY <1>1, <2>2, <3>2 DEF MovesRow, TypeOK
  <2>3. QED BY <1>3, <1>6, <2>1, <2>2
<1>13. ASSUME NEW w \in Workers, HandleException(w) PROVE WorkGoesOn
  <2>1. Goto(w, "reclaim") /\ Release(w)
    BY <1>13 DEF HandleException, Abort
  <2>2. ASSUME NEW j \in Jobs, j = cur[w] PROVE ~Uninterrupted(j)'
    <3>1. orm[w] \in JobRow /\ orm[w].retry_count \in Nat
      BY <1>1 DEF TypeOK, JobRow
    <3>2. Requeued(orm[w]).retry_count = orm[w].retry_count + 1
      BY <3>1 DEF Requeued, JobRow
    <3>3. jobs'[j] = Requeued(orm[w])
      BY <1>1, <1>13, <2>2, ExceptionMoves DEF MovesRow, TypeOK
    <3>4. jobs'[j].retry_count # 0
      BY <3>1, <3>2, <3>3
    <3>5. QED BY <3>4 DEF Uninterrupted
  <2>3. QED BY <1>3, <1>6, <2>1, <2>2
<1>14. ASSUME NEW w \in Workers, WorkerFault(w) PROVE WorkGoesOn
  <2>1. faults' = faults + 1 /\ faults \in Nat
    BY <1>1, <1>14, ConstantsAssumption
    DEF WorkerFault, Crash, DbError, DbUnreachable, AckError, Fault, TypeOK
  <2>2. QED BY <1>4, <2>1
<1>15. ASSUME NEW j \in Jobs,
              EnqueueImportJob(j) \/ EntryGoesIdle(j) \/ OutlivesClaim(j)
       PROVE  WorkGoesOn
  BY <1>5, <1>15 DEF EnqueueImportJob, EntryGoesIdle, OutlivesClaim, localVars
<1>16. CASE UNCHANGED vars
  BY <1>5, <1>16 DEF vars
<1>17. QED
  BY <1>7, <1>8, <1>9, <1>10, <1>11, <1>12, <1>13, <1>14, <1>15, <1>16
  DEF Next, WorkerStep

\* Of the rows of a batch that validate, those whose id an earlier row has are
\* reported, and the id of every one is in seen_in_file afterwards.
LEMMA BatchSeen ==
    ASSUME RunInv, NEW w \in Workers, CommitBatch(w), NEW J \in Jobs, J = cur[w],
           NEW i \in BatchRows(w), Validates(J, i)
    PROVE  /\ csv[J].rows[i].tid \in seen[w] => i \in BatchErrors(w)
           /\ \A k \in BatchRows(w) :
                k < i /\ Validates(J, k) /\ SameTid(J, i, k)
                    => i \in BatchErrors(w)
           /\ csv[J].rows[i].tid \in seen'[w]
<1>1. /\ TypeOK /\ RowsLeft(w) /\ File(w) = csv[J]
      /\ seen'[w] = seen[w] \cup TidsOf(w, BatchValid(w))
  BY DEF CommitBatch, BatchDue, RunInv, HoldInv, TypeInv, TypeOK, File
<1>2. BatchRows(w) \subseteq Nat
  BY <1>1, BatchRange, ConstantsAssumption
<1> DEFINE t == csv[J].rows[i].tid
           S == {k \in BatchRows(w) : Validates(J, k)
                                        /\ csv[J].rows[k].tid = t}
<1>3. \A k \in BatchValid(w) :
        /\ k \in BatchRows(w) /\ csv[J].rows[k].tid \notin seen[w]
        /\ \A m \in BatchRows(w) :
             Validates(J, m) /\ m < k
                => csv[J].rows[m].tid # csv[J].rows[k].tid
  BY <1>1 DEF BatchValid, RowsOfKind, Validates
<1>4. PICK k \in S : \A m \in S : ~(m < k)
  <2>1. i \in S /\ S \subseteq Nat
    BY <1>2
  <2> HIDE DEF S
  <2>2. QED BY <2>1, SmallestNat
<1>5. t \notin seen[w] => k \in BatchValid(w)
  BY <1>1, <1>4 DEF BatchValid, RowsOfKind, Validates
<1>6. t \in seen'[w]
  BY <1>1, <1>4, <1>5 DEF TidsOf
<1>7. QED BY <1>3, <1>6 DEF BatchErrors, SameTid

\* A batch reports the repetitions among its rows, and those of earlier
\* batches if seen_in_file still knows them.
LEMMA BatchReports ==
    ASSUME SoundDeliveries, RepeatInv, [Next]_vars,
           NEW w \in Workers, CommitBatch(w), NEW J \in Jobs, J = cur[w]
    PROVE  RepeatsSound(J)' /\ SeenInv(w)'
<1>1. /\ RunInv /\ TypeOK /\ RepeatsSound(J) /\ SeenInv(w)
      /\ pc[w] = "rows" /\ pc' = pc /\ cur' = cur /\ faults' = faults
      /\ csv[J].header /\ ~BatchFails(w) /\ File(w) = csv[J] /\ SeenBound(w)
  BY DEF RepeatInv, CountInv, RunInv, HoldInv, TypeInv, CommitBatch, BatchDue,
         File
<1>2. PICK lo \in Nat, hi \in Nat :
        /\ StoresBatch(w, J, lo, hi)
        /\ lo < hi /\ hi <= Len(csv[J].rows)
        /\ hi \in {lo + BatchSize, Len(csv[J].rows)}
        /\ BatchRows(w) = (lo + 1)..hi
  BY <1>1, BatchEffect
<1>3. /\ csv' = csv /\ jobs[J].last_committed_row = lo
      /\ jobs'[J].last_committed_row = hi
      /\ \A i \in RowNumber : errs'[J][i] =
             errs[J][i] + IF i \in BatchErrors(w) THEN 1 ELSE 0
      /\ BatchErrors(w) \subseteq (lo + 1)..hi
  BY <1>2 DEF StoresBatch
<1>4. jobs'[J].status = "PROCESSING"
  <2>1. orm[w] \in JobRow /\ orm[w].status = "PROCESSING"
    BY <1>1 DEF RunInv, CopyIsExact, Busy, TypeOK
  <2>2. BatchJob(w).status = orm[w].status
    BY <2>1 DEF BatchJob, JobRow
  <2>3. jobs'[J] = BatchJob(w)
    BY <1>1, BatchMoves DEF MovesRow, TypeOK
  <2>4. QED BY <2>1, <2>2, <2>3
<1>5. DOMAIN csv[J].rows = 1..Len(csv[J].rows) /\ Len(csv[J].rows) \in Nat
      /\ Len(csv[J].rows) <= MaxRows /\ MaxRows \in Nat /\ BatchSize \in Nat \ {0}
  BY <1>1, ConstantsAssumption DEF TypeOK, CsvFile
<1>6. PICK q \in Nat : lo = q * BatchSize
  BY <1>1, <1>2, <1>3, <1>5 DEF RepeatsSound
<1>7. hi = Len(csv[J].rows) \/ \E p \in Nat : hi = p * BatchSize
  <2>1. q + 1 \in Nat /\ (q + 1) * BatchSize = q * BatchSize + BatchSize
    BY <1>5
  <2>2. QED BY <1>2, <1>6, <2>1
<1>8. Uninterrupted(J)' => Uninterrupted(J)
  <2>1. ASSUME NEW i \in (lo + 1)..hi PROVE ~Doomed(J, i)
    <3>1. /\ i \in BatchRows(w) /\ i \in DOMAIN csv[J].rows /\ i \in Nat
          /\ \A k \in BatchRows(w) : k \in DOMAIN csv[J].rows
      BY <1>2, <1>5
    <3>2. csv[J].rows[i].kind # "dberr"
      BY <1>1, <3>1 DEF BatchFails, RowsOfKind
    <3>3. CASE csv[J].rows[i].kind = "unfit"
      <4>1. Validates(J, i) /\ i \in RowsOfKind(w, ValidKind)
        BY <1>1, <3>1, <3>3 DEF Validates, ValidKind, RowsOfKind
      <4>2. i \notin BatchValid(w)
        BY <1>1, <3>3 DEF BatchFails, Sent
      <4>3. \/ csv[J].rows[i].tid \in seen[w]
            \/ \E k \in BatchRows(w) :
                 k < i /\ Validates(J, k) /\ SameTid(J, i, k)
        BY <1>1, <4>1, <4>2 DEF BatchValid, RowsOfKind, Validates, SameTid
      <4>4. CASE csv[J].rows[i].tid \in seen[w]
        <5>1. PICK k \in DOMAIN csv[J].rows :
                /\ k <= jobs[J].last_committed_row /\ Validates(J, k)
                /\ csv[J].rows[k].tid = csv[J].rows[i].tid
          BY <1>1, <4>4 DEF SeenBound
        <5>2. k < i
          BY <1>3, <1>5, <5>1
        <5>3. Repeats(J, i, k)
          BY <3>1, <4>1, <5>1, <5>2 DEF Repeats, SameTid
        <5>4. QED BY <3>2, <5>3 DEF Doomed
      <4>5. CASE csv[J].rows[i].tid \notin seen[w]
        BY <3>1, <3>2, <4>1, <4>3, <4>5 DEF Doomed, Repeats
      <4>6. QED BY <4>4, <4>5
    <3>4. QED BY <3>2, <3>3 DEF Doomed
  <2>2. \A i \in DOMAIN csv[J].rows : i > lo /\ ~(i > hi) => i \in (lo + 1)..hi
    BY <1>5
  <2>3. jobs'[J].retry_count = 0 => jobs[J].retry_count = 0
    BY <1>1, InterruptionsStay
  <2>4. \A i \in DOMAIN csv[J].rows : Doomed(J, i)' <=> Doomed(J, i)
    BY <1>3 DEF Doomed, Repeats, Validates, SameTid
  <2>5. QED BY <1>1, <1>3, <2>1, <2>2, <2>3, <2>4 DEF Uninterrupted
<1>9. AtWork(J)'
  BY <1>1 DEF AtWork
<1>10. ASSUME NEW i \in RowNumber, NEW k \in RowNumber, Repeats(J, i, k),
              i <= hi, SameBatch(i, k) \/ Uninterrupted(J)'
       PROVE  errs'[J][i] = 1
  <2>1. /\ i \in Nat \ {0} /\ k \in Nat \ {0} /\ k < i
        /\ i \in DOMAIN csv[J].rows /\ k \in DOMAIN csv[J].rows
        /\ Validates(J, k) /\ Validates(J, i) /\ SameTid(J, i, k)
    BY <1>5, <1>10 DEF RowNumber, Repeats
  <2>2. CASE i <= lo
    <3>1. i \notin (lo + 1)..hi
      BY <2>1, <2>2
    <3>2. errs[J][i] = 1
      BY <1>1, <1>3, <1>8, <1>10, <2>2 DEF RepeatsSound
    <3>3. QED BY <1>3, <3>1, <3>2
  <2>3. CASE ~(i <= lo)
    <3>1. i \in BatchRows(w) /\ i \notin 1..lo
      BY <1>2, <1>10, <2>1, <2>3
    <3>2. errs[J][i] = 0
      BY <1>3, <3>1 DEF RepeatInv, CountInv, NothingBeyondCheckpoint
    <3>3. CASE k > lo
      <4>1. k \in BatchRows(w)
        BY <1>2, <1>10, <2>1, <3>3
      <4>2. i \in BatchErrors(w)
        BY <1>1, <2>1, <3>1, <4>1, BatchSeen
      <4>3. QED BY <1>3, <3>2, <4>2
    <3>4. CASE ~(k > lo)
      <4>1. ~SameBatch(i, k)
        BY <1>6, <2>1, <2>3, <3>4, BatchBoundary
      <4>2. Uninterrupted(J)
        BY <1>8, <1>10, <4>1
      <4>3. csv[J].rows[k].tid \in seen[w]
        BY <1>1, <1>3, <2>1, <3>4, <4>2 DEF SeenInv
      <4>4. i \in BatchErrors(w)
        BY <1>1, <2>1, <3>1, <4>3, BatchSeen DEF SameTid
      <4>5. QED BY <1>3, <3>2, <4>4
    <3>5. QED BY <3>3, <3>4
  <2>4. QED BY <2>2, <2>3
<1>11. RepeatsSound(J)'
  <2>1. ASSUME NEW i \in RowNumber, NEW k \in RowNumber,
               Repeats(J, i, k)', i <= hi, SameBatch(i, k) \/ Uninterrupted(J)'
        PROVE  errs'[J][i] = 1
    BY <1>3, <1>10, <2>1 DEF Repeats, Validates, SameTid
  <2>2. QED BY <1>1, <1>3, <1>4, <1>7, <1>9, <2>1 DEF RepeatsSound
<1>12. SeenInv(w)'
  <2>1. ASSUME Uninterrupted(J)', NEW i \in DOMAIN csv[J].rows,
               i <= hi, Validates(J, i)
        PROVE  csv[J].rows[i].tid \in seen'[w]
    <3>1. seen[w] \subseteq seen'[w]
      BY <1>1 DEF CommitBatch, TypeOK
    <3>2. CASE i <= lo
      BY <1>1, <1>3, <1>8, <2>1, <3>1, <3>2 DEF SeenInv
    <3>3. CASE ~(i <= lo)
      <4>1. i \in BatchRows(w)
        BY <1>2, <1>5, <2>1, <3>3
      <4>2. QED BY <1>1, <2>1, <4>1, BatchSeen
    <3>4. QED BY <3>2, <3>3
  <2>2. J = cur'[w]
    BY <1>1
  <2>3. Uninterrupted(cur[w])' => Uninterrupted(J)'
    BY <2>2 DEF Uninterrupted, Doomed, Repeats, Validates, SameTid
  <2>4. QED BY <1>3, <2>1, <2>2, <2>3 DEF SeenInv, Validates
<1>13. QED BY <1>11, <1>12

\* seen_in_file is emptied when its worker lets go of the job, and otherwise
\* only grows by ids of rows that the checkpoint comes to cover.
LEMMA SeenBoundNext ==
    ASSUME SoundDeliveries, RepeatInv, [Next]_vars
    PROVE  \A w \in Workers : SeenBound(w)'
<1> DEFINE Keeps(v) ==
             \/ seen'[v] = {}
             \/ /\ seen'[v] = seen[v]
                /\ pc[v] \in Busy => cur'[v] = cur[v] /\ pc'[v] \in Busy
           Others(w) == \A v \in Workers \ {w} :
             seen'[v] = seen[v] /\ cur'[v] = cur[v] /\ pc'[v] = pc[v]
<1>1. /\ RunInv /\ TypeOK /\ HasJob /\ csv' = csv
      /\ \A w \in Workers : SeenBound(w)
      /\ \A j \in Jobs : /\ jobs'[j].last_committed_row
                                >= jobs[j].last_committed_row
                          /\ jobs[j].last_committed_row \in Nat
  <2>1. RunInv /\ TypeOK /\ HasJob /\ \A w \in Workers : SeenBound(w)
    BY DEF RepeatInv, CountInv, RunInv, HoldInv, TypeInv
  <2>2. \A j \in Jobs : jobs[j].last_committed_row \in Nat
    BY <2>1, ConstantsAssumption DEF TypeOK, JobRow
  <2>3. QED BY <2>1, <2>2, StepMovesRow, CheckpointGrows
<1>2. TypeOK'
  BY <1>1, TypeNext DEF TypeInv
<1>3. \A j \in Jobs : jobs'[j].last_committed_row \in Nat
                      /\ DOMAIN csv[j].rows \subseteq Nat
  BY <1>1, <1>2, ConstantsAssumption DEF TypeOK, JobRow, CsvFile
<1>4. ASSUME NEW v \in Workers, Keeps(v) PROVE SeenBound(v)'
  <2> SUFFICES ASSUME NEW t \in seen'[v]
               PROVE  /\ pc'[v] \in Busy
                      /\ \E i \in DOMAIN csv'[cur'[v]].rows :
                           /\ i <= jobs'[cur'[v]].last_committed_row
                           /\ csv'[cur'[v]].rows[i].kind \in ValidKind
                           /\ csv'[cur'[v]].rows[i].tid = t
    BY DEF SeenBound, Validates
  <2>1. /\ t \in seen[v] /\ pc[v] \in Busy /\ pc'[v] \in Busy
        /\ cur'[v] = cur[v] /\ cur[v] \in Jobs
    BY <1>1, <1>4 DEF SeenBound, HasJob
  <2>2. PICK i \in DOMAIN csv[cur[v]].rows :
          /\ i <= jobs[cur[v]].last_committed_row
          /\ csv[cur[v]].rows[i].kind \in ValidKind
          /\ csv[cur[v]].rows[i].tid = t
    BY <1>1, <2>1 DEF SeenBound, Validates
  <2>3. i <= jobs'[cur[v]].last_committed_row
    BY <1>1, <1>3, <2>1, <2>2
  <2>4. QED BY <1>1, <2>1, <2>2, <2>3
<1>5. ASSUME NEW w \in Workers, Others(w), Keeps(w)
      PROVE  \A v \in Workers : SeenBound(v)'
  BY <1>4, <1>5
<1>6. ASSUME NEW w \in Workers, NEW l, Goto(w, l), Release(w)
      PROVE  \A v \in Workers : SeenBound(v)'
  BY <1>1, <1>5, <1>6 DEF Goto, Release, TypeOK
<1>7. ASSUME NEW w \in Workers, NEW l, Goto(w, l), seen' = seen,
             \/ pc[w] \notin Busy /\ \E j : cur' = [cur EXCEPT ![w] = j]
             \/ (pc[w] \in Busy => l \in Busy) /\ cur' = cur
      PROVE  \A v \in Workers : SeenBound(v)'
  BY <1>1, <1>5, <1>7 DEF Goto, TypeOK
<1>8. ASSUME UNCHANGED <<pc, cur, seen>>
      PROVE  \A v \in Workers : SeenBound(v)'
  BY <1>4, <1>8
<1>9. ASSUME NEW w \in Workers, CommitBatch(w)
      PROVE  \A v \in Workers : SeenBound(v)'
  <2> PICK J \in Jobs : J = cur[w]
    BY <1>1, <1>9 DEF CommitBatch, BatchDue, HasJob, Busy
  <2>1. PICK lo \in Nat, hi \in Nat :
          /\ StoresBatch(w, J, lo, hi)
          /\ lo < hi /\ hi <= Len(csv[J].rows)
          /\ BatchRows(w) = (lo + 1)..hi
    BY <1>1, <1>9, BatchEffect
  <2>2. /\ pc' = pc /\ cur' = cur /\ pc[w] = "rows" /\ File(w) = csv[J]
        /\ seen'[w] = seen[w] \cup TidsOf(w, BatchValid(w))
        /\ \A v \in Workers \ {w} : seen'[v] = seen[v]
    BY <1>1, <1>9 DEF CommitBatch, BatchDue, TypeOK, File
  <2>3. \A v \in Workers \ {w} : SeenBound(v)'
    BY <1>4, <2>2
  <2>4. ASSUME NEW t \in seen'[w]
        PROVE  \E i \in DOMAIN csv[J].rows :
                 /\ i <= jobs'[J].last_committed_row
                 /\ csv[J].rows[i].kind \in ValidKind /\ csv[J].rows[i].tid = t
    <3>1. CASE t \in seen[w]
      <4>1. PICK i \in DOMAIN csv[J].rows :
              /\ i <= jobs[J].last_committed_row
              /\ csv[J].rows[i].kind \in ValidKind /\ csv[J].rows[i].tid = t
        BY <1>1, <3>1 DEF SeenBound, Validates
      <4>2. i <= jobs'[J].last_committed_row
        BY <1>1, <1>3, <4>1
      <4>3. QED BY <4>1, <4>2
    <3>2. CASE t \in TidsOf(w, BatchValid(w))
      <4>1. PICK i \in BatchRows(w) :
              csv[J].rows[i].kind \in ValidKind /\ csv[J].rows[i].tid = t
        BY <2>2, <3>2 DEF TidsOf, BatchValid, RowsOfKind
      <4>2. i \in 1..Len(csv[J].rows) /\ i <= hi
        BY <2>1, <4>1
      <4>3. DOMAIN csv[J].rows = 1..Len(csv[J].rows)
            /\ jobs'[J].last_committed_row = hi
        BY <1>1, <2>1, ConstantsAssumption DEF TypeOK, CsvFile, StoresBatch
      <4>4. QED BY <4>1, <4>2, <4>3
    <3>3. QED BY <2>2, <3>1, <3>2
  <2>5. SeenBound(w)'
    BY <1>1, <2>2, <2>4 DEF SeenBound, Validates, Busy
  <2>6. QED BY <2>3, <2>5
<1>10. ASSUME NEW w \in Workers,
              \/ AckJob(w) \/ BatchRejected(w) \/ HandleException(w)
              \/ Crash(w) \/ DbError(w)
       PROVE  \A v \in Workers : SeenBound(v)'
  <2>1. \E l : Goto(w, l) /\ Release(w)
    BY <1>10 DEF AckJob, Continue, BatchRejected, HandleException, Crash,
                 DbError, Abort
  <2>2. QED BY <1>6, <2>1
<1>11. ASSUME NEW w \in Workers,
              \/ ReclaimStaleJobs(w) \/ ReadNewJobs(w) \/ LoadJob(w)
              \/ Restart(w)
       PROVE  \A v \in Workers : SeenBound(v)'
  <2>1. pc[w] \notin Busy /\ seen' = seen
    BY <1>11 DEF ReclaimStaleJobs, ReadNewJobs, LoadJob, Restart, Busy
  <2>2. \E l : Goto(w, l)
    BY <1>11 DEF ReclaimStaleJobs, ReadNewJobs, LoadJob, Restart
  <2>3. cur' = cur \/ \E j : cur' = [cur EXCEPT ![w] = j]
    BY <1>11 DEF ReclaimStaleJobs, ReadNewJobs, LoadJob, Restart
  <2>4. QED BY <1>7, <2>1, <2>2, <2>3
<1>12. ASSUME NEW w \in Workers,
              \/ FailExhausted(w) \/ BeginRun(w) \/ FailMissingColumns(w)
              \/ RowRaises(w) \/ CompleteRun(w) \/ DbUnreachable(w)
       PROVE  \A v \in Workers : SeenBound(v)'
  <2>1. \E l \in Busy : Goto(w, l)
    BY <1>12 DEF FailExhausted, BeginRun, FailMissingColumns, RowRaises,
                 CompleteRun, DbUnreachable, Busy
  <2>2. cur' = cur /\ seen' = seen
    BY <1>12 DEF FailExhausted, BeginRun, FailMissingColumns, RowRaises,
                 CompleteRun, DbUnreachable
  <2>3. QED BY <1>7, <2>1, <2>2
<1>13. ASSUME NEW w \in Workers, AckError(w) PROVE FALSE
  BY <1>13 DEF AckError, Fault, SoundDeliveries
<1>14. ASSUME NEW j \in Jobs,
              EnqueueImportJob(j) \/ EntryGoesIdle(j) \/ OutlivesClaim(j)
       PROVE  \A v \in Workers : SeenBound(v)'
  BY <1>8, <1>14 DEF EnqueueImportJob, EntryGoesIdle, OutlivesClaim, localVars
<1>15. CASE UNCHANGED vars
  BY <1>8, <1>15 DEF vars
<1>16. QED
  BY <1>9, <1>10, <1>11, <1>12, <1>13, <1>14, <1>15
  DEF Next, WorkerStep, WorkerFault

LEMMA RepeatNext ==
    ASSUME SoundDeliveries
    PROVE  RepeatInv /\ [Next]_vars => RepeatInv'
<1> SUFFICES ASSUME RepeatInv, [Next]_vars PROVE RepeatInv'
  OBVIOUS
<1>1. CountInv' /\ RunInv /\ TypeOK
  BY CountNext DEF RepeatInv, CountInv, RunInv, HoldInv, TypeInv
<1>2. CASE \A w \in Workers : ~CommitBatch(w)
  <2>1. WorkGoesOn
    BY <1>2, WorkGoesOnWithoutBatch
  <2>2. UNCHANGED <<csv, errs>>
        /\ \A j \in Jobs :
             /\ jobs'[j].last_committed_row = jobs[j].last_committed_row
             /\ Uninterrupted(j)' => Uninterrupted(j)
    BY <1>1, <1>2, OnlyBatchesCount, InterruptionsStay
    DEF Uninterrupted, Doomed, Repeats, Validates, SameTid
  <2>3. ASSUME NEW j \in Jobs
        PROVE  /\ jobs[j].status = "COMPLETED" => jobs'[j].status = "COMPLETED"
               /\ jobs'[j].status = "COMPLETED" =>
                    jobs[j].last_committed_row = Len(csv[j].rows)
    <3>1. RepeatsSound(j) /\ jobs \in [Jobs -> JobRow]
      BY <1>1 DEF RepeatInv, TypeOK
    <3>2. CASE jobs' = jobs
      BY <3>1, <3>2 DEF RepeatsSound
    <3>3. ASSUME NEW w \in Workers, NEW new \in JobRow, MovesRow(w, new),
                 cur[w] = j
          PROVE  /\ jobs[j].status # "COMPLETED" /\ jobs'[j] = new
                 /\ new.status = "COMPLETED" =>
                      jobs[j].last_committed_row = Len(csv[j].rows)
      <4> DEFINE old == jobs[j]
      <4>1. old \in JobRow /\ jobs'[j] = new /\ RowMoves(csv[j], old, new)
        BY <3>1, <3>3 DEF MovesRow
      <4> HIDE DEF old
      <4>2. QED
        BY <4>1 DEF RowMoves, Begins, Advances, Completes, Requeues, Requeued,
                    GivesUp, Failed, JobRow, old
    <3>4. ASSUME NEW w \in Workers, NEW new \in JobRow, MovesRow(w, new),
                 cur[w] # j
          PROVE  jobs'[j] = jobs[j]
      BY <3>1, <3>4 DEF MovesRow
    <3>5. QED BY <1>1, <3>1, <3>2, <3>3, <3>4, StepMovesRow DEF RepeatsSound
  <2>4. ASSUME NEW j \in Jobs PROVE RepeatsSound(j)'
    <3>1. RepeatsSound(j)
      BY DEF RepeatInv
    <3>2. \A i, k \in RowNumber : Repeats(j, i, k)' => Repeats(j, i, k)
      BY <2>2 DEF Repeats, Validates, SameTid
    <3>3. ASSUME Uninterrupted(j)', jobs'[j].status # "COMPLETED",
                 jobs'[j].last_committed_row > 0
          PROVE  AtWork(j)'
      <4>1. AtWork(j)
        BY <2>2, <2>3, <3>1, <3>3 DEF RepeatsSound
      <4>2. QED BY <2>1, <2>2, <3>3, <4>1 DEF WorkGoesOn
    <3>4. QED BY <2>2, <2>3, <3>1, <3>2, <3>3 DEF RepeatsSound
  <2>5. QED BY <1>1, <2>1, <2>4, SeenBoundNext DEF RepeatInv, WorkGoesOn
<1>3. ASSUME NEW w \in Workers, CommitBatch(w) PROVE RepeatInv'
  <2> PICK J \in Jobs : J = cur[w]
    BY <1>1, <1>3 DEF CommitBatch, BatchDue, RunInv, HoldInv, TypeInv, HasJob,
                      Busy
  <2>1. RepeatsSound(J)' /\ SeenInv(w)'
    BY <1>3, BatchReports
  <2>2. /\ csv' = csv /\ pc' = pc /\ cur' = cur /\ faults' = faults
        /\ \A j \in Jobs : j # J => jobs'[j] = jobs[j] /\ errs'[j] = errs[j]
        /\ \A v \in Workers : v # w => seen'[v] = seen[v]
    BY <1>1, <1>3 DEF CommitBatch, TypeOK
  <2>3. ASSUME NEW j \in Jobs, j # J PROVE RepeatsSound(j)'
    <3>1. /\ RepeatsSound(j) /\ jobs'[j] = jobs[j] /\ errs'[j] = errs[j]
          /\ csv' = csv
      BY <2>2, <2>3 DEF RepeatInv
    <3>2. /\ Uninterrupted(j)' <=> Uninterrupted(j)
          /\ AtWork(j)' <=> AtWork(j)
          /\ \A i, k \in RowNumber : Repeats(j, i, k)' <=> Repeats(j, i, k)
      BY <2>2, <3>1
      DEF Uninterrupted, Doomed, AtWork, Repeats, Validates, SameTid
    <3>3. QED BY <3>1, <3>2 DEF RepeatsSound
  <2>4. ASSUME NEW v \in Workers, v # w, pc[v] = "rows" PROVE SeenInv(v)'
    <3>1. PICK j \in Jobs : j = cur[v] /\ j = cur'[v]
      BY <1>1, <2>2, <2>4 DEF RunInv, HoldInv, TypeInv, HasJob, Busy
    <3>2. j # J
      BY <1>1, <2>4, <3>1 DEF RunInv, HoldInv, ClaimsInv, OneWorkerPerJob, Holds
    <3>3. /\ jobs'[j] = jobs[j] /\ csv' = csv /\ seen'[v] = seen[v]
          /\ SeenInv(v)
      BY <2>2, <2>4, <3>2 DEF RepeatInv
    <3>4. Uninterrupted(cur[v])' => Uninterrupted(j)
      BY <2>2, <3>1, <3>3
      DEF Uninterrupted, Doomed, Repeats, Validates, SameTid
    <3>5. QED BY <2>2, <2>4, <3>1, <3>3, <3>4 DEF SeenInv, Validates
  <2>5. \A v \in Workers : SeenInv(v)'
    BY <2>1, <2>2, <2>4 DEF SeenInv
  <2>6. QED BY <1>1, <2>1, <2>3, <2>5, SeenBoundNext DEF RepeatInv
<1>4. QED BY <1>2, <1>3

\* A transaction_id that a file repeats is reported at its later rows: within
\* a batch always, across batches unless a fault or a retry has made a worker
\* forget seen_in_file.
THEOREM RepeatsAreReported ==
    ASSUME SoundDeliveries
    PROVE  Spec => []RepeatsReported
<1>1. RepeatInv => RepeatsReported
  <2> SUFFICES ASSUME RepeatInv, NEW j \in Jobs, jobs[j].status = "COMPLETED",
                      NEW i \in DOMAIN csv[j].rows, NEW k \in DOMAIN csv[j].rows,
                      k < i, Validates(j, k), Validates(j, i), SameTid(j, i, k),
                      \/ (i - 1) \div BatchSize = (k - 1) \div BatchSize
                      \/ faults = 0 /\ jobs[j].retry_count = 0
               PROVE  errs[j][i] = 1
    BY DEF RepeatsReported, Validates, SameTid
  <2>1. RepeatsSound(j) /\ jobs[j].last_committed_row = Len(csv[j].rows)
    BY DEF RepeatInv, RepeatsSound
  <2>2. TypeOK
    BY DEF RepeatInv, CountInv, RunInv, HoldInv, TypeInv
  <2>3. DOMAIN csv[j].rows = 1..Len(csv[j].rows) /\ Len(csv[j].rows) \in Nat
        /\ Len(csv[j].rows) <= MaxRows /\ MaxRows \in Nat
    BY <2>2, ConstantsAssumption DEF TypeOK, CsvFile
  <2>4. /\ i \in RowNumber /\ k \in RowNumber /\ i <= Len(csv[j].rows)
        /\ \A m \in DOMAIN csv[j].rows : ~(m > Len(csv[j].rows))
    BY <2>3 DEF RowNumber
  <2>5. Repeats(j, i, k)
    BY DEF Repeats
  <2>6. SameBatch(i, k) \/ Uninterrupted(j)
    BY <2>1, <2>4 DEF SameBatch, Uninterrupted
  <2>7. QED BY <2>1, <2>4, <2>5, <2>6 DEF RepeatsSound
<1>2. QED BY <1>1, RepeatInit, RepeatNext, PTL DEF Spec

=============================================================================
