------------------------ MODULE ImportPipelineProofs ------------------------
(***************************************************************************)
(* Theorems about the whole pipeline, from the theorems about its parts:   *)
(* every step of it is a step of the API, of a worker, or of Redis going   *)
(* back to its last snapshot.                                              *)
(***************************************************************************)
EXTENDS ImportPipeline, ImportRecoveryProofs

ApiProofs == INSTANCE ImportApiProofs WITH
    Requests <- Jobs, Contents <- CsvFiles, pc <- handler,
    Faults <- ApiFaults, MaxFaults <- MaxApiFaults, faults <- apiFaults

-----------------------------------------------------------------------------
(* The API as a part of the pipeline *)

LEMMA ApiConstants ==
    /\ None \notin Jobs \cup Keys
    /\ Forms \subseteq ApiProofs!Form
    /\ ApiFaults \subseteq ApiProofs!FaultKind
    /\ MaxApiFaults \in Nat
BY PipelineAssumption, ConstantsAssumption
DEF Api!Form, ApiProofs!Form, Api!FaultKind, ApiProofs!FaultKind

LEMMA ApiTraceInit == ApiProofs!Init => ApiProofs!TraceInv
BY ApiProofs!TraceInit, ApiConstants DEF ApiProofs!TraceInit

LEMMA ApiTraceNext ==
    ApiProofs!TraceInv /\ [ApiProofs!Next]_ApiProofs!vars => ApiProofs!TraceInv'
BY ApiProofs!TraceNext, ApiConstants DEF ApiProofs!TraceNext

\* The steps of the API that the pipeline takes are steps of ImportApi.
LEMMA ApiSteps ==
    ASSUME NEW j \in Jobs,
           ApiOnly(j) \/ Enqueue(j) \/ EnqueueFails(j)
    PROVE  ApiProofs!Next
<1>1. \/ Api!Receive(j) \/ Api!Upload(j) \/ Api!SelectExisting(j)
      \/ Api!CommitJob(j) \/ Api!ReturnWinner(j) \/ Api!RefreshJob(j)
      \/ Api!Crash(j) \/ Api!CommitReplyLost(j)
      \/ Api!EnqueueImportJob(j) \/ Api!RedisError(j)
  BY DEF ApiOnly, Enqueue, EnqueueFails
<1> USE DEF Api!Goto, ApiProofs!Goto, Api!Respond, ApiProofs!Respond,
            Api!Accept, ApiProofs!Accept, Api!Refuse, ApiProofs!Refuse,
            Api!Unlink, ApiProofs!Unlink, Api!Fault, ApiProofs!Fault,
            Api!WithSameKey, ApiProofs!WithSameKey,
            Api!IdempotencyKey, ApiProofs!IdempotencyKey
<1>2. Api!Receive(j) => ApiProofs!Receive(j)
  BY DEF Api!Receive, ApiProofs!Receive
<1>3. Api!Upload(j) => ApiProofs!Upload(j)
  BY DEF Api!Upload, ApiProofs!Upload
<1>4. Api!SelectExisting(j) => ApiProofs!SelectExisting(j)
  BY DEF Api!SelectExisting, ApiProofs!SelectExisting
<1>5. Api!CommitJob(j) => ApiProofs!CommitJob(j)
  BY DEF Api!CommitJob, ApiProofs!CommitJob
<1>6. Api!ReturnWinner(j) => ApiProofs!ReturnWinner(j)
  BY DEF Api!ReturnWinner, ApiProofs!ReturnWinner
<1>7. Api!RefreshJob(j) => ApiProofs!RefreshJob(j)
  BY DEF Api!RefreshJob, ApiProofs!RefreshJob
<1>8. Api!Crash(j) => ApiProofs!Crash(j)
  BY DEF Api!Crash, ApiProofs!Crash
<1>9. Api!CommitReplyLost(j) => ApiProofs!CommitReplyLost(j)
  BY DEF Api!CommitReplyLost, ApiProofs!CommitReplyLost
<1>10. Api!EnqueueImportJob(j) => ApiProofs!EnqueueImportJob(j)
  BY DEF Api!EnqueueImportJob, ApiProofs!EnqueueImportJob
<1>11. Api!RedisError(j) => ApiProofs!RedisError(j)
  BY DEF Api!RedisError, ApiProofs!RedisError
<1>12. QED
  BY <1>1, <1>2, <1>3, <1>4, <1>5, <1>6, <1>7, <1>8, <1>9, <1>10, <1>11
  DEF ApiProofs!Next, ApiProofs!Handle, ApiProofs!HandlerFault

LEMMA ApiInitial == PipelineInit => ApiProofs!Init
BY DEF PipelineInit, Api!Init, ApiProofs!Init, Api!NoAnswer, ApiProofs!NoAnswer

LEMMA PipelineStepsOfApi ==
    [PipelineNext]_pipelineVars => [ApiProofs!Next]_ApiProofs!vars
<1> SUFFICES ASSUME [PipelineNext]_pipelineVars, ~UNCHANGED apiVars
             PROVE  ApiProofs!Next
  BY DEF apiVars, ApiProofs!vars
<1>1. ASSUME NEW j \in Jobs, TimePasses(j) \/ EnsureGroup(j) PROVE FALSE
  BY <1>1 DEF TimePasses, EnsureGroup
<1>2. ASSUME NEW w \in Workers,
             Work(w) \/ GroupMissing(w) \/ WorkerFails(w) \/ WorkerRestarts(w)
      PROVE  FALSE
  BY <1>2 DEF Work, GroupMissing, WorkerFails, WorkerRestarts
<1>3. ~SaveSnapshot /\ ~RedisRestarts /\ ~UNCHANGED pipelineVars
  BY DEF SaveSnapshot, RedisRestarts, pipelineVars
<1>4. QED BY <1>1, <1>2, <1>3, ApiSteps DEF PipelineNext

-----------------------------------------------------------------------------
(* The workers as a part of the pipeline *)

\* A step of the pipeline as the workers see it: one of theirs, or Redis.
LEMMA PipelineStepsOfWorkers ==
    ASSUME [PipelineNext]_pipelineVars
    PROVE  \/ [Next]_vars
           \/ RedisRestarts
           \/ \E w \in Workers : GroupMissing(w)
<1>1. ASSUME NEW j \in Jobs, ApiOnly(j) \/ EnsureGroup(j)
      PROVE  UNCHANGED vars
  BY <1>1 DEF ApiOnly, EnsureGroup
<1>2. ASSUME NEW j \in Jobs, Enqueue(j) \/ EnqueueFails(j)
      PROVE  EnqueueImportJob(j) \/ UNCHANGED vars
  BY <1>2 DEF Enqueue, EnqueueFails
<1>3. ASSUME NEW j \in Jobs, TimePasses(j) PROVE EntryGoesIdle(j)
  BY <1>3 DEF TimePasses
<1>4. ASSUME NEW w \in Workers, Work(w) \/ WorkerFails(w) \/ WorkerRestarts(w)
      PROVE  WorkerStep(w) \/ Restart(w) \/ WorkerFault(w)
  BY <1>4 DEF Work, WorkerFails, WorkerRestarts, WorkerFault
<1>5. SaveSnapshot \/ UNCHANGED pipelineVars => UNCHANGED vars
  BY DEF SaveSnapshot, pipelineVars
<1>6. QED BY <1>1, <1>2, <1>3, <1>4, <1>5 DEF PipelineNext, Next

\* What Redis has on disk has the types of the stream and the group.
SnapshotType ==
    /\ group \in BOOLEAN
    /\ snapshot \in [id: [Jobs -> Nat], last: Nat, delivered: Nat,
                     pel: SUBSET Jobs, idle: SUBSET Jobs, group: BOOLEAN]

\* Only what is in the tables and in a worker's hands matters for durability,
\* and neither depends on Redis.
LEMMA DurableInPipeline ==
    ASSUME DurableInv, SnapshotType, [PipelineNext]_pipelineVars
    PROVE  DurableInv'
<1>1. TypeInv /\ TypeOK /\ HasJob
  BY DEF DurableInv, TypeInv
<1>2. CASE [Next]_vars
  BY <1>2, DurableNext
<1>3. CASE RedisRestarts
  <2>1. UNCHANGED <<csv, jobs, txns, errs, pc, src, todo, cur, orm, seen, faults>>
    BY <1>3 DEF RedisRestarts, storeVars, localVars
  <2>2. /\ id' \in [Jobs -> Nat] /\ last' \in Nat /\ delivered' \in Nat
        /\ pel' \subseteq Jobs
    BY <1>3 DEF RedisRestarts, SnapshotType
  <2>3. idle' \subseteq Jobs
    BY <1>3 DEF RedisRestarts, SnapshotType
  <2>4. TypeInv'
    BY <1>1, <2>1, <2>2, <2>3 DEF TypeInv, TypeOK, HasJob
  <2>5. QED
    BY <2>1, <2>4 DEF DurableInv, CommittedRowsStored, CompletedMeansStored,
                      CopyIsSound, Stored
<1>4. ASSUME NEW w \in Workers, GroupMissing(w) PROVE DurableInv'
  <2>1. /\ UNCHANGED <<csv, storeVars, streamVars, faults, src>>
        /\ pc' = [pc EXCEPT ![w] = "reclaim"]
        /\ cur' = [cur EXCEPT ![w] = None]
        /\ orm' = [orm EXCEPT ![w] = NewJob]
        /\ seen' = [seen EXCEPT ![w] = {}]
        /\ todo' = [todo EXCEPT ![w] = {}]
    BY <1>4 DEF GroupMissing, Abort, Goto, Release
  <2>2. NewJob \in JobRow
    BY ConstantsAssumption DEF NewJob, JobRow, Status
  <2>3. TypeInv'
    BY <1>1, <2>1, <2>2
    DEF TypeInv, TypeOK, HasJob, PC, Busy, storeVars, streamVars
  <2>4. CommittedRowsStored' /\ CompletedMeansStored'
    BY <2>1, QuietTables DEF storeVars
  <2>5. ASSUME NEW v \in Workers PROVE CopyIsSound(v)'
    <3>1. CASE v = w
      BY <1>1, <2>1, <3>1, ConstantsAssumption DEF TypeOK, CopyIsSound
    <3>2. CASE v # w
      <4>1. /\ cur'[v] = cur[v] /\ orm'[v] = orm[v] /\ seen'[v] = seen[v]
            /\ pc'[v] = pc[v]
        BY <1>1, <2>1, <3>2 DEF TypeOK
      <4>2. QED BY <2>1, <4>1 DEF DurableInv, CopyIsSound, Stored, storeVars
    <3>3. QED BY <3>1, <3>2
  <2>6. QED BY <2>3, <2>4, <2>5 DEF DurableInv
<1>5. QED BY <1>2, <1>3, <1>4, PipelineStepsOfWorkers

-----------------------------------------------------------------------------
(* No worker ever meets a job that is not in the table *)

\* A job that has left a trace in the stream, with a worker or in its row ...
Live(j) ==
    \/ id[j] # 0 \/ j \in pel \/ j \in idle
    \/ \E w \in Workers : Holds(w, j)
    \/ jobs[j] # NewJob

\* ... or on the disk of Redis.
Saved(j) == snapshot.id[j] # 0 \/ j \in snapshot.pel \/ j \in snapshot.idle

EntriesAreKnown == \A j \in Jobs : Live(j) \/ Saved(j) => j \in table

\* The workers and the time bring no job to life.
LEMMA AbortKeepsDead ==
    ASSUME TypeOK, NEW w \in Workers, NEW l, Abort(w, l), UNCHANGED streamVars,
           NEW j \in Jobs, jobs'[j] = jobs[j], Live(j)'
    PROVE  Live(j)
<1>1. \A v \in Workers : Holds(v, j)' => Holds(v, j)
  BY ConstantsAssumption DEF Abort, Release, TypeOK, Holds
<1>2. QED BY <1>1 DEF Live, streamVars

LEMMA RowOfAnother ==
    ASSUME TypeOK, NEW w \in Workers, NEW new, FlushJob(w, new),
           NEW j \in Jobs, j # cur[w]
    PROVE  jobs'[j] = jobs[j]
BY DEF FlushJob, TypeOK

LEMMA WorkersKeepDead ==
    ASSUME TypeInv, NEW w \in Workers,
           \/ WorkerStep(w) \/ Restart(w)
           \/ Crash(w) \/ DbError(w) \/ DbUnreachable(w),
           NEW j \in Jobs, Live(j)'
    PROVE  Live(j)
<1>1. TypeOK /\ HasJob
  BY DEF TypeInv
<1>2. SUFFICES ASSUME ~Holds(w, j) PROVE Live(j)
  BY DEF Live
<1>3. ASSUME UNCHANGED <<streamVars, todo, cur>>, jobs'[j] = jobs[j]
      PROVE  Live(j)
  BY <1>3 DEF Live, Holds, streamVars
<1>4. CASE RowRaises(w) \/ Restart(w) \/ DbUnreachable(w)
  BY <1>3, <1>4 DEF RowRaises, Restart, DbUnreachable, storeVars
<1>5. CASE \/ FailExhausted(w) \/ BeginRun(w)
           \/ FailMissingColumns(w) \/ CompleteRun(w)
  <2>1. UNCHANGED <<streamVars, todo, cur>> /\ \E new : FlushJob(w, new)
    BY <1>5 DEF FailExhausted, BeginRun, FailMissingColumns, CompleteRun, CommitJob
  <2>2. jobs'[j] = jobs[j]
    BY <1>1, <1>2, <2>1, RowOfAnother DEF Holds
  <2>3. QED BY <1>3, <2>1, <2>2
<1>6. CASE CommitBatch(w)
  <2>1. UNCHANGED <<streamVars, todo, cur>>
    BY <1>6 DEF CommitBatch
  <2>2. jobs'[j] = jobs[j]
    BY <1>1, <1>2, <1>6 DEF CommitBatch, TypeOK, Holds
  <2>3. QED BY <1>3, <2>1, <2>2
<1>7. CASE BatchRejected(w) \/ Crash(w) \/ DbError(w)
  BY <1>1, <1>7, AbortKeepsDead DEF BatchRejected, Crash, DbError, storeVars
<1>8. CASE HandleException(w)
  <2>1. jobs'[j] = jobs[j]
    BY <1>1, <1>2, <1>8, RowOfAnother DEF HandleException, Holds
  <2>2. QED BY <1>1, <1>8, <2>1, AbortKeepsDead DEF HandleException
<1>9. CASE ReclaimStaleJobs(w)
  <2>1. Claimable \subseteq idle
    BY DEF Claimable
  <2>2. \A v \in Workers : Holds(v, j)' => Holds(v, j) \/ j \in idle
    BY <1>1, <1>9, <2>1 DEF ReclaimStaleJobs, Holds, TypeOK
  <2>3. QED BY <1>9, <2>2 DEF ReclaimStaleJobs, Live, storeVars
<1>10. CASE ReadNewJobs(w)
  <2>1. CASE UNCHANGED <<delivered, pel, todo>>
    BY <1>3, <1>10, <2>1 DEF ReadNewJobs, storeVars, streamVars
  <2>2. ASSUME NEW k \in Jobs, id[k] = delivered + 1, pel' = pel \cup {k},
               todo' = [todo EXCEPT ![w] = {k}]
        PROVE  Live(j)
    <3>1. id[k] # 0
      BY <1>1, <2>2 DEF TypeOK
    <3>2. \A v \in Workers : Holds(v, j)' => Holds(v, j) \/ j = k
      BY <1>1, <1>10, <2>2 DEF ReadNewJobs, Holds, TypeOK
    <3>3. QED BY <1>10, <2>2, <3>1, <3>2 DEF ReadNewJobs, Live, storeVars
  <2>3. QED BY <1>10, <2>1, <2>2 DEF ReadNewJobs
<1>11. CASE LoadJob(w)
  <2>1. \A v \in Workers : Holds(v, j)' => Holds(v, j)
    BY <1>1, <1>11 DEF LoadJob, Holds, TypeOK
  <2>2. QED BY <1>11, <2>1 DEF LoadJob, Live, storeVars, streamVars
<1>12. CASE AckJob(w)
  <2>1. \A v \in Workers : Holds(v, j)' => Holds(v, j)
    BY <1>1, <1>12, ConstantsAssumption DEF AckJob, Continue, Release, Holds, TypeOK
  <2>2. QED BY <1>12, <2>1 DEF AckJob, Live, storeVars
<1>13. QED
  BY <1>4, <1>5, <1>6, <1>7, <1>8, <1>9, <1>10, <1>11, <1>12 DEF WorkerStep

PipelineInv ==
    /\ ApiProofs!TraceInv
    /\ DurableInv
    /\ SnapshotType
    /\ EntriesAreKnown

LEMMA PipelineInvInit == PipelineInit => PipelineInv
<1> SUFFICES ASSUME PipelineInit PROVE PipelineInv
  OBVIOUS
<1>1. Init /\ snapshot = [OnDisk EXCEPT !.group = FALSE]
  BY DEF PipelineInit
<1>2. ApiProofs!TraceInv
  BY ApiInitial, ApiTraceInit
<1>3. DurableInv
  BY <1>1, DurableInit
<1>4. /\ snapshot.id = [j \in Jobs |-> 0] /\ snapshot.last = 0
      /\ snapshot.delivered = 0 /\ snapshot.pel = {} /\ snapshot.idle = {}
  BY <1>1 DEF OnDisk, Init
<1>5. SnapshotType
  <2>1. /\ id \in [Jobs -> Nat] /\ last \in Nat /\ delivered \in Nat
        /\ pel \in SUBSET Jobs /\ idle \in SUBSET Jobs
    BY <1>1 DEF Init
  <2>2. snapshot = [id |-> id, last |-> last, delivered |-> delivered,
                    pel |-> pel, idle |-> idle, group |-> FALSE]
    BY <1>1 DEF OnDisk
  <2>3. group \in BOOLEAN
    BY DEF PipelineInit
  <2>4. QED BY <2>1, <2>2, <2>3 DEF SnapshotType
<1>6. EntriesAreKnown
  BY <1>1, <1>4, ConstantsAssumption
  DEF Init, EntriesAreKnown, Live, Saved, Holds
<1>7. QED BY <1>2, <1>3, <1>5, <1>6 DEF PipelineInv

\* The API adds rows and never removes one.
LEMMA RowsStay ==
    ASSUME [PipelineNext]_pipelineVars
    PROVE  table \subseteq table'
<1>1. [ApiProofs!Next]_ApiProofs!vars
  BY PipelineStepsOfApi
<1>2. QED
  BY <1>1
  DEF ApiProofs!Next, ApiProofs!vars, ApiProofs!Handle, ApiProofs!HandlerFault,
      ApiProofs!Receive, ApiProofs!Upload, ApiProofs!SelectExisting,
      ApiProofs!CommitJob, ApiProofs!ReturnWinner, ApiProofs!RefreshJob,
      ApiProofs!EnqueueImportJob, ApiProofs!Crash, ApiProofs!DiskError,
      ApiProofs!DbError, ApiProofs!CommitReplyLost, ApiProofs!RedisError

\* A request adds its entry after it has committed its job.
LEMMA EnqueuedAfterCommit ==
    ASSUME ApiProofs!TraceInv, NEW j \in Jobs, Enqueue(j) \/ EnqueueFails(j)
    PROVE  j \in table
<1>1. handler[j] = "enqueue"
  BY DEF Enqueue, EnqueueFails, Api!EnqueueImportJob, Api!RedisError
<1>2. QED
  BY <1>1 DEF ApiProofs!TraceInv, ApiProofs!ApiInv, ApiProofs!FileAndRow

LEMMA KnownInPipeline ==
    ASSUME PipelineInv, [PipelineNext]_pipelineVars
    PROVE  EntriesAreKnown'
<1>1. TypeInv /\ TypeOK /\ EntriesAreKnown /\ SnapshotType /\ table \subseteq table'
  BY RowsStay DEF PipelineInv, DurableInv, TypeInv
<1>2. SUFFICES ASSUME NEW j \in Jobs, Live(j)' \/ Saved(j)', j \notin table
               PROVE  j \in table'
  BY <1>1 DEF EntriesAreKnown
<1>3. ~Live(j) /\ ~Saved(j)
  BY <1>1, <1>2 DEF EntriesAreKnown
<1>4. ASSUME UNCHANGED vars, UNCHANGED snapshot PROVE FALSE
  <2>1. Saved(j)' <=> Saved(j)
    BY <1>4 DEF Saved
  <2>2. Live(j)' <=> Live(j)
    BY <1>4 DEF Live, Holds, vars
  <2>3. QED BY <1>2, <1>3, <2>1, <2>2
<1>5. ASSUME NEW k \in Jobs, ApiOnly(k) \/ EnsureGroup(k) PROVE FALSE
  BY <1>4, <1>5 DEF ApiOnly, EnsureGroup, redisVars
<1>6. ASSUME NEW k \in Jobs, Enqueue(k) \/ EnqueueFails(k) PROVE FALSE
  <2>1. snapshot' = snapshot /\ (EnqueueImportJob(k) \/ UNCHANGED vars)
    BY <1>6 DEF Enqueue, EnqueueFails, redisVars
  <2>2. k # j
    BY <1>2, <1>6, EnqueuedAfterCommit DEF PipelineInv
  <2>3. CASE EnqueueImportJob(k)
    <3>1. id'[j] = id[j]
      BY <1>1, <2>2, <2>3 DEF EnqueueImportJob, TypeOK
    <3>2. Live(j)' <=> Live(j)
      BY <2>3, <3>1 DEF EnqueueImportJob, Live, Holds, storeVars, localVars
    <3>3. Saved(j)' <=> Saved(j)
      BY <2>1 DEF Saved
    <3>4. QED BY <1>2, <1>3, <3>2, <3>3
  <2>4. QED BY <1>4, <2>1, <2>3
<1>7. ASSUME NEW k \in Jobs, TimePasses(k) PROVE FALSE
  <2>1. EntryGoesIdle(k) /\ snapshot' = snapshot
    BY <1>7 DEF TimePasses, redisVars
  <2>2. Live(j)' => Live(j)
    BY <2>1 DEF EntryGoesIdle, Live, Holds, storeVars, localVars
  <2>3. Saved(j)' <=> Saved(j)
    BY <2>1 DEF Saved
  <2>4. QED BY <1>2, <1>3, <2>2, <2>3
<1>8. ASSUME NEW w \in Workers, Work(w) \/ WorkerFails(w) \/ WorkerRestarts(w)
      PROVE  FALSE
  <2>1. /\ WorkerStep(w) \/ Restart(w) \/ Crash(w) \/ DbError(w) \/ DbUnreachable(w)
        /\ snapshot' = snapshot
    BY <1>8 DEF Work, WorkerFails, WorkerRestarts, redisVars
  <2>2. Saved(j)' <=> Saved(j)
    BY <2>1 DEF Saved
  <2>3. QED BY <1>1, <1>2, <1>3, <2>1, <2>2, WorkersKeepDead
<1>9. ASSUME NEW w \in Workers, GroupMissing(w) PROVE FALSE
  <2>1. /\ Abort(w, "reclaim") /\ UNCHANGED streamVars
        /\ jobs' = jobs /\ snapshot' = snapshot
    BY <1>9 DEF GroupMissing, redisVars, storeVars
  <2>2. Saved(j)' <=> Saved(j)
    BY <2>1 DEF Saved
  <2>3. Live(j)' => Live(j)
    BY <1>1, <2>1, AbortKeepsDead
  <2>4. QED BY <1>2, <1>3, <2>2, <2>3
<1>10. CASE SaveSnapshot
  <2>1. UNCHANGED vars /\ snapshot' = OnDisk
    BY <1>10 DEF SaveSnapshot
  <2>2. Saved(j)' => Live(j)
    BY <2>1 DEF Saved, Live, OnDisk
  <2>3. Live(j)' <=> Live(j)
    BY <2>1 DEF Live, Holds, vars
  <2>4. QED BY <1>2, <1>3, <2>2, <2>3
<1>11. CASE RedisRestarts
  <2>1. /\ snapshot' = snapshot /\ id' = snapshot.id /\ pel' = snapshot.pel
        /\ idle' \subseteq snapshot.idle \cup snapshot.pel
        /\ UNCHANGED <<jobs, todo, cur>>
    BY <1>11 DEF RedisRestarts, storeVars, localVars
  <2>2. Live(j)' => Live(j) \/ Saved(j)
    BY <2>1 DEF Live, Saved, Holds
  <2>3. Saved(j)' <=> Saved(j)
    BY <2>1 DEF Saved
  <2>4. QED BY <1>2, <1>3, <2>2, <2>3
<1>12. CASE UNCHANGED pipelineVars
  BY <1>4, <1>12 DEF pipelineVars, redisVars
<1>13. QED
  BY <1>5, <1>6, <1>7, <1>8, <1>9, <1>10, <1>11, <1>12 DEF PipelineNext

LEMMA PipelineInvNext ==
    PipelineInv /\ [PipelineNext]_pipelineVars => PipelineInv'
<1> SUFFICES ASSUME PipelineInv, [PipelineNext]_pipelineVars PROVE PipelineInv'
  OBVIOUS
<1>1. ApiProofs!TraceInv'
  BY PipelineStepsOfApi, ApiTraceNext DEF PipelineInv
<1>2. DurableInv'
  BY DurableInPipeline DEF PipelineInv
<1>3. SnapshotType'
  <2>1. snapshot' = snapshot \/ snapshot' = OnDisk
    BY DEF PipelineNext, ApiOnly, EnsureGroup, Enqueue, EnqueueFails,
           TimePasses, Work, GroupMissing, WorkerFails, WorkerRestarts,
           SaveSnapshot, RedisRestarts, redisVars, pipelineVars
  <2>2. SnapshotType
    BY DEF PipelineInv
  <2>3. group' \in {group, TRUE, snapshot.group}
    BY DEF PipelineNext, ApiOnly, EnsureGroup, Enqueue, EnqueueFails,
           TimePasses, Work, GroupMissing, WorkerFails, WorkerRestarts,
           SaveSnapshot, RedisRestarts, redisVars, pipelineVars
  <2>4. group' \in BOOLEAN
    BY <2>2, <2>3 DEF SnapshotType
  <2>5. CASE snapshot' = snapshot
    BY <2>2, <2>4, <2>5 DEF SnapshotType
  <2>6. CASE snapshot' = OnDisk
    <3>1. /\ id \in [Jobs -> Nat] /\ last \in Nat /\ delivered \in Nat
          /\ pel \in SUBSET Jobs /\ idle \in SUBSET Jobs
      BY DEF PipelineInv, DurableInv, TypeInv, TypeOK
    <3>2. QED BY <2>2, <2>4, <2>6, <3>1 DEF OnDisk, SnapshotType
  <2>7. QED BY <2>1, <2>5, <2>6
<1>4. EntriesAreKnown'
  BY KnownInPipeline
<1>5. QED BY <1>1, <1>2, <1>3, <1>4 DEF PipelineInv

LEMMA PipelineInvariant == PipelineSpec => []PipelineInv
BY PipelineInvInit, PipelineInvNext, PTL DEF PipelineSpec

-----------------------------------------------------------------------------
(* Theorems *)

\* The API of the pipeline is the API of ImportApi: whatever the workers and
\* Redis do, it takes no step that create_import does not take, so that what is
\* proved about ImportApi alone holds here.
THEOREM PipelineImplementsApi == PipelineSpec => ApiProofs!Spec
<1>1. PipelineInit => ApiProofs!Init
  BY ApiInitial
<1>2. [PipelineNext]_pipelineVars => [ApiProofs!Next]_ApiProofs!vars
  BY PipelineStepsOfApi
<1>3. QED BY <1>1, <1>2, PTL DEF PipelineSpec, ApiProofs!Spec

\* Whatever entry a worker is given, also by a Redis that went back to a
\* snapshot, process_entry finds its job and _run_import its file.
THEOREM WorkersFindTheirInput == PipelineSpec => []WorkerFindsJobAndFile
<1>1. PipelineInv => WorkerFindsJobAndFile
  BY DEF PipelineInv, EntriesAreKnown, Live, WorkerFindsJobAndFile,
         ApiProofs!TraceInv, ApiProofs!ApiInv, ApiProofs!FileAndRow
<1>2. QED BY <1>1, PipelineInvariant, PTL

\* However often an upload is repeated and however often Redis goes back to a
\* snapshot, one job per idempotency key is ever taken up.
THEOREM RepeatsAreImportedOnce == PipelineSpec => []ImportedOnce
<1>1. PipelineInv => ImportedOnce
  <2> SUFFICES ASSUME PipelineInv, NEW j \in Jobs, NEW k \in Jobs, j # k,
                      Api!IdempotencyKey(j) = Api!IdempotencyKey(k),
                      jobs[j] # NewJob, jobs[k] # NewJob
               PROVE  FALSE
    BY DEF ImportedOnce
  <2>1. j \in table /\ k \in table
    BY DEF PipelineInv, EntriesAreKnown, Live
  <2>2. ApiProofs!IdempotencyKey(j) = ApiProofs!IdempotencyKey(k)
    BY DEF Api!IdempotencyKey, ApiProofs!IdempotencyKey
  <2>3. QED
    BY <2>1, <2>2
    DEF PipelineInv, ApiProofs!TraceInv, ApiProofs!ApiInv, ApiProofs!UniqueKey
<1>2. QED BY <1>1, PipelineInvariant, PTL

\* The checkpoint is durable in the pipeline too: the rows it covers are
\* stored, although a Redis that lost its data may have given one job to
\* several workers.
THEOREM CheckpointSurvivesRedis == PipelineSpec => []CommittedRowsStored
<1>1. PipelineInv => CommittedRowsStored
  BY DEF PipelineInv, DurableInv
<1>2. QED BY <1>1, PipelineInvariant, PTL

\* So is COMPLETED.
THEOREM CompletedSurvivesRedis == PipelineSpec => []CompletedMeansStored
<1>1. PipelineInv => CompletedMeansStored
  BY DEF PipelineInv, DurableInv
<1>2. QED BY <1>1, PipelineInvariant, PTL

-----------------------------------------------------------------------------
(* No upload is lost while Redis keeps its data *)

\* Until Redis restarts, the group exists, every entry the API added has its
\* place in the stream, and the workers are as ImportRecoveryProofs has them.
UntilRestart ==
    restarts = 0 =>
        /\ group
        /\ \A n \in 1..Len(stream) : id[stream[n]] # 0
        /\ RunInv

SteadyInv == PipelineInv /\ restarts \in Nat /\ UntilRestart

LEMMA SteadyInit == PipelineInit => SteadyInv
<1> SUFFICES ASSUME PipelineInit PROVE SteadyInv
  OBVIOUS
<1>1. PipelineInv /\ RunInv
  BY PipelineInvInit, RunInit DEF PipelineInit
<1>2. restarts = 0 /\ group /\ stream = <<>>
  BY DEF PipelineInit, Api!Init
<1>3. QED BY <1>1, <1>2 DEF SteadyInv, UntilRestart

LEMMA SteadyNext ==
    ASSUME SoundDeliveries
    PROVE  SteadyInv /\ [PipelineNext]_pipelineVars => SteadyInv'
<1> SUFFICES ASSUME SteadyInv, [PipelineNext]_pipelineVars PROVE SteadyInv'
  OBVIOUS
<1>1. PipelineInv' /\ stream \in Seq(Jobs) /\ TypeOK
  BY PipelineInvNext
  DEF SteadyInv, PipelineInv, ApiProofs!TraceInv, ApiProofs!ApiInv,
      ApiProofs!TypeOK, DurableInv, TypeInv
<1>2. restarts' \in Nat /\ (restarts' = 0 => restarts = 0 /\ ~RedisRestarts)
  <2>1. restarts' = restarts \/ restarts' = restarts + 1
    BY DEF PipelineNext, ApiOnly, EnsureGroup, Enqueue, EnqueueFails,
           TimePasses, Work, GroupMissing, WorkerFails, WorkerRestarts,
           SaveSnapshot, RedisRestarts, redisVars, pipelineVars
  <2>2. restarts \in Nat
    BY DEF SteadyInv
  <2>3. RedisRestarts => restarts' = restarts + 1
    BY DEF RedisRestarts
  <2>4. QED BY <2>1, <2>2, <2>3
<1>3. SUFFICES ASSUME restarts' = 0 PROVE UntilRestart'
  BY <1>1, <1>2 DEF SteadyInv, UntilRestart
<1>4. /\ restarts = 0 /\ ~RedisRestarts /\ group /\ RunInv
      /\ \A n \in 1..Len(stream) : id[stream[n]] # 0
  BY <1>2, <1>3 DEF SteadyInv, UntilRestart
<1>5. \A w \in Workers : ~GroupMissing(w)
  BY <1>4 DEF GroupMissing
<1>6. RunInv'
  BY <1>4, <1>5, RunNext, PipelineStepsOfWorkers
<1>7. group'
  BY <1>4 DEF PipelineNext, ApiOnly, EnsureGroup, Enqueue, EnqueueFails,
              TimePasses, Work, GroupMissing, WorkerFails, WorkerRestarts,
              SaveSnapshot, redisVars, pipelineVars
<1>8. \A n \in 1..Len(stream') : id'[stream'[n]] # 0
  <2>1. ASSUME stream' = stream, id' = id
        PROVE  \A n \in 1..Len(stream') : id'[stream'[n]] # 0
    BY <1>4, <2>1
  <2>2. ASSUME NEW j \in Jobs, EnqueueImportJob(j), stream' = Append(stream, j)
        PROVE  \A n \in 1..Len(stream') : id'[stream'[n]] # 0
    <3>1. id'[j] # 0 /\ \A k \in Jobs : id[k] # 0 => id'[k] # 0
      BY <1>1, <2>2 DEF EnqueueImportJob, TypeOK
    <3>2. ASSUME NEW n \in 1..Len(stream') PROVE id'[stream'[n]] # 0
      <4>1. stream'[n] = j \/ (n \in 1..Len(stream) /\ stream'[n] = stream[n])
        BY <1>1, <2>2
      <4>2. n \in 1..Len(stream) => stream[n] \in Jobs
        BY <1>1
      <4>3. QED BY <1>4, <3>1, <4>1, <4>2
    <3>3. QED BY <3>2
  <2>3. ASSUME NEW j \in Jobs, Enqueue(j) \/ EnqueueFails(j)
        PROVE  \A n \in 1..Len(stream') : id'[stream'[n]] # 0
    <3>1. \/ EnqueueImportJob(j) /\ stream' = Append(stream, j)
          \/ UNCHANGED vars /\ stream' = stream
      BY <2>3 DEF Enqueue, EnqueueFails, Api!EnqueueImportJob, Api!RedisError
    <3>2. QED BY <2>1, <2>2, <3>1 DEF vars
  <2>4. ASSUME NEW j \in Jobs, ApiOnly(j) \/ EnsureGroup(j)
        PROVE  stream' = stream /\ id' = id
    BY <2>4
    DEF ApiOnly, EnsureGroup, vars, apiVars, Api!Receive, Api!Upload,
        Api!SelectExisting, Api!CommitJob, Api!ReturnWinner, Api!RefreshJob,
        Api!Crash, Api!CommitReplyLost
  <2>5. ASSUME NEW j \in Jobs, TimePasses(j)
        PROVE  stream' = stream /\ id' = id
    BY <2>5 DEF TimePasses, EntryGoesIdle, apiVars
  <2>6. ASSUME NEW w \in Workers, Work(w) \/ WorkerFails(w) \/ WorkerRestarts(w)
        PROVE  stream' = stream /\ id' = id
    <3>1. stream' = stream
      BY <2>6 DEF Work, WorkerFails, WorkerRestarts, apiVars
    <3>2. WorkerStep(w) \/ Restart(w) \/ Crash(w) \/ DbError(w) \/ DbUnreachable(w)
      BY <2>6 DEF Work, WorkerFails, WorkerRestarts
    <3>3. id' = id
      BY <3>2
      DEF WorkerStep, ReclaimStaleJobs, ReadNewJobs, LoadJob, FailExhausted,
          BeginRun, FailMissingColumns, RowRaises, CommitBatch, BatchRejected,
          CompleteRun, AckJob, HandleException, Restart, Crash, DbError,
          DbUnreachable, streamVars
    <3>4. QED BY <3>1, <3>3
  <2>7. SaveSnapshot \/ UNCHANGED pipelineVars => stream' = stream /\ id' = id
    BY DEF SaveSnapshot, pipelineVars, vars, apiVars
  <2>8. QED
    BY <1>4, <1>5, <2>1, <2>3, <2>4, <2>5, <2>6, <2>7 DEF PipelineNext
<1>9. QED BY <1>6, <1>7, <1>8 DEF UntilRestart

\* Between the commit of its job and the end of the import an upload is always
\* somewhere: with the request that goes on to XADD, in the stream, pending or
\* in a worker's hands. Only a request that broke down or a Redis that lost its
\* data strands it.
THEOREM NoUploadIsLost ==
    ASSUME SoundDeliveries
    PROVE  PipelineSpec => []NoUploadLost
<1>1. SteadyInv => NoUploadLost
  <2> SUFFICES ASSUME SteadyInv, NEW j \in table, ~Terminal(j), restarts = 0,
                      handler[j] \notin {"refresh", "enqueue"}, ~Api!Broken(j)
               PROVE  id[j] > delivered \/ j \in pel
    BY DEF NoUploadLost, SteadyInv
  <2>1. j \in Jobs
    BY DEF SteadyInv, PipelineInv, ApiProofs!TraceInv, ApiProofs!ApiInv,
           ApiProofs!TypeOK
  <2>2. ~ApiProofs!Broken(j)
    BY DEF Api!Broken, ApiProofs!Broken
  <2>3. ApiProofs!Enqueued(j)
    BY <2>2
    DEF SteadyInv, PipelineInv, ApiProofs!TraceInv, ApiProofs!UnqueuedOnlyIfBroken
  <2>4. id[j] # 0 /\ RunInv
    BY <2>3 DEF SteadyInv, UntilRestart, ApiProofs!Enqueued
  <2>5. QED BY <2>1, <2>4 DEF RunInv, JobIsSound, Enqueued
<1>2. QED BY <1>1, SteadyInit, SteadyNext, PTL DEF PipelineSpec

-----------------------------------------------------------------------------
(* The contract of the whole pipeline *)

\* While Redis keeps its data, the workers of the pipeline are the workers of
\* ImportWorker: the API adds entries as the workers expect it, and no step of
\* theirs is new. What is proved about them alone holds here.
THEOREM PipelineImplementsWorkers ==
    ASSUME MaxRestarts = 0
    PROVE  PipelineSpec => Spec
<1> DEFINE Inv == restarts = 0 /\ group = TRUE
<1>1. PipelineInit => Init /\ Inv
  BY DEF PipelineInit
<1>2. Inv /\ [PipelineNext]_pipelineVars => Inv'
  <2> SUFFICES ASSUME Inv, [PipelineNext]_pipelineVars PROVE Inv'
    OBVIOUS
  <2>1. ~RedisRestarts
    BY DEF RedisRestarts
  <2>2. restarts' = restarts
    BY <2>1
    DEF PipelineNext, ApiOnly, EnsureGroup, Enqueue, EnqueueFails, TimePasses,
        Work, GroupMissing, WorkerFails, WorkerRestarts, SaveSnapshot,
        redisVars, pipelineVars
  <2>3. group' \in {group, TRUE}
    BY <2>1
    DEF PipelineNext, ApiOnly, EnsureGroup, Enqueue, EnqueueFails, TimePasses,
        Work, GroupMissing, WorkerFails, WorkerRestarts, SaveSnapshot,
        redisVars, pipelineVars
  <2>4. QED BY <2>2, <2>3
<1>3. Inv /\ [PipelineNext]_pipelineVars => [Next]_vars
  <2> SUFFICES ASSUME Inv, [PipelineNext]_pipelineVars PROVE [Next]_vars
    OBVIOUS
  <2>1. ~RedisRestarts /\ \A w \in Workers : ~GroupMissing(w)
    BY DEF RedisRestarts, GroupMissing
  <2>2. QED BY <2>1, PipelineStepsOfWorkers
<1>4. QED BY <1>1, <1>2, <1>3, PTL DEF PipelineSpec, Spec

\* From the upload to the last batch: while Redis keeps its data and deliveries
\* are sound, what a client polls keeps the contract of an import, whatever
\* request makes the job and whatever fails on the way.
THEOREM PipelineKeepsContract ==
    ASSUME MaxRestarts = 0, SoundDeliveries
    PROVE  PipelineSpec => ImplementsContract
BY PipelineImplementsWorkers, WorkerImplementsContract, PTL
=============================================================================
