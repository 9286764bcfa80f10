---------------------------- MODULE ImportPipeline ----------------------------
(***************************************************************************)
(* The whole way of an upload: the API of ImportApi and the workers of     *)
(* ImportWorker, on one Postgres, one upload directory and one Redis.      *)
(*                                                                         *)
(* A job is named by the request that creates it, in both components, and  *)
(* its file is what that request uploaded. A request and a worker meet in  *)
(* one step, XADD; every other step belongs to one of them.                *)
(*                                                                         *)
(* Redis writes its data to disk now and then (docker-compose.yml leaves   *)
(* the default, snapshots). When it restarts, the stream and the consumer  *)
(* group are as they were at the last snapshot.                            *)
(***************************************************************************)
EXTENDS ImportWorker

CONSTANTS
    Clients, Keys, Forms,  \* of ImportApi
    ApiFaults,             \* the kinds of fault the API is exposed to
    MaxApiFaults,          \* bound: faults of the API per behaviour
    MaxRestarts            \* bound: restarts of Redis per behaviour

VARIABLES
    form, files, table, stream, handler, answer, apiFaults,  \* of ImportApi
    ensured,   \* the requests whose ensure_group has returned
    group,     \* whether the consumer group exists
    snapshot,  \* what Redis has on disk
    restarts   \* restarts of Redis so far

Api == INSTANCE ImportApi WITH
    Requests <- Jobs, Contents <- CsvFiles, pc <- handler,
    Faults <- ApiFaults, MaxFaults <- MaxApiFaults, faults <- apiFaults

ASSUME PipelineAssumption ==
    /\ None \notin Keys
    /\ Forms \subseteq Api!Form
    /\ ApiFaults \subseteq Api!FaultKind
    /\ MaxApiFaults \in Nat /\ MaxRestarts \in Nat

apiVars == <<form, files, table, stream, handler, answer, apiFaults>>
redisVars == <<ensured, group, snapshot, restarts>>
pipelineVars == <<vars, apiVars, redisVars>>

OnDisk == [id |-> id, last |-> last, delivered |-> delivered, pel |-> pel,
           idle |-> idle, group |-> group]

PipelineInit ==
    /\ Api!Init /\ Init
    /\ csv = [j \in Jobs |-> form[j].content]
    /\ ensured = {} /\ group = TRUE
    /\ snapshot = [OnDisk EXCEPT !.group = FALSE]
    /\ restarts = 0

-----------------------------------------------------------------------------
(* The API. A failed write or query leaves what a crash at that step       *)
(* leaves, so of the handler's faults these are enough.                    *)

ApiOnly(j) ==
    /\ \/ Api!Receive(j) \/ Api!Upload(j) \/ Api!SelectExisting(j)
       \/ Api!CommitJob(j) \/ Api!ReturnWinner(j) \/ Api!RefreshJob(j)
       \/ Api!Crash(j) \/ Api!CommitReplyLost(j)
    /\ UNCHANGED <<vars, redisVars>>

\* A group that is made anew starts at id 0, before every entry.
EnsureGroup(j) ==
    /\ handler[j] = "enqueue" /\ j \notin ensured
    /\ ensured' = ensured \cup {j}
    /\ group' = TRUE
    /\ UNCHANGED <<vars, apiVars, snapshot, restarts>>

\* XADD: the request and the job's entry in the stream. The group may be gone
\* again.
Enqueue(j) ==
    /\ j \in ensured
    /\ Api!EnqueueImportJob(j)
    /\ EnqueueImportJob(j)
    /\ UNCHANGED redisVars

\* ensure_group fails, or XADD, with the entry in the stream or without.
EnqueueFails(j) ==
    /\ Api!RedisError(j)
    /\ \/ /\ j \notin ensured
          /\ stream' = stream /\ group' \in {group, TRUE} /\ UNCHANGED vars
       \/ /\ j \in ensured
          /\ \/ stream' # stream /\ EnqueueImportJob(j)
             \/ stream' = stream /\ UNCHANGED vars
          /\ UNCHANGED group
    /\ UNCHANGED <<ensured, snapshot, restarts>>

(* The workers *)

AtStream(w) == pc[w] \in {"reclaim", "read"}

Work(w) ==
    /\ AtStream(w) => group
    /\ WorkerStep(w)
    /\ UNCHANGED <<apiVars, redisVars>>

\* NOGROUP: the loop catches it, sleeps and begins anew, which at the call of
\* reclaim_stale_jobs changes nothing.
GroupMissing(w) ==
    /\ pc[w] = "read" /\ ~group
    /\ Abort(w, "reclaim")
    /\ UNCHANGED <<csv, storeVars, streamVars, faults, apiVars, redisVars>>

\* Lost XACKs and overlong deliveries are left to ImportWorker.
WorkerFails(w) ==
    /\ Crash(w) \/ DbError(w) \/ DbUnreachable(w)
    /\ UNCHANGED <<apiVars, redisVars>>

\* worker_loop begins with ensure_group.
WorkerRestarts(w) ==
    /\ Restart(w)
    /\ group' = TRUE
    /\ UNCHANGED <<apiVars, ensured, snapshot, restarts>>

TimePasses(j) == EntryGoesIdle(j) /\ UNCHANGED <<apiVars, redisVars>>

(* Redis *)

SaveSnapshot ==
    /\ restarts < MaxRestarts
    /\ snapshot' = OnDisk
    /\ UNCHANGED <<vars, apiVars, ensured, group, restarts>>

\* Deliveries since the snapshot are forgotten, so an entry may count as idle
\* although a worker has just claimed it.
RedisRestarts ==
    /\ restarts < MaxRestarts
    /\ restarts' = restarts + 1
    /\ group' = snapshot.group
    /\ id' = snapshot.id /\ last' = snapshot.last
    /\ delivered' = snapshot.delivered
    /\ pel' = snapshot.pel
    /\ \E aged \in SUBSET snapshot.pel : idle' = snapshot.idle \cup aged
    /\ UNCHANGED <<csv, storeVars, localVars, faults, apiVars, ensured,
                   snapshot>>

PipelineNext ==
    \/ \E j \in Jobs :
         \/ ApiOnly(j) \/ EnsureGroup(j) \/ Enqueue(j) \/ EnqueueFails(j)
         \/ TimePasses(j)
    \/ \E w \in Workers :
         Work(w) \/ GroupMissing(w) \/ WorkerFails(w) \/ WorkerRestarts(w)
    \/ SaveSnapshot \/ RedisRestarts

PipelineSpec == PipelineInit /\ [][PipelineNext]_pipelineVars

\* The fairness of the two components.
FairPipeline ==
    /\ PipelineSpec
    /\ \A j \in Jobs :
         /\ WF_pipelineVars(/\ handler[j] # "new"
                            /\ ApiOnly(j) \/ EnsureGroup(j) \/ Enqueue(j))
         /\ WF_pipelineVars(TimePasses(j))
    /\ \A w \in Workers :
         /\ WF_pipelineVars(Work(w) \/ GroupMissing(w))
         /\ WF_pipelineVars(WorkerRestarts(w))

-----------------------------------------------------------------------------
(* Properties *)

\* What process_entry and _run_import take for granted: the job of an entry is
\* in the table and its file is on disk, although duplicates of the upload are
\* discarded all the while (import_worker.py 76-80, 121; import_service.py
\* 55-107).
WorkerFindsJobAndFile ==
    \A w \in Workers : \A j \in Jobs : Holds(w, j) => j \in table /\ j \in files

\* An upload that is repeated is imported once: of the jobs with one key, one
\* at most is ever taken up, also after Redis went back to a snapshot
\* (import_service.py 74-105, queue.py 20-24).
ImportedOnce ==
    \A j, k \in Jobs :
        /\ j # k /\ Api!IdempotencyKey(j) = Api!IdempotencyKey(k)
        /\ jobs[j] # NewJob
        => jobs[k] = NewJob

\* Every committed job that is not finished is on its way: its request goes
\* on to XADD, or its entry is in the stream, pending or in a worker's hands.
\* It is stranded only if that request broke down or Redis lost its data
\* (import_service.py 92-107, import_worker.py 96-107).
NoUploadLost ==
    \A j \in table : ~Terminal(j) =>
        \/ handler[j] \in {"refresh", "enqueue"}
        \/ id[j] > delivered
        \/ j \in pel
        \/ \E w \in Workers : Holds(w, j)
        \/ Api!Broken(j)
        \/ restarts > 0

\* The job a request was answered with is finished, or was stranded.
Served(r) ==
    /\ Api!Answered(r)
    /\ LET j == answer[r].job
       IN  Terminal(j) \/ Api!Broken(j) \/ restarts > 0

\* An upload answered with 202 is imported or given up at last, whichever
\* request made its job and whatever fails on the way, unless that request
\* broke down before XADD or Redis lost its data (import_service.py 74-107,
\* import_worker.py 72-107, 222-230).
AcceptedIsImported == \A r \in Jobs : Api!Answered(r) ~> Served(r)
=============================================================================
