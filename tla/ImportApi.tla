------------------------------ MODULE ImportApi ------------------------------
(***************************************************************************)
(* POST /api/v1/imports: create_import (app/services/import_service.py),   *)
(* run by any number of API instances for concurrent and retried requests. *)
(*                                                                         *)
(* The handler is cut at its awaits: one step is the upload loop, one      *)
(* Postgres transaction or one Redis command, with the local code and the  *)
(* file operations around it. The job id is a fresh uuid, so the job a     *)
(* request creates, and the file it writes, are named by the request.      *)
(***************************************************************************)
EXTENDS Naturals, FiniteSets, Sequences

CONSTANTS
    Requests,   \* HTTP requests, retries included
    Clients,    \* clients.id
    Keys,       \* values of the Idempotency-Key header
    Contents,   \* file contents, up to their SHA-256
    None,       \* no header, no job
    Forms,      \* the requests a client may send
    Faults,     \* the kinds of fault this instance is exposed to
    MaxFaults   \* bound: faults per behaviour

Form == [client: Clients, key: Keys \cup {None}, content: Contents,
         csv: BOOLEAN, size: {"empty", "fits", "too_large"}]

FaultKind ==
    {"crash",       \* the API instance dies
     "disk",        \* writing the upload fails
     "db",          \* a transaction fails and is not applied
     "db_reply",    \* a commit is applied and its reply is lost
     "redis",       \* Redis cannot be reached
     "redis_reply"} \* XADD is applied and its reply is lost

ASSUME ApiAssumption ==
    /\ None \notin Requests \cup Keys
    /\ Forms \subseteq Form
    /\ Faults \subseteq FaultKind
    /\ MaxFaults \in Nat

VARIABLES
    form,    \* what each request carries
    files,   \* requests whose file is in UPLOAD_DIR
    table,   \* table import_jobs
    stream,  \* entries added to the import stream, in order
    pc,      \* per request: the step its handler is about to take
    answer,  \* per request: the HTTP status and the job of the answer
    faults   \* faults so far

vars == <<form, files, table, stream, pc, answer, faults>>

PC == {"new", "upload", "select", "commit", "lost", "refresh", "enqueue",
       "done"}
Code == {0, 202, 400, 413, 500}
NoAnswer == [code |-> 0, job |-> None]

Init ==
    /\ form \in [Requests -> Forms]
    /\ files = {} /\ table = {} /\ stream = <<>>
    /\ pc = [r \in Requests |-> "new"]
    /\ answer = [r \in Requests |-> NoAnswer]
    /\ faults = 0

-----------------------------------------------------------------------------
Goto(r, label) == pc' = [pc EXCEPT ![r] = label]

Respond(r, code, job) ==
    /\ Goto(r, "done")
    /\ answer' = [answer EXCEPT ![r] = [code |-> code, job |-> job]]

Accept(r, job) == Respond(r, 202, job)
Refuse(r, code) == Respond(r, code, None)

\* Mutant: the header is ignored.
ContentOnlyKey(r) == <<form[r].content, form[r].client>>

\* The header, or else the hash of the content scoped to the client.
IdempotencyKey(r) ==
    IF form[r].key # None THEN form[r].key
    ELSE <<form[r].content, form[r].client>>

\* Mutant: only rows of the request itself collide.
NoUniqueKey(r) == {j \in table : j = r}

\* The rows with the request's key: at most one, since the key is unique.
\* Neither the SELECT nor the constraint mentions the client.
WithSameKey(r) == {j \in table : IdempotencyKey(j) = IdempotencyKey(r)}

\* Mutant: the storage path is made from the key, so duplicates share it.
UnlinkShared(r) == files' = files \ ({r} \cup WithSameKey(r))

\* Mutant: the duplicate file stays.
KeepFile(r) == files' = files

Unlink(r) == files' = files \ {r}

-----------------------------------------------------------------------------
\* A file that is no .csv is refused before anything is written; otherwise
\* open(..., "wb") creates the file.
Receive(r) ==
    /\ pc[r] = "new"
    /\ \/ ~form[r].csv /\ Refuse(r, 400) /\ UNCHANGED files
       \/ /\ form[r].csv
          /\ files' = files \cup {r}
          /\ Goto(r, "upload")
          /\ UNCHANGED answer
    /\ UNCHANGED <<form, table, stream, faults>>

\* The chunk loop and the check for an empty upload.
Upload(r) ==
    /\ pc[r] = "upload"
    /\ \/ form[r].size = "too_large" /\ Unlink(r) /\ Refuse(r, 413)
       \/ form[r].size = "empty" /\ Unlink(r) /\ Refuse(r, 400)
       \/ form[r].size = "fits" /\ Goto(r, "select") /\ UNCHANGED <<files, answer>>
    /\ UNCHANGED <<form, table, stream, faults>>

SelectExisting(r) ==
    /\ pc[r] = "select"
    /\ \/ \E j \in WithSameKey(r) : Unlink(r) /\ Accept(r, j)
       \/ /\ WithSameKey(r) = {}
          /\ Goto(r, "commit")
          /\ UNCHANGED <<files, answer>>
    /\ UNCHANGED <<form, table, stream, faults>>

\* INSERT and COMMIT; IntegrityError if another request was faster.
CommitJob(r) ==
    /\ pc[r] = "commit"
    /\ \/ /\ WithSameKey(r) = {}
          /\ table' = table \cup {r}
          /\ Goto(r, "refresh")
          /\ UNCHANGED files
       \/ /\ WithSameKey(r) # {}
          /\ Unlink(r)
          /\ Goto(r, "lost")
          /\ UNCHANGED table
    /\ UNCHANGED <<form, stream, answer, faults>>

ReturnWinner(r) ==
    /\ pc[r] = "lost"
    /\ \E j \in WithSameKey(r) : Accept(r, j)
    /\ UNCHANGED <<form, files, table, stream, faults>>

RefreshJob(r) ==
    /\ pc[r] = "refresh"
    /\ Goto(r, "enqueue")
    /\ UNCHANGED <<form, files, table, stream, answer, faults>>

\* Mutant: the job is never added to the stream.
EnqueueForgotten(r) ==
    /\ pc[r] = "enqueue"
    /\ Accept(r, r)
    /\ UNCHANGED <<form, files, table, stream, faults>>

\* ensure_group and XADD
EnqueueImportJob(r) ==
    /\ pc[r] = "enqueue"
    /\ stream' = Append(stream, r)
    /\ Accept(r, r)
    /\ UNCHANGED <<form, files, table, faults>>

-----------------------------------------------------------------------------
(* Faults. No handler catches them: the request ends with a 500, or without *)
(* an answer, and what it did so far stays.                                 *)
Fault(kind) ==
    /\ kind \in Faults
    /\ faults < MaxFaults
    /\ faults' = faults + 1

Crash(r) ==
    /\ pc[r] \notin {"new", "done"}
    /\ Fault("crash")
    /\ Goto(r, "done")
    /\ UNCHANGED <<form, files, table, stream, answer>>

DiskError(r) ==
    /\ pc[r] = "upload"
    /\ Fault("disk")
    /\ Refuse(r, 500)
    /\ UNCHANGED <<form, files, table, stream>>

DbError(r) ==
    /\ pc[r] \in {"select", "commit", "lost", "refresh"}
    /\ Fault("db")
    /\ Refuse(r, 500)
    /\ UNCHANGED <<form, files, table, stream>>

\* Mutant: the handler removes the file when the commit raises.
CommitReplyLostCleanup(r) ==
    /\ pc[r] = "commit" /\ WithSameKey(r) = {}
    /\ Fault("db_reply")
    /\ table' = table \cup {r}
    /\ Unlink(r)
    /\ Refuse(r, 500)
    /\ UNCHANGED <<form, stream>>

CommitReplyLost(r) ==
    /\ pc[r] = "commit" /\ WithSameKey(r) = {}
    /\ Fault("db_reply")
    /\ table' = table \cup {r}
    /\ Refuse(r, 500)
    /\ UNCHANGED <<form, files, stream>>

RedisError(r) ==
    /\ pc[r] = "enqueue"
    /\ \/ Fault("redis") /\ UNCHANGED stream
       \/ Fault("redis_reply") /\ stream' = Append(stream, r)
    /\ Refuse(r, 500)
    /\ UNCHANGED <<form, files, table>>

-----------------------------------------------------------------------------
Handle(r) ==
    \/ Upload(r) \/ SelectExisting(r) \/ CommitJob(r) \/ ReturnWinner(r)
    \/ RefreshJob(r) \/ EnqueueImportJob(r)

HandlerFault(r) ==
    \/ Crash(r) \/ DiskError(r) \/ DbError(r) \/ CommitReplyLost(r)
    \/ RedisError(r)

Next == \E r \in Requests : Receive(r) \/ Handle(r) \/ HandlerFault(r)

Spec == Init /\ [][Next]_vars

\* A handler that has begun runs to its end; clients owe nothing.
FairSpec == Spec /\ \A r \in Requests : WF_vars(Handle(r))

-----------------------------------------------------------------------------
(* Properties *)

\* Every variable has its type.
TypeOK ==
    /\ form \in [Requests -> Forms]
    /\ files \subseteq Requests /\ table \subseteq Requests
    /\ stream \in Seq(Requests)
    /\ pc \in [Requests -> PC]
    /\ answer \in [Requests -> [code: Code, job: Requests \cup {None}]]
    /\ faults \in 0..MaxFaults

Enqueued(j) == \E n \in 1..Len(stream) : stream[n] = j
Answered(r) == answer[r].code = 202

\* What the worker relies on when it opens storage_path: the file of every
\* job in the table stays on disk, whatever duplicates of it are discarded
\* and wherever a handler fails (import_service.py 55-105).
JobsHaveTheirFile == table \subseteq files

\* A retried request never enqueues two jobs for the same logical import, and
\* an entry's job is committed before the entry exists (74-105).
OneEntryPerKey ==
    /\ \A n \in 1..Len(stream) : stream[n] \in table
    /\ \A m, n \in 1..Len(stream) :
         m # n => IdempotencyKey(stream[m]) # IdempotencyKey(stream[n])

\* A client that repeats its request gets the same job, one that exists, also
\* when the two raced and also when the first was never answered (74-80,
\* 93-100).
RepeatGetsSameJob ==
    \A r, s \in Requests :
        /\ Answered(r) => answer[r].job \in table
        /\ /\ Answered(r) /\ Answered(s)
           /\ form[r].client = form[s].client
           /\ form[r].key = form[s].key
           /\ form[r].key = None => form[r].content = form[s].content
           => answer[r].job = answer[s].job

\* The handler of the request ended without an answer or with a 500.
Broken(r) == pc[r] = "done" /\ answer[r].code \in {0, 500}

\* A request that is answered properly leaves no file behind but that of its
\* job, also when it lost a race (59-60, 68-70, 79, 98).
NoStrayFile ==
    \A r \in Requests :
        pc[r] = "done" /\ r \in files => r \in table \/ Broken(r)

\* A committed job is in the stream or on its way there, unless the handler
\* that committed it broke down before it was told of the XADD (92-107).
UnqueuedOnlyIfBroken ==
    \A j \in table : Enqueued(j) \/ pc[j] \in {"refresh", "enqueue"} \/ Broken(j)

\* ARCHITECTURE.md: if Redis is down, new imports queue and are processed
\* when it is back. An import the API has accepted reaches the queue (102-107).
AcceptedIsEnqueued ==
    \A r, j \in Requests :
        (Answered(r) /\ answer[r].job = j) ~> Enqueued(j)
=============================================================================
