---------------------------- MODULE AccountSummary ----------------------------
(***************************************************************************)
(* The summary of one account: get_account_summary and the cache it reads  *)
(* through (app/services/account_service.py, app/redis_utils/cache.py),    *)
(* against import batches that add transactions to the account and then    *)
(* delete the cached summary (the end of _commit_batch in                  *)
(* app/workers/import_worker.py). Accounts share nothing.                  *)
(*                                                                         *)
(* A summary is a function of the batches committed so far, so it is       *)
(* represented by their number. Time is the clock of the Redis server.     *)
(***************************************************************************)
EXTENDS Integers, Sequences

CONSTANTS
    Readers,   \* calls of get_account_summary
    Batches,   \* batches with a row of the account
    None,      \* no cached summary, no answer
    Ttl,       \* account_summary_cache_ttl_seconds
    Faults,    \* the kinds of fault this instance is exposed to
    MaxDelay,  \* bound: time from the aggregate query to the SET
    MaxTime    \* bound: length of a behaviour

FaultKind ==
    {"redis",  \* a Redis command fails and is not applied
     "db",     \* the aggregate query fails
     "crash"}  \* the worker dies between its commit and the DEL

ASSUME SummaryAssumption ==
    /\ None \notin Nat
    /\ Ttl \in Nat \ {0} /\ MaxDelay \in Nat /\ MaxTime \in Nat
    /\ Faults \subseteq FaultKind

VARIABLES
    time,       \* the clock of the Redis server
    committed,  \* when each batch was committed, in order
    cache,      \* the value of the account's key
    pc,         \* per reader: "get", "query", "set", "done"
    summary,    \* per reader: the summary it has got
    at,         \* per reader: when it queried, then when it answered
    bpc,        \* per batch: "commit", "invalidate", then "done" or "lost"
    number      \* history, per batch: its place in committed

readVars == <<pc, summary, at>>
batchVars == <<bpc, number>>
vars == <<time, committed, cache, pc, summary, at, bpc, number>>

\* latest is history: the number of batches there were at the SET.
Entry == [summary: Nat, expireAt: Nat, latest: Nat]

Init ==
    /\ time = 0 /\ committed = <<>> /\ cache = None
    /\ pc = [r \in Readers |-> "get"]
    /\ summary = [r \in Readers |-> None]
    /\ at = [r \in Readers |-> 0]
    /\ bpc = [b \in Batches |-> "commit"]
    /\ number = [b \in Batches |-> 0]

-----------------------------------------------------------------------------
Goto(r, label) == pc' = [pc EXCEPT ![r] = label]

Answer(r, s) ==
    /\ Goto(r, "done")
    /\ summary' = [summary EXCEPT ![r] = s]
    /\ at' = [at EXCEPT ![r] = time]

(* get_account_summary *)

\* GET: a hit is the answer; a miss and an error lead to the query.
GetCache(r) ==
    /\ pc[r] = "get"
    /\ \/ cache # None /\ Answer(r, cache.summary)
       \/ /\ cache = None \/ "redis" \in Faults
          /\ Goto(r, "query")
          /\ UNCHANGED <<summary, at>>
    /\ UNCHANGED <<time, committed, cache, batchVars>>

\* The aggregate over transactions: one snapshot.
Query(r) ==
    /\ pc[r] = "query"
    /\ summary' = [summary EXCEPT ![r] = Len(committed)]
    /\ at' = [at EXCEPT ![r] = time]
    /\ Goto(r, "set")
    /\ UNCHANGED <<time, committed, cache, batchVars>>

\* The query raises: the request is answered with a 500.
QueryFails(r) ==
    /\ pc[r] = "query"
    /\ "db" \in Faults
    /\ Answer(r, None)
    /\ UNCHANGED <<time, committed, cache, batchVars>>

\* Mutant: the key is set without ex.
EntryForever(s) ==
    [summary |-> s, expireAt |-> MaxTime + 1, latest |-> Len(committed)]

NewEntry(s) ==
    [summary |-> s, expireAt |-> time + Ttl, latest |-> Len(committed)]

\* SET with ex; an error is swallowed. The summary is the answer.
SetCache(r) ==
    /\ pc[r] = "set"
    /\ \/ cache' = NewEntry(summary[r])
       \/ "redis" \in Faults /\ UNCHANGED cache
    /\ Answer(r, summary[r])
    /\ UNCHANGED <<time, committed, batchVars>>

(* _commit_batch *)

CommitBatch(b) ==
    /\ bpc[b] = "commit"
    /\ committed' = Append(committed, time)
    /\ number' = [number EXCEPT ![b] = Len(committed) + 1]
    /\ bpc' = [bpc EXCEPT ![b] = "invalidate"]
    /\ UNCHANGED <<time, cache, readVars>>

\* Mutant: the account is not among affected_accounts.
InvalidateNothing(b) ==
    /\ bpc[b] = "invalidate"
    /\ bpc' = [bpc EXCEPT ![b] = "done"]
    /\ UNCHANGED <<time, committed, cache, readVars, number>>

\* DEL after the commit.
Invalidate(b) ==
    /\ bpc[b] = "invalidate"
    /\ cache' = None
    /\ bpc' = [bpc EXCEPT ![b] = "done"]
    /\ UNCHANGED <<time, committed, readVars, number>>

\* DEL fails and the error is swallowed, or the worker is gone before it.
InvalidationLost(b) ==
    /\ bpc[b] = "invalidate"
    /\ Faults \cap {"redis", "crash"} # {}
    /\ bpc' = [bpc EXCEPT ![b] = "lost"]
    /\ UNCHANGED <<time, committed, cache, readVars, number>>

\* A tick of the server's clock; Redis drops a key whose time has passed.
Tick ==
    /\ time < MaxTime
    /\ \A r \in Readers : pc[r] = "set" => time < at[r] + MaxDelay
    /\ time' = time + 1
    /\ cache' = IF cache # None /\ time + 1 > cache.expireAt THEN None
                ELSE cache
    /\ UNCHANGED <<committed, readVars, batchVars>>

Next ==
    \/ \E r \in Readers : GetCache(r) \/ Query(r) \/ QueryFails(r) \/ SetCache(r)
    \/ \E b \in Batches : CommitBatch(b) \/ Invalidate(b) \/ InvalidationLost(b)
    \/ Tick

Spec == Init /\ [][Next]_vars

-----------------------------------------------------------------------------
(* Properties *)

\* Every variable has its type.
TypeOK ==
    /\ time \in 0..MaxTime
    /\ committed \in Seq(0..MaxTime)
    /\ cache \in Entry \cup {None}
    /\ pc \in [Readers -> {"get", "query", "set", "done"}]
    /\ summary \in [Readers -> Nat \cup {None}]
    /\ at \in [Readers -> 0..MaxTime]
    /\ bpc \in [Batches -> {"commit", "invalidate", "done", "lost"}]
    /\ number \in [Batches -> Nat]

Answered(r) == pc[r] = "done" /\ summary[r] # None

\* A short TTL bounds staleness: an answer lacks no batch that was committed
\* longer ago than the TTL and the delay of a fill, whatever invalidation was
\* lost or overtaken (cache.py 7-16, account_service.py 11-41).
BoundedStaleness ==
    \A r \in Readers : Answered(r) =>
        \A n \in 1..Len(committed) :
            n > summary[r] => at[r] <= committed[n] + Ttl + MaxDelay

\* A summary that was up to date when it was stored is out of date only until
\* the batch that overtook it has deleted it, or for the TTL if that DEL never
\* happened (import_worker.py 211-214).
StaleOnlyUntilInvalidated ==
    cache # None /\ cache.summary = cache.latest /\ cache.latest < Len(committed)
        => \A b \in Batches :
             number[b] > cache.latest => bpc[b] \in {"invalidate", "lost"}
=============================================================================
