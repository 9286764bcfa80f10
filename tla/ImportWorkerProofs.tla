------------------------- MODULE ImportWorkerProofs -------------------------
(***************************************************************************)
(* Theorems about ImportWorker, for any number of workers, jobs, rows and  *)
(* faults of every kind.                                                   *)
(***************************************************************************)
EXTENDS ImportWorker, FiniteSetTheorems, WellFoundedInduction, TLAPS

-----------------------------------------------------------------------------
(* The operators the model is built from *)

\* A flush yields a row of the table.
LEMMA FlushType ==
    ASSUME NEW db \in JobRow, NEW loaded \in JobRow, NEW new \in JobRow
    PROVE  Flush(db, loaded, new) \in JobRow
BY DEF Flush, JobRow

\* A flush leaves a column either as it is or as assigned, and a column that
\* was not assigned as it is.
LEMMA FlushColumns ==
    ASSUME NEW db \in JobRow, NEW loaded \in JobRow, NEW new \in JobRow
    PROVE  LET f == Flush(db, loaded, new)
           IN  /\ f.status \in {db.status, new.status}
               /\ f.last_committed_row \in
                    {db.last_committed_row, new.last_committed_row}
               /\ new.last_committed_row = loaded.last_committed_row
                    => f.last_committed_row = db.last_committed_row
BY DEF Flush, JobRow

\* The smallest member of a set of row numbers.
LEMMA SmallestNat ==
    ASSUME NEW S, S \subseteq Nat, S # {}
    PROVE  \E x \in S : \A y \in S : ~(y < x)
<1>1. IsWellFoundedOn(OpToRel(<, Nat), Nat)
  BY NatLessThanWellFounded
<1>2. PICK x \in S : \A y \in S : ~(<<y, x>> \in OpToRel(<, Nat))
  BY <1>1, WFMin
<1>3. QED
  BY <1>2 DEF OpToRel

\* The file a worker reads is one of the uploaded ones.
LEMMA FileType ==
    ASSUME TypeOK, NEW w \in Workers, cur[w] \in Jobs
    PROVE  /\ File(w) = csv[cur[w]]
           /\ Len(File(w).rows) \in 0..MaxRows
           /\ \A i \in 1..Len(File(w).rows) : File(w).rows[i] \in Row
<1>1. File(w) = csv[cur[w]] /\ File(w) \in CsvFile
  BY ConstantsAssumption DEF TypeOK, File
<1>2. File(w).rows \in Seq(Row)
  BY <1>1 DEF CsvFile
<1>3. Len(File(w).rows) \in 0..MaxRows
  BY <1>2, ConstantsAssumption DEF TypeOK, File
<1>4. \A i \in 1..Len(File(w).rows) : File(w).rows[i] \in Row
  BY <1>2
<1>5. QED BY <1>1, <1>3, <1>4

\* A batch that is due is a non-empty range of rows of the file, right after
\* the checkpoint.
LEMMA BatchRange ==
    ASSUME TypeOK, NEW w \in Workers, cur[w] \in Jobs, RowsLeft(w)
    PROVE  /\ UpToRow(w) \in 0..MaxRows
           /\ orm[w].last_committed_row \in 0..MaxRows
           /\ orm[w].last_committed_row < UpToRow(w)
           /\ UpToRow(w) <= Len(File(w).rows)
           /\ BatchRows(w) = (orm[w].last_committed_row + 1) .. UpToRow(w)
           /\ BatchRows(w) \subseteq 1..Len(File(w).rows)
<1>1. /\ orm[w].last_committed_row \in 0..MaxRows
      /\ Len(File(w).rows) \in 0..MaxRows
      /\ MaxRows \in Nat /\ BatchSize \in Nat \ {0}
  BY FileType, ConstantsAssumption DEF TypeOK, JobRow
<1>2. QED
  BY <1>1 DEF RowsLeft, UpToRow, BatchRows

\* The counters of a batch are natural numbers: no more rows are inserted
\* than were sent.
LEMMA BatchJobType ==
    ASSUME TypeOK, NEW w \in Workers, cur[w] \in Jobs, RowsLeft(w)
    PROVE  BatchJob(w) \in JobRow
<1>1. /\ IsFiniteSet(BatchRows(w)) /\ BatchRows(w) \subseteq Nat
  <2>1. BatchRows(w) \subseteq 1..Len(File(w).rows) BY BatchRange
  <2>2. IsFiniteSet(1..Len(File(w).rows)) BY FileType, FS_Interval
  <2>3. QED BY <2>1, <2>2, FS_Subset, FileType
<1>2. /\ IsFiniteSet(BatchValid(w)) /\ IsFiniteSet(BatchErrors(w))
  BY <1>1, FS_Subset DEF BatchValid, BatchErrors, RowsOfKind
<1>3. /\ IsFiniteSet(TidsOf(w, BatchValid(w)))
      /\ Cardinality(TidsOf(w, BatchValid(w))) <= Cardinality(BatchValid(w))
  <2> DEFINE f == [i \in BatchValid(w) |-> File(w).rows[i].tid]
  <2>1. f \in Surjection(BatchValid(w), TidsOf(w, BatchValid(w)))
    BY DEF TidsOf, Surjection
  <2>2. QED BY <1>2, <2>1, FS_Surjection
<1>4. /\ IsFiniteSet(Inserted(w))
      /\ Cardinality(Inserted(w)) <= Cardinality(TidsOf(w, BatchValid(w)))
  BY <1>3, FS_Subset DEF Inserted
<1>5. /\ Cardinality(Inserted(w)) \in Nat
      /\ Cardinality(BatchErrors(w)) \in Nat
      /\ Cardinality(BatchValid(w)) \in Nat
      /\ Cardinality(TidsOf(w, BatchValid(w))) \in Nat
  BY <1>2, <1>3, <1>4, FS_CardinalityType
<1>6. Cardinality(BatchValid(w)) - Cardinality(Inserted(w)) \in Nat
  BY <1>3, <1>4, <1>5
<1>7. UpToRow(w) \in 0..MaxRows
  BY BatchRange
<1>8. orm[w] \in JobRow
  BY DEF TypeOK
<1>9. /\ orm[w].successful_rows + Cardinality(Inserted(w)) \in Nat
      /\ orm[w].failed_rows + Cardinality(BatchErrors(w))
           + (Cardinality(BatchValid(w)) - Cardinality(Inserted(w))) \in Nat
  <2>1. orm[w].successful_rows \in Nat /\ orm[w].failed_rows \in Nat
    BY <1>8 DEF JobRow
  <2>2. QED BY <2>1, <1>5, <1>6
<1>10. QED
  BY <1>7, <1>8, <1>9 DEF BatchJob, JobRow

-----------------------------------------------------------------------------
(* Types *)

\* The steps at which process_entry works on a job.
Busy == {"exhausted", "begin", "rows", "ack", "drop", "except"}

\* TypeOK is not inductive: a step of process_entry indexes the tables by
\* cur[w], which has to be a job.
HasJob == \A w \in Workers : pc[w] \in Busy => cur[w] \in Jobs

TypeInv == TypeOK /\ HasJob

\* Committing an assignment keeps the tables' types.
LEMMA FlushJobType ==
    ASSUME TypeOK, NEW w \in Workers, cur[w] \in Jobs,
           NEW new \in JobRow, FlushJob(w, new)
    PROVE  jobs' \in [Jobs -> JobRow]
<1>1. Flush(jobs[cur[w]], orm[w], new) \in JobRow
  BY FlushType DEF TypeOK
<1>2. QED
  BY <1>1 DEF FlushJob, TypeOK

LEMMA TypeInit == Init => TypeInv
BY ConstantsAssumption
DEF Init, TypeInv, TypeOK, HasJob, Busy, NewJob, JobRow, Status, NULL, PC,
    RowNumber

LEMMA TypeNext == TypeInv /\ [Next]_vars => TypeInv'
<1> SUFFICES ASSUME TypeInv, [Next]_vars PROVE TypeInv'
  OBVIOUS
<1> USE DEF TypeInv
<1>a. /\ MaxRows \in Nat /\ MaxFaults \in Nat /\ None \notin Jobs
  BY ConstantsAssumption
<1>b. NewJob \in JobRow
  BY <1>a DEF NewJob, JobRow, Status
<1>1. ASSUME NEW j \in Jobs, EnqueueImportJob(j) PROVE TypeInv'
  BY <1>1 DEF EnqueueImportJob, TypeOK, HasJob, storeVars, localVars
<1>2. ASSUME NEW j \in Jobs, EntryGoesIdle(j) PROVE TypeInv'
  BY <1>2 DEF EntryGoesIdle, TypeOK, HasJob, storeVars, localVars
<1>3. ASSUME NEW j \in Jobs, OutlivesClaim(j) PROVE TypeInv'
  BY <1>3, <1>a DEF OutlivesClaim, Fault, TypeOK, HasJob, storeVars, localVars
<1>4. ASSUME NEW w \in Workers, ReclaimStaleJobs(w) PROVE TypeInv'
  BY <1>4 DEF ReclaimStaleJobs, Claimable, Goto, TypeOK, HasJob, PC, Busy, storeVars
<1>5. ASSUME NEW w \in Workers, ReadNewJobs(w) PROVE TypeInv'
  <2>1. CASE \E j \in Jobs :
               /\ pel' = pel \cup {j}
               /\ delivered' = delivered + 1
               /\ todo' = [todo EXCEPT ![w] = {j}]
               /\ Goto(w, "load")
    BY <1>5, <2>1
    DEF ReadNewJobs, Goto, TypeOK, HasJob, PC, Busy, storeVars
  <2>2. CASE /\ Goto(w, "reclaim")
             /\ UNCHANGED <<delivered, pel, todo>>
    BY <1>5, <2>2
    DEF ReadNewJobs, Goto, TypeOK, HasJob, PC, Busy, storeVars
  <2>3. QED BY <1>5, <2>1, <2>2 DEF ReadNewJobs
<1>6. ASSUME NEW w \in Workers, LoadJob(w) PROVE TypeInv'
  BY <1>6
  DEF LoadJob, Branch, Goto, TypeOK, HasJob, PC, Busy, storeVars, streamVars
<1>7. ASSUME NEW w \in Workers, cur[w] \in Jobs, pc[w] \in Busy,
             NEW new \in JobRow, CommitJob(w, new),
             NEW l \in PC, Goto(w, l),
             UNCHANGED <<csv, streamVars, src, todo, cur, seen, faults>>
      PROVE  TypeInv'
  <2>1. jobs' \in [Jobs -> JobRow]
    BY <1>7, FlushJobType DEF CommitJob
  <2>2. QED
    BY <1>7, <2>1 DEF CommitJob, Goto, TypeOK, HasJob, Busy, streamVars
<1>8. ASSUME NEW w \in Workers,
             \/ FailExhausted(w) \/ BeginRun(w)
             \/ FailMissingColumns(w) \/ CompleteRun(w)
      PROVE  TypeInv'
  <2>1. pc[w] \in Busy /\ cur[w] \in Jobs /\ orm[w] \in JobRow
    BY <1>8 DEF FailExhausted, BeginRun, FailMissingColumns, CompleteRun,
                HasJob, Busy, TypeOK
  <2>2. /\ Failed(orm[w]) \in JobRow
        /\ [orm[w] EXCEPT !.status = "PROCESSING"] \in JobRow
    BY <2>1 DEF Failed, JobRow, Status
  <2>3. [orm[w] EXCEPT !.total_rows = Len(File(w).rows),
                       !.status = "COMPLETED", !.completed_at = TRUE]
          \in JobRow
    <3>1. Len(File(w).rows) \in Nat BY <2>1, <1>a, FileType
    <3>2. QED BY <2>1, <3>1 DEF JobRow, Status
  <2>4. /\ "drop" \in PC /\ "rows" \in PC /\ "ack" \in PC
    BY DEF PC
  <2>5. CASE FailExhausted(w)
    BY <2>1, <2>2, <2>4, <2>5, <1>7 DEF FailExhausted
  <2>6. CASE BeginRun(w)
    BY <2>1, <2>2, <2>4, <2>6, <1>7 DEF BeginRun
  <2>7. CASE FailMissingColumns(w)
    BY <2>1, <2>2, <2>4, <2>7, <1>7 DEF FailMissingColumns
  <2>8. CASE CompleteRun(w)
    BY <2>1, <2>3, <2>4, <2>8, <1>7 DEF CompleteRun
  <2>9. QED BY <1>8, <2>5, <2>6, <2>7, <2>8
<1>9. ASSUME NEW w \in Workers, RowRaises(w) PROVE TypeInv'
  BY <1>9 DEF RowRaises, BatchDue, Goto, TypeOK, HasJob, PC, Busy,
              storeVars, streamVars
<1>10. ASSUME NEW w \in Workers, CommitBatch(w) PROVE TypeInv'
  <2>1. /\ cur[w] \in Jobs /\ orm[w] \in JobRow /\ RowsLeft(w)
    BY <1>10 DEF CommitBatch, BatchDue, HasJob, Busy, TypeOK
  <2>2. BatchJob(w) \in JobRow
    BY <2>1, BatchJobType
  <2>3. jobs' \in [Jobs -> JobRow] /\ orm' \in [Workers -> JobRow]
    BY <1>10, <2>1, <2>2 DEF CommitBatch, TypeOK, JobRow
  <2>4. txns' \in [Tids -> Jobs \cup {None}]
    BY <1>10, <2>1 DEF CommitBatch, TypeOK
  <2>5. errs' \in [Jobs -> [RowNumber -> Nat]]
    BY <1>10, <2>1 DEF CommitBatch, TypeOK
  <2>6. seen' \in [Workers -> SUBSET Tids]
    <3>1. BatchValid(w) \subseteq 1..Len(File(w).rows)
      BY <2>1, BatchRange DEF BatchValid, RowsOfKind
    <3>2. \A i \in 1..Len(File(w).rows) : File(w).rows[i].tid \in Tids
      BY <2>1, FileType DEF Row
    <3>3. TidsOf(w, BatchValid(w)) \subseteq Tids
      BY <3>1, <3>2 DEF TidsOf
    <3>4. QED BY <1>10, <3>3 DEF CommitBatch, TypeOK
  <2>7. QED
    BY <1>10, <2>3, <2>4, <2>5, <2>6
    DEF CommitBatch, TypeOK, HasJob, streamVars
<1>11. ASSUME NEW w \in Workers, NEW l \in {"reclaim", "down"}, Abort(w, l),
              jobs' \in [Jobs -> JobRow], faults' \in 0..MaxFaults,
              pel' \subseteq Jobs, idle' \subseteq Jobs,
              UNCHANGED <<csv, txns, errs, id, last, delivered>>
       PROVE  TypeInv'
  BY <1>11, <1>b DEF Abort, Goto, Release, TypeOK, HasJob, PC, Busy
<1>12. ASSUME NEW w \in Workers, BatchRejected(w) PROVE TypeInv'
  BY <1>11, <1>12 DEF BatchRejected, TypeOK, storeVars, streamVars
<1>13. ASSUME NEW w \in Workers, AckJob(w) PROVE TypeInv'
  BY <1>13, <1>b DEF AckJob, Continue, Goto, Release, TypeOK, HasJob, PC, Busy,
                     storeVars
<1>14. ASSUME NEW w \in Workers, HandleException(w) PROVE TypeInv'
  <2>1. cur[w] \in Jobs /\ orm[w] \in JobRow
    BY <1>14 DEF HandleException, HasJob, Busy, TypeOK
  <2>2. Requeued(orm[w]) \in JobRow
    <3>1. orm[w].retry_count + 1 \in Nat BY <2>1 DEF JobRow
    <3>2. QED BY <2>1, <3>1 DEF Requeued, JobRow, Status
  <2>3. jobs' \in [Jobs -> JobRow]
    BY <1>14, <2>1, <2>2, FlushJobType DEF HandleException
  <2>4. QED
    BY <1>11, <1>14, <2>3 DEF HandleException, TypeOK, streamVars
<1>15. ASSUME NEW w \in Workers, Crash(w) \/ DbError(w) PROVE TypeInv'
  BY <1>11, <1>15, <1>a DEF Crash, DbError, Fault, TypeOK, storeVars, streamVars
<1>16. ASSUME NEW w \in Workers, Restart(w) PROVE TypeInv'
  BY <1>16 DEF Restart, Goto, TypeOK, HasJob, PC, Busy, storeVars, streamVars
<1>17. ASSUME NEW w \in Workers, DbUnreachable(w) PROVE TypeInv'
  BY <1>17, <1>a DEF DbUnreachable, BatchDue, Fault, Goto, TypeOK, HasJob, PC,
                     Busy, storeVars, streamVars
<1>18. ASSUME NEW w \in Workers, AckError(w) PROVE TypeInv'
  <2>1. /\ faults' \in 0..MaxFaults /\ pel' \subseteq Jobs /\ idle' \subseteq Jobs
        /\ UNCHANGED <<csv, jobs, txns, errs, id, last, delivered>>
    BY <1>18, <1>a DEF AckError, Fault, TypeOK, storeVars
  <2>2. CASE Abort(w, "reclaim")
    BY <1>11, <2>1, <2>2 DEF TypeOK
  <2>3. CASE /\ pc[w] = "ack" /\ Goto(w, "except")
             /\ UNCHANGED <<src, todo, cur, orm, seen>>
    BY <2>1, <2>3 DEF Goto, TypeOK, HasJob, PC, Busy
  <2>4. QED BY <1>18, <2>2, <2>3 DEF AckError
<1>19. CASE UNCHANGED vars
  BY <1>19 DEF vars, TypeOK, HasJob
<1>20. QED
  BY <1>1, <1>2, <1>3, <1>4, <1>5, <1>6, <1>8, <1>9, <1>10, <1>12, <1>13,
     <1>14, <1>15, <1>16, <1>17, <1>18, <1>19
  DEF Next, WorkerStep, WorkerFault

\* Every variable keeps its type: in particular process_entry never works
\* without a job, no checkpoint lies beyond the longest file, and no counter
\* becomes negative, since a batch never inserts more rows than it sends.
THEOREM TypeCorrect == Spec => []TypeOK
<1>1. Init => TypeInv BY TypeInit
<1>2. TypeInv /\ [Next]_vars => TypeInv' BY TypeNext
<1>3. TypeInv => TypeOK BY DEF TypeInv
<1>4. QED BY <1>1, <1>2, <1>3, PTL DEF Spec

-----------------------------------------------------------------------------
(* Durability *)

\* What a worker believes of the job in its hands is true of the tables, even
\* if another worker has meanwhile worked on the same job.
CopyIsSound(w) ==
    /\ cur[w] \in Jobs =>
         \A i \in 1..Len(csv[cur[w]].rows) :
             i <= orm[w].last_committed_row => Stored(cur[w], i)
    /\ \A t \in seen[w] : txns[t] # None
    /\ pc[w] = "rows" => orm[w].status = "PROCESSING"

DurableInv ==
    /\ TypeInv
    /\ CommittedRowsStored
    /\ CompletedMeansStored
    /\ \A w \in Workers : CopyIsSound(w)

LEMMA DurableInit == Init => DurableInv
<1> SUFFICES ASSUME Init PROVE DurableInv
  OBVIOUS
<1>1. TypeInv BY TypeInit
<1>2. \A j \in Jobs : /\ jobs[j].last_committed_row = 0
                      /\ jobs[j].status = "QUEUED"
  BY DEF Init, NewJob
<1>3. CommittedRowsStored /\ CompletedMeansStored
  BY <1>2 DEF CommittedRowsStored, CompletedMeansStored
<1>4. \A w \in Workers : CopyIsSound(w)
  BY ConstantsAssumption DEF Init, CopyIsSound
<1>5. QED BY <1>1, <1>3, <1>4 DEF DurableInv

\* Transactions are never deleted, so a row once stored stays stored.
LEMMA StoredStays ==
    ASSUME csv' = csv, \A t \in Tids : txns[t] # None => txns'[t] # None,
           TypeOK, NEW j \in Jobs, NEW i \in 1..Len(csv[j].rows), Stored(j, i)
    PROVE  Stored(j, i)'
<1>1. csv[j].rows \in Seq(Row)
  BY ConstantsAssumption DEF TypeOK, CsvFile
<1>2. csv[j].rows[i] \in Row
  BY <1>1
<1>3. csv[j].rows[i].tid \in Tids
  BY <1>2 DEF Row
<1>4. QED BY <1>3 DEF Stored

\* A step that stores nothing, moves no checkpoint and completes no job.
LEMMA QuietTables ==
    ASSUME DurableInv, csv' = csv, txns' = txns,
           \A j \in Jobs :
               /\ jobs'[j].last_committed_row = jobs[j].last_committed_row
               /\ jobs'[j].status = "COMPLETED" => jobs[j].status = "COMPLETED"
    PROVE  CommittedRowsStored' /\ CompletedMeansStored'
BY DEF DurableInv, CommittedRowsStored, CompletedMeansStored, Stored

\* The workers a step of w does not concern.
LEMMA OtherCopies ==
    ASSUME DurableInv, NEW w \in Workers, csv' = csv,
           \A t \in Tids : txns[t] # None => txns'[t] # None,
           \A v \in Workers \ {w} : /\ cur'[v] = cur[v] /\ orm'[v] = orm[v]
                                    /\ seen'[v] = seen[v] /\ pc'[v] = pc[v],
           CopyIsSound(w)'
    PROVE  \A v \in Workers : CopyIsSound(v)'
<1> SUFFICES ASSUME NEW v \in Workers \ {w} PROVE CopyIsSound(v)'
  OBVIOUS
<1>1. CopyIsSound(v) /\ TypeOK
  BY DEF DurableInv, TypeInv
<1>2. ASSUME cur[v] \in Jobs, NEW i \in 1..Len(csv[cur[v]].rows),
             i <= orm[v].last_committed_row
      PROVE  Stored(cur[v], i)'
  BY <1>1, <1>2, StoredStays DEF CopyIsSound
<1>3. \A t \in seen[v] : txns'[t] # None
  BY <1>1 DEF CopyIsSound, TypeOK
<1>4. QED BY <1>1, <1>2, <1>3 DEF CopyIsSound

\* Committing an assignment that leaves the checkpoint alone leaves it alone
\* in the table and completes no job unless that is what was assigned.
LEMMA FlushJobQuiet ==
    ASSUME TypeOK, NEW w \in Workers, cur[w] \in Jobs,
           NEW new \in JobRow, FlushJob(w, new),
           new.last_committed_row = orm[w].last_committed_row
    PROVE  \A j \in Jobs :
               /\ jobs'[j].last_committed_row = jobs[j].last_committed_row
               /\ \/ jobs'[j].status = jobs[j].status
                  \/ j = cur[w] /\ jobs'[j].status = new.status
<1>1. jobs' = [jobs EXCEPT ![cur[w]] = Flush(jobs[cur[w]], orm[w], new)]
  BY DEF FlushJob
<1>2. LET f == Flush(jobs[cur[w]], orm[w], new)
      IN  /\ f.status \in {jobs[cur[w]].status, new.status}
          /\ f.last_committed_row = jobs[cur[w]].last_committed_row
  BY FlushColumns DEF TypeOK
<1>3. QED BY <1>1, <1>2 DEF TypeOK

\* Every row of a batch is stored once the batch is committed: it was sent,
\* or its id was sent before, by this batch or by an earlier one.
LEMMA BatchStored ==
    ASSUME DurableInv, NEW w \in Workers, CommitBatch(w),
           NEW i \in 1..UpToRow(w)
    PROVE  /\ i \in 1..Len(csv[cur[w]].rows)
           /\ csv[cur[w]].rows[i].kind = "ok"
                => txns'[csv[cur[w]].rows[i].tid] # None
<1> DEFINE rows == File(w).rows
           tid == rows[i].tid
<1>1. /\ TypeOK /\ cur[w] \in Jobs /\ RowsLeft(w) /\ CopyIsSound(w)
      /\ rows = csv[cur[w]].rows
  BY DEF CommitBatch, BatchDue, DurableInv, TypeInv, HasJob, Busy, File
<1>2. /\ Len(rows) \in Nat /\ UpToRow(w) \in Nat /\ UpToRow(w) <= Len(rows)
      /\ orm[w].last_committed_row \in Nat
      /\ BatchRows(w) = (orm[w].last_committed_row + 1) .. UpToRow(w)
      /\ BatchRows(w) \subseteq Nat
  BY <1>1, BatchRange, FileType, ConstantsAssumption
<1>3. \A k \in 1..Len(rows) : rows[k].tid \in Tids
  BY <1>1, FileType DEF Row
<1>4. i \in 1..Len(rows)
  BY <1>2
<1>5. SUFFICES ASSUME rows[i].kind = "ok" PROVE txns'[tid] # None
  BY <1>1, <1>4
<1>6. tid \in Tids
  BY <1>3, <1>4
<1>7. \A t \in Tids : txns[t] # None \/ t \in TidsOf(w, BatchValid(w))
                        => txns'[t] # None
  BY <1>1, ConstantsAssumption DEF CommitBatch, Inserted, TypeOK
<1>8. CASE i <= orm[w].last_committed_row
  BY <1>1, <1>4, <1>5, <1>6, <1>7, <1>8 DEF CopyIsSound, Stored
<1>9. CASE ~(i <= orm[w].last_committed_row)
  <2>1. i \in RowsOfKind(w, ValidKind)
    BY <1>2, <1>5, <1>9 DEF RowsOfKind, ValidKind
  <2>2. CASE tid \in seen[w]
    BY <1>1, <1>6, <1>7, <2>2 DEF CopyIsSound
  <2>3. CASE tid \notin seen[w]
    <3> DEFINE S == {k \in RowsOfKind(w, ValidKind) : rows[k].tid = tid}
    <3>1. S \subseteq Nat /\ S # {}
      BY <1>2, <2>1 DEF RowsOfKind
    <3>2. PICK k \in S : \A m \in S : ~(m < k)
      BY <3>1, SmallestNat
    <3>3. k \in BatchValid(w)
      BY <2>3, <3>2 DEF BatchValid
    <3>4. tid \in TidsOf(w, BatchValid(w))
      BY <3>2, <3>3 DEF TidsOf
    <3>5. QED BY <1>6, <1>7, <3>4
  <2>4. QED BY <2>2, <2>3
<1>10. QED BY <1>8, <1>9

LEMMA DurableNext == DurableInv /\ [Next]_vars => DurableInv'
<1> SUFFICES ASSUME DurableInv, [Next]_vars PROVE DurableInv'
  OBVIOUS
<1> DEFINE Tables == CommittedRowsStored /\ CompletedMeansStored
           Copies == \A v \in Workers : CopyIsSound(v)
<1>a. TypeInv' /\ TypeOK /\ HasJob /\ None \notin Jobs
  BY TypeNext, ConstantsAssumption DEF DurableInv, TypeInv
<1>b. SUFFICES Tables' /\ Copies'
  BY <1>a DEF DurableInv
<1>1. ASSUME UNCHANGED <<csv, jobs, txns, cur, orm, seen>>,
             \A v \in Workers : pc'[v] = "rows" => pc[v] = "rows"
      PROVE  Tables' /\ Copies'
  BY <1>1 DEF DurableInv, CommittedRowsStored, CompletedMeansStored,
              CopyIsSound, Stored
<1>2. ASSUME NEW j \in Jobs,
             EnqueueImportJob(j) \/ EntryGoesIdle(j) \/ OutlivesClaim(j)
      PROVE  Tables' /\ Copies'
  BY <1>1, <1>2 DEF EnqueueImportJob, EntryGoesIdle, OutlivesClaim, storeVars,
                    localVars
<1>3. ASSUME NEW w \in Workers,
             \/ ReclaimStaleJobs(w) \/ ReadNewJobs(w) \/ RowRaises(w)
             \/ Restart(w) \/ DbUnreachable(w)
      PROVE  Tables' /\ Copies'
  <2>1. UNCHANGED <<csv, jobs, txns, cur, orm, seen>>
    BY <1>3 DEF ReclaimStaleJobs, ReadNewJobs, RowRaises, Restart,
                DbUnreachable, storeVars
  <2>2. \E l \in {"load", "read", "reclaim", "except"} : Goto(w, l)
    BY <1>3 DEF ReclaimStaleJobs, ReadNewJobs, RowRaises, Restart,
                DbUnreachable
  <2>3. QED BY <1>1, <1>a, <2>1, <2>2 DEF Goto, TypeOK
<1>4. ASSUME NEW w \in Workers, LoadJob(w) PROVE Tables' /\ Copies'
  <2>1. PICK j \in Jobs : /\ cur' = [cur EXCEPT ![w] = j]
                          /\ orm' = [orm EXCEPT ![w] = jobs[j]]
                          /\ Goto(w, Branch(jobs[j]))
    BY <1>4, <1>a DEF LoadJob, TypeOK
  <2>2. UNCHANGED <<csv, jobs, txns, seen>>
    BY <1>4 DEF LoadJob, storeVars
  <2>3. Tables'
    BY <2>2, QuietTables
  <2>4. Branch(jobs[j]) # "rows"
    BY DEF Branch
  <2>5. CopyIsSound(w)'
    BY <1>a, <2>1, <2>2, <2>4
    DEF Goto, TypeOK, DurableInv, CommittedRowsStored, CopyIsSound, Stored
  <2>6. Copies'
    BY <1>a, <2>1, <2>2, <2>5, OtherCopies DEF Goto, TypeOK
  <2>7. QED BY <2>3, <2>6
<1>5. ASSUME NEW w \in Workers, cur[w] \in Jobs, NEW new \in JobRow,
             CommitJob(w, new), UNCHANGED <<csv, cur, seen>>,
             NEW l \in PC, Goto(w, l),
             l = "rows" => new.status = "PROCESSING",
             new.last_committed_row = orm[w].last_committed_row,
             new.status = "COMPLETED" =>
                 \A i \in 1..Len(csv[cur[w]].rows) : Stored(cur[w], i)
      PROVE  Tables' /\ Copies'
  <2>1. FlushJob(w, new) /\ orm' = [orm EXCEPT ![w] = new] /\ txns' = txns
    BY <1>5 DEF CommitJob
  <2>2. \A j \in Jobs :
           /\ jobs'[j].last_committed_row = jobs[j].last_committed_row
           /\ \/ jobs'[j].status = jobs[j].status
              \/ j = cur[w] /\ jobs'[j].status = new.status
    BY <1>5, <1>a, <2>1, FlushJobQuiet
  <2>3. Tables'
    BY <1>5, <2>1, <2>2
    DEF DurableInv, CommittedRowsStored, CompletedMeansStored, Stored
  <2>4. CopyIsSound(w)'
    BY <1>5, <1>a, <2>1
    DEF Goto, TypeOK, DurableInv, CopyIsSound, Stored
  <2>5. Copies'
    BY <1>5, <1>a, <2>1, <2>4, OtherCopies DEF Goto, TypeOK
  <2>6. QED BY <2>3, <2>5
<1>6. ASSUME NEW w \in Workers,
             \/ FailExhausted(w) \/ BeginRun(w)
             \/ FailMissingColumns(w) \/ CompleteRun(w)
      PROVE  Tables' /\ Copies'
  <2>1. cur[w] \in Jobs /\ orm[w] \in JobRow /\ CopyIsSound(w)
    BY <1>6, <1>a DEF FailExhausted, BeginRun, FailMissingColumns, CompleteRun,
                HasJob, Busy, TypeOK, DurableInv
  <2>2. "drop" \in PC /\ "rows" \in PC /\ "ack" \in PC
    BY DEF PC
  <2>3. LET new == Failed(orm[w])
        IN  /\ new \in JobRow /\ new.status = "FAILED"
            /\ new.last_committed_row = orm[w].last_committed_row
    BY <2>1 DEF Failed, JobRow, Status
  <2>4. CASE FailExhausted(w)
    BY <2>1, <2>2, <2>3, <2>4, <1>5 DEF FailExhausted
  <2>5. CASE FailMissingColumns(w)
    BY <2>1, <2>2, <2>3, <2>5, <1>5 DEF FailMissingColumns
  <2>6. CASE BeginRun(w)
    <3>1. LET new == [orm[w] EXCEPT !.status = "PROCESSING"]
          IN  /\ new \in JobRow /\ new.status = "PROCESSING"
              /\ new.last_committed_row = orm[w].last_committed_row
      BY <2>1 DEF JobRow, Status
    <3>2. QED BY <2>1, <2>2, <2>6, <3>1, <1>5 DEF BeginRun
  <2>7. CASE CompleteRun(w)
    <3>1. Len(File(w).rows) \in Nat /\ orm[w].last_committed_row \in Nat
      BY <1>a, <2>1, FileType, ConstantsAssumption DEF JobRow
    <3>2. LET new == [orm[w] EXCEPT !.total_rows = Len(File(w).rows),
                                    !.status = "COMPLETED",
                                    !.completed_at = TRUE]
          IN  /\ new \in JobRow
              /\ new.last_committed_row = orm[w].last_committed_row
      BY <2>1, <3>1 DEF JobRow, Status
    <3>3. \A i \in 1..Len(csv[cur[w]].rows) : Stored(cur[w], i)
      BY <2>1, <2>7, <3>1 DEF CompleteRun, RowsLeft, CopyIsSound, File
    <3>4. QED BY <2>1, <2>2, <2>7, <3>2, <3>3, <1>5 DEF CompleteRun
  <2>8. QED BY <1>6, <2>4, <2>5, <2>6, <2>7
<1>7. ASSUME NEW w \in Workers, CommitBatch(w) PROVE Tables' /\ Copies'
  <2>1. /\ cur[w] \in Jobs /\ orm[w] \in JobRow /\ CopyIsSound(w)
        /\ RowsLeft(w) /\ pc[w] = "rows" /\ UNCHANGED <<csv, cur, pc>>
    BY <1>7, <1>a DEF CommitBatch, BatchDue, HasJob, Busy, TypeOK, DurableInv
  <2>2. /\ UpToRow(w) \in Nat /\ BatchJob(w).status = orm[w].status
        /\ BatchJob(w).last_committed_row = UpToRow(w)
    BY <1>a, <2>1, BatchRange, ConstantsAssumption DEF BatchJob, JobRow
  <2>3. /\ orm' = [orm EXCEPT ![w] = BatchJob(w)]
        /\ jobs'[cur[w]].last_committed_row = UpToRow(w)
        /\ jobs'[cur[w]].status = "PROCESSING"
        /\ \A j \in Jobs \ {cur[w]} : jobs'[j] = jobs[j]
    BY <1>7, <1>a, <2>1, <2>2 DEF CommitBatch, CopyIsSound, TypeOK, JobRow
  <2>4. \A t \in Tids : txns[t] # None => txns'[t] # None
    BY <1>7, <1>a, <2>1 DEF CommitBatch, TypeOK
  <2>5. \A i \in 1..Len(csv[cur[w]].rows) :
           i <= UpToRow(w) => Stored(cur[w], i)'
    BY <1>7, <2>1, <2>2, BatchStored DEF Stored
  <2>6. Tables'
    <3>1. ASSUME NEW j \in Jobs, NEW i \in 1..Len(csv[j].rows),
                 \/ i <= jobs'[j].last_committed_row
                 \/ jobs'[j].status = "COMPLETED"
          PROVE  Stored(j, i)'
      <4>1. CASE j = cur[w]
        BY <2>1, <2>3, <2>5, <3>1, <4>1
      <4>2. CASE j # cur[w]
        <5>1. Stored(j, i)
          BY <2>3, <3>1, <4>2
          DEF DurableInv, CommittedRowsStored, CompletedMeansStored
        <5>2. QED BY <1>a, <2>1, <2>4, <5>1, StoredStays
      <4>3. QED BY <4>1, <4>2
    <3>2. QED
      BY <2>1, <3>1 DEF CommittedRowsStored, CompletedMeansStored
  <2>7. CopyIsSound(w)'
    <3>1. \A t \in seen'[w] : txns'[t] # None
      <4>1. seen'[w] = seen[w] \cup TidsOf(w, BatchValid(w))
        BY <1>7, <1>a DEF CommitBatch, TypeOK
      <4>2. seen[w] \subseteq Tids /\ seen'[w] \subseteq Tids
        BY <1>a DEF TypeInv, TypeOK
      <4>3. \A t \in Tids : t \in TidsOf(w, BatchValid(w)) => txns'[t] # None
        BY <1>7, <1>a, <2>1 DEF CommitBatch, Inserted, TypeOK
      <4>4. QED BY <2>1, <2>4, <4>1, <4>2, <4>3 DEF CopyIsSound
    <3>2. orm'[w] = BatchJob(w)
      BY <2>3, <1>a DEF TypeOK
    <3>3. QED BY <2>1, <2>2, <2>5, <3>1, <3>2 DEF CopyIsSound
  <2>8. Copies'
    BY <1>7, <1>a, <2>1, <2>3, <2>4, <2>7, OtherCopies DEF CommitBatch, TypeOK
  <2>9. QED BY <2>6, <2>8
<1>8. ASSUME NEW w \in Workers, Release(w), UNCHANGED <<csv, txns>>,
             NEW l \in PC \ {"rows"}, Goto(w, l),
             \A j \in Jobs :
               /\ jobs'[j].last_committed_row = jobs[j].last_committed_row
               /\ jobs'[j].status = "COMPLETED" => jobs[j].status = "COMPLETED"
      PROVE  Tables' /\ Copies'
  <2>1. Tables'
    BY <1>8, QuietTables
  <2>2. CopyIsSound(w)'
    BY <1>8, <1>a DEF Release, Goto, CopyIsSound, TypeOK
  <2>3. Copies'
    BY <1>8, <1>a, <2>2, OtherCopies DEF Release, Goto, TypeOK
  <2>4. QED BY <2>1, <2>3
<1>9. "reclaim" \in PC /\ "down" \in PC /\ "load" \in PC /\ "read" \in PC
  BY DEF PC
<1>10. ASSUME NEW w \in Workers,
              BatchRejected(w) \/ AckJob(w) \/ Crash(w) \/ DbError(w)
       PROVE  Tables' /\ Copies'
  <2>1. /\ Release(w) /\ UNCHANGED <<csv, txns, jobs>>
        /\ \E l \in {"reclaim", "down", "load", "read"} : Goto(w, l)
    BY <1>10 DEF BatchRejected, AckJob, Crash, DbError, Abort, Continue,
                 storeVars
  <2>2. QED BY <1>8, <1>9, <2>1
<1>11. ASSUME NEW w \in Workers, HandleException(w) PROVE Tables' /\ Copies'
  <2>1. cur[w] \in Jobs /\ orm[w] \in JobRow
    BY <1>11, <1>a DEF HandleException, HasJob, Busy, TypeOK
  <2>2. LET new == Requeued(orm[w])
        IN  /\ new \in JobRow /\ new.status = "QUEUED"
            /\ new.last_committed_row = orm[w].last_committed_row
    <3>1. orm[w].retry_count + 1 \in Nat BY <2>1 DEF JobRow
    <3>2. QED BY <2>1, <3>1 DEF Requeued, JobRow, Status
  <2>3. \A j \in Jobs :
          /\ jobs'[j].last_committed_row = jobs[j].last_committed_row
          /\ jobs'[j].status = "COMPLETED" => jobs[j].status = "COMPLETED"
    BY <1>11, <1>a, <2>1, <2>2, FlushJobQuiet DEF HandleException
  <2>4. QED
    BY <1>8, <1>9, <1>11, <2>3 DEF HandleException, Abort
<1>12. ASSUME NEW w \in Workers, AckError(w) PROVE Tables' /\ Copies'
  <2>1. UNCHANGED <<csv, jobs, txns>>
    BY <1>12 DEF AckError, storeVars
  <2>2. CASE Abort(w, "reclaim")
    BY <1>8, <1>9, <2>1, <2>2 DEF Abort
  <2>3. CASE Goto(w, "except") /\ UNCHANGED <<src, todo, cur, orm, seen>>
    BY <1>1, <1>a, <2>1, <2>3 DEF Goto, TypeOK
  <2>4. QED BY <1>12, <2>2, <2>3 DEF AckError
<1>13. CASE UNCHANGED vars
  BY <1>1, <1>13 DEF vars
<1>14. QED
  BY <1>2, <1>3, <1>4, <1>6, <1>7, <1>10, <1>11, <1>12, <1>13
  DEF Next, WorkerStep, WorkerFault

\* Resuming at last_committed_row never skips a valid row that is not in the
\* database: whatever crashes, fails, is lost or is delivered twice, every
\* valid row up to the checkpoint is stored.
THEOREM CheckpointIsDurable == Spec => []CommittedRowsStored
<1>1. DurableInv => CommittedRowsStored BY DEF DurableInv
<1>2. QED BY <1>1, DurableInit, DurableNext, PTL DEF Spec

\* COMPLETED is the truth about the data: every valid row of a completed
\* import is stored, even if several workers ran it at once with stale copies.
THEOREM CompletedIsTrue == Spec => []CompletedMeansStored
<1>1. DurableInv => CompletedMeansStored BY DEF DurableInv
<1>2. QED BY <1>1, DurableInit, DurableNext, PTL DEF Spec
-----------------------------------------------------------------------------
(* Retries *)

\* A worker that may still count a failed attempt has seen one left, and no
\* later step of its own uses it up.
RetryInv ==
    /\ TypeInv
    /\ RetriesBounded
    /\ \A w \in Workers : pc[w] \in {"begin", "rows", "ack", "except"} =>
                             ~Exhausted(orm[w])

\* A commit writes retry_count only if it was assigned.
LEMMA FlushRetries ==
    ASSUME TypeOK, RetriesBounded, NEW w \in Workers, cur[w] \in Jobs,
           NEW new \in JobRow, FlushJob(w, new),
           new.retry_count = orm[w].retry_count \/ new.retry_count <= MaxRetries
    PROVE  RetriesBounded'
<1>1. jobs[cur[w]] \in JobRow /\ orm[w] \in JobRow
  BY DEF TypeOK
<1>2. Flush(jobs[cur[w]], orm[w], new).retry_count =
        IF new.retry_count = orm[w].retry_count THEN jobs[cur[w]].retry_count
        ELSE new.retry_count
  BY <1>1 DEF Flush, JobRow
<1>3. QED BY <1>2 DEF FlushJob, RetriesBounded, TypeOK

LEMMA RetryNext == RetryInv /\ [Next]_vars => RetryInv'
<1> SUFFICES ASSUME RetryInv, [Next]_vars PROVE RetryInv'
  OBVIOUS
<1> DEFINE Left(w) == pc[w] \in {"begin", "rows", "ack", "except"} =>
                        ~Exhausted(orm[w])
<1>a. TypeInv' /\ TypeOK /\ HasJob /\ RetriesBounded /\ \A v \in Workers : Left(v)
  BY TypeNext DEF RetryInv, TypeInv
<1>b. SUFFICES RetriesBounded' /\ \A v \in Workers : Left(v)'
  BY <1>a DEF RetryInv
<1>1. ASSUME UNCHANGED <<jobs, pc, orm>>
      PROVE  RetriesBounded' /\ \A v \in Workers : Left(v)'
  BY <1>1, <1>a DEF RetriesBounded, Exhausted
<1>2. ASSUME NEW j \in Jobs,
             EnqueueImportJob(j) \/ EntryGoesIdle(j) \/ OutlivesClaim(j)
      PROVE  RetriesBounded' /\ \A v \in Workers : Left(v)'
  BY <1>1, <1>2 DEF EnqueueImportJob, EntryGoesIdle, OutlivesClaim, storeVars,
                    localVars
<1>3. ASSUME NEW w \in Workers, NEW l, Goto(w, l), Left(w)',
             \A v \in Workers \ {w} : orm'[v] = orm[v]
      PROVE  \A v \in Workers : Left(v)'
  BY <1>3, <1>a DEF Goto, TypeOK, Exhausted
<1>4. ASSUME NEW w \in Workers,
             \/ ReclaimStaleJobs(w) \/ ReadNewJobs(w) \/ BatchRejected(w)
             \/ AckJob(w) \/ Restart(w) \/ Crash(w) \/ DbError(w)
      PROVE  RetriesBounded' /\ \A v \in Workers : Left(v)'
  <2>1. PICK l \in {"load", "read", "reclaim", "down"} : Goto(w, l)
    BY <1>4 DEF ReclaimStaleJobs, ReadNewJobs, BatchRejected, AckJob, Restart,
                Crash, DbError, Abort, Continue
  <2>2. jobs' = jobs /\ (orm' = orm \/ Release(w))
    BY <1>4 DEF ReclaimStaleJobs, ReadNewJobs, BatchRejected, AckJob, Restart,
                Crash, DbError, Abort, Continue, storeVars
  <2>3. \A v \in Workers \ {w} : orm'[v] = orm[v]
    BY <2>2, <1>a DEF Release, TypeOK
  <2>4. Left(w)'
    BY <2>1, <1>a DEF Goto, TypeOK
  <2>5. QED BY <1>3, <1>a, <2>1, <2>2, <2>3, <2>4 DEF RetriesBounded
<1>5. ASSUME NEW w \in Workers, LoadJob(w)
      PROVE  RetriesBounded' /\ \A v \in Workers : Left(v)'
  <2>1. PICK j \in Jobs : /\ orm' = [orm EXCEPT ![w] = jobs[j]]
                          /\ Goto(w, Branch(jobs[j]))
    BY <1>5, <1>a DEF LoadJob, TypeOK
  <2>2. jobs' = jobs
    BY <1>5 DEF LoadJob, storeVars
  <2>3. Left(w)'
    BY <2>1, <1>a DEF Goto, Branch, TypeOK
  <2>4. \A v \in Workers \ {w} : orm'[v] = orm[v]
    BY <2>1, <1>a DEF TypeOK
  <2>5. QED BY <1>3, <1>a, <2>1, <2>2, <2>3, <2>4 DEF RetriesBounded
<1>6. ASSUME NEW w \in Workers, cur[w] \in Jobs, NEW new \in JobRow,
             CommitJob(w, new), new.retry_count = orm[w].retry_count,
             NEW l, Goto(w, l), l # "drop" => Left(w) /\ pc[w] \in {"begin", "rows"},
             l \in {"drop", "rows", "ack"}
      PROVE  RetriesBounded' /\ \A v \in Workers : Left(v)'
  <2>1. RetriesBounded'
    BY <1>6, <1>a, FlushRetries DEF CommitJob
  <2>2. orm' = [orm EXCEPT ![w] = new]
    BY <1>6 DEF CommitJob
  <2>3. Left(w)'
    BY <1>6, <2>2, <1>a DEF Goto, TypeOK, Exhausted
  <2>4. QED BY <1>3, <1>6, <1>a, <2>1, <2>2, <2>3 DEF TypeOK
<1>7. ASSUME NEW w \in Workers,
             \/ FailExhausted(w) \/ BeginRun(w)
             \/ FailMissingColumns(w) \/ CompleteRun(w)
      PROVE  RetriesBounded' /\ \A v \in Workers : Left(v)'
  <2>1. cur[w] \in Jobs /\ orm[w] \in JobRow /\ TypeOK'
    BY <1>7, <1>a DEF FailExhausted, BeginRun, FailMissingColumns, CompleteRun,
                HasJob, Busy, TypeInv, TypeOK
  <2>2. orm'[w] \in JobRow
    BY <2>1 DEF TypeOK
  <2>3. CASE FailExhausted(w) \/ FailMissingColumns(w)
    <3> DEFINE new == Failed(orm[w])
    <3>1. /\ CommitJob(w, new) /\ new.retry_count = orm[w].retry_count
          /\ new \in JobRow
      BY <2>1, <2>3 DEF FailExhausted, FailMissingColumns, Failed, JobRow, Status
    <3>2. PICK l \in {"drop", "ack"} :
             Goto(w, l) /\ (l # "drop" => pc[w] = "rows")
      BY <2>3 DEF FailExhausted, FailMissingColumns
    <3> HIDE DEF new
    <3>3. QED BY <1>6, <1>a, <2>1, <3>1, <3>2
  <2>4. CASE BeginRun(w)
    <3> DEFINE new == [orm[w] EXCEPT !.status = "PROCESSING"]
    <3>1. /\ CommitJob(w, new) /\ new.retry_count = orm[w].retry_count
          /\ new \in JobRow /\ Goto(w, "rows") /\ pc[w] = "begin"
      BY <2>1, <2>4 DEF BeginRun, JobRow, Status
    <3> HIDE DEF new
    <3>2. QED BY <1>6, <1>a, <2>1, <3>1
  <2>5. CASE CompleteRun(w)
    <3> DEFINE new == [orm[w] EXCEPT !.total_rows = Len(File(w).rows),
                                     !.status = "COMPLETED",
                                     !.completed_at = TRUE]
    <3>1. CommitJob(w, new) /\ Goto(w, "ack") /\ pc[w] = "rows"
      BY <2>5 DEF CompleteRun
    <3>2. new.retry_count = orm[w].retry_count
      BY <2>1 DEF JobRow
    <3>3. new \in JobRow
      BY <1>a, <2>2, <3>1 DEF CommitJob, TypeOK
    <3> HIDE DEF new
    <3>4. QED BY <1>6, <1>a, <2>1, <3>1, <3>2, <3>3
  <2>6. QED BY <1>7, <2>3, <2>4, <2>5
<1>8. ASSUME NEW w \in Workers, RowRaises(w) \/ DbUnreachable(w)
      PROVE  RetriesBounded' /\ \A v \in Workers : Left(v)'
  <2>1. jobs' = jobs /\ orm' = orm /\ pc[w] = "rows" /\ Goto(w, "except")
    BY <1>8 DEF RowRaises, DbUnreachable, BatchDue, storeVars
  <2>2. Left(w)'
    BY <2>1, <1>a DEF Goto, TypeOK, Exhausted
  <2>3. QED BY <1>3, <1>a, <2>1, <2>2 DEF RetriesBounded
<1>9. ASSUME NEW w \in Workers, CommitBatch(w)
      PROVE  RetriesBounded' /\ \A v \in Workers : Left(v)'
  <2>1. cur[w] \in Jobs /\ orm[w] \in JobRow /\ pc[w] = "rows" /\ pc' = pc
    BY <1>9, <1>a DEF CommitBatch, BatchDue, HasJob, Busy, TypeOK
  <2>2. orm' = [orm EXCEPT ![w] = BatchJob(w)]
        /\ BatchJob(w).retry_count = orm[w].retry_count
    BY <1>9, <2>1 DEF CommitBatch, BatchJob, JobRow
  <2>3. \A j \in Jobs : jobs'[j].retry_count = jobs[j].retry_count
    BY <1>9, <2>1, <1>a DEF CommitBatch, TypeOK, JobRow
  <2>4. QED BY <2>1, <2>2, <2>3, <1>a DEF RetriesBounded, Exhausted, TypeOK
<1>10. ASSUME NEW w \in Workers, HandleException(w)
       PROVE  RetriesBounded' /\ \A v \in Workers : Left(v)'
  <2>1. cur[w] \in Jobs /\ orm[w] \in JobRow /\ ~Exhausted(orm[w])
    BY <1>10, <1>a DEF HandleException, HasJob, Busy, TypeOK
  <2>2. /\ orm[w].retry_count \in Nat /\ orm[w].retry_count < MaxRetries
        /\ MaxRetries \in Nat
    BY <2>1, ConstantsAssumption DEF JobRow, Exhausted
  <2>3. /\ Requeued(orm[w]) \in JobRow
        /\ Requeued(orm[w]).retry_count <= MaxRetries
    <3>1. orm[w].retry_count + 1 \in Nat /\ orm[w].retry_count + 1 <= MaxRetries
      BY <2>2
    <3>2. QED BY <2>1, <3>1 DEF Requeued, JobRow, Status
  <2>4. RetriesBounded'
    BY <1>10, <1>a, <2>1, <2>3, FlushRetries DEF HandleException
  <2>5. Goto(w, "reclaim") /\ Release(w)
    BY <1>10 DEF HandleException, Abort
  <2>6. Left(w)' /\ \A v \in Workers \ {w} : orm'[v] = orm[v]
    BY <2>5, <1>a DEF Goto, Release, TypeOK
  <2>7. QED BY <1>3, <2>4, <2>5, <2>6
<1>11. ASSUME NEW w \in Workers, AckError(w)
       PROVE  RetriesBounded' /\ \A v \in Workers : Left(v)'
  <2>1. jobs' = jobs
    BY <1>11 DEF AckError, storeVars
  <2>2. \/ pc[w] = "ack" /\ Goto(w, "except") /\ orm' = orm
        \/ Goto(w, "reclaim") /\ Release(w)
    BY <1>11 DEF AckError, Abort
  <2>3. Left(w)' /\ \A v \in Workers \ {w} : orm'[v] = orm[v]
    BY <2>2, <1>a DEF Goto, Release, TypeOK, Exhausted
  <2>4. QED BY <1>3, <1>a, <2>1, <2>2, <2>3 DEF RetriesBounded
<1>12. CASE UNCHANGED vars
  BY <1>1, <1>12 DEF vars
<1>13. QED
  BY <1>2, <1>4, <1>5, <1>7, <1>8, <1>9, <1>10, <1>11, <1>12
  DEF Next, WorkerStep, WorkerFault

\* A job is never attempted more often than MAX_RETRIES allows, also when two
\* workers count the same job's attempts with stale copies: both write the
\* number they loaded plus one, never more.
THEOREM RetriesAreBounded == Spec => []RetriesBounded
<1>1. Init => RetryInv
  <2> SUFFICES ASSUME Init PROVE RetryInv
    OBVIOUS
  <2>1. TypeInv BY TypeInit
  <2>2. QED
    BY <2>1, ConstantsAssumption DEF Init, NewJob, RetryInv, RetriesBounded
<1>2. RetryInv => RetriesBounded BY DEF RetryInv
<1>3. QED BY <1>1, <1>2, RetryNext, PTL DEF Spec

=============================================================================
