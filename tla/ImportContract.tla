---------------------------- MODULE ImportContract ----------------------------
(***************************************************************************)
(* What a client may rely on when it polls GET /api/v1/imports/{id}        *)
(* (get_import_status, app/api/v1/imports.py): the life of an import as a  *)
(* sequence of answers, without workers, stream, batches or crashes.       *)
(***************************************************************************)
EXTENDS Integers

CONSTANTS
    Jobs,
    MaxRetries

VARIABLES
    size,       \* rows of each file
    malformed,  \* files without the required columns
    answer,     \* what get_import_status answers
    tries       \* failed attempts so far

contractVars == <<size, malformed, answer, tries>>

Unknown == -1

Queued == [status |-> "QUEUED", total |-> Unknown, processed |-> 0,
           successful |-> 0, failed |-> 0]

Init ==
    /\ answer = [j \in Jobs |-> Queued]
    /\ tries = [j \in Jobs |-> 0]

Show(j, status) == answer' = [answer EXCEPT ![j].status = status]

\* A worker takes the import up, for the first time or again. A malformed
\* file may be looked at again after it was reported FAILED: the verdict was
\* committed and its entry was not acknowledged.
Begin(j) ==
    /\ \/ answer[j].status \in {"QUEUED", "PROCESSING"}
       \/ answer[j].status = "FAILED" /\ malformed[j]
    /\ tries[j] < MaxRetries
    /\ Show(j, "PROCESSING")
    /\ UNCHANGED tries

\* Progress: more rows, each of them counted once.
Advance(j) ==
    /\ answer[j].status = "PROCESSING" /\ ~malformed[j]
    /\ \E more \in 1 .. size[j] - answer[j].processed : \E new \in 0..more :
         answer' = [answer EXCEPT ![j].processed = @ + more,
                                  ![j].successful = @ + new,
                                  ![j].failed = @ + more - new]
    /\ UNCHANGED tries

Complete(j) ==
    /\ answer[j].status = "PROCESSING" /\ ~malformed[j]
    /\ answer[j].processed = size[j]
    /\ answer' = [answer EXCEPT ![j].status = "COMPLETED", ![j].total = size[j]]
    /\ UNCHANGED tries

\* An attempt fails; what was processed stays.
Retry(j) ==
    /\ answer[j].status = "PROCESSING" /\ tries[j] < MaxRetries
    /\ Show(j, "QUEUED")
    /\ tries' = [tries EXCEPT ![j] = @ + 1]

Fail(j) ==
    /\ \/ answer[j].status = "PROCESSING" /\ malformed[j]
       \/ answer[j].status = "QUEUED" /\ tries[j] = MaxRetries
    /\ Show(j, "FAILED")
    /\ UNCHANGED tries

Next ==
    /\ \E j \in Jobs :
         Begin(j) \/ Advance(j) \/ Complete(j) \/ Retry(j) \/ Fail(j)
    /\ UNCHANGED <<size, malformed>>

Spec == Init /\ [][Next]_contractVars
===============================================================================
