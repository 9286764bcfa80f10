----------------------------- MODULE ImportQueries -----------------------------
(***************************************************************************)
(* Listings read while imports run: list_transactions                      *)
(* (app/services/transaction_service.py, app/api/v1/transactions.py) and   *)
(* get_import_errors (app/api/v1/imports.py).                              *)
(*                                                                         *)
(* A client walks through the pages of one listing. Every page is a        *)
(* request of two statements, a count and a SELECT with LIMIT and OFFSET,  *)
(* and each statement sees what is committed when it starts (READ          *)
(* COMMITTED). Readers do not affect each other, so there is one.          *)
(*                                                                         *)
(* A row is named by its job and its row number. Rows are committed in     *)
(* batches, in the order of the file, and never deleted. Deliveries are    *)
(* taken to be sound: a second worker on an import whose claim was         *)
(* outlived would report rows of the first once more (see ImportWorker).   *)
(***************************************************************************)
EXTENDS Integers, Sequences, FiniteSets

CONSTANTS
    Jobs,       \* imports
    File,       \* the rows of each import's file
    Owner,      \* the client of each import
    BatchSize,  \* settings.worker_batch_size
    Queries,    \* the listings a client may walk through
    None        \* a parameter that is not given

CsvRow == [valid: BOOLEAN, account_id: STRING, type: STRING, currency: STRING,
           timestamp: Nat, amount: Nat]

ASSUME QueriesAssumption ==
    /\ IsFiniteSet(Jobs)
    /\ File \in [Jobs -> Seq(CsvRow)]
    /\ BatchSize \in Nat \ {0}
    /\ \A q \in Queries :
         /\ q.of \in {"transactions", "errors"}
         /\ q.limit \in Nat \ {0}
         /\ q.of = "errors" => q.job \in Jobs

VARIABLES
    committed,  \* last_committed_row of each import
    query,      \* the listing
    pc,         \* the statement the current request is about to run
    page,       \* pages received so far
    total,      \* the count of the last request
    items,      \* the rows of the last page
    seen,       \* history: the rows of all pages
    again,      \* history: rows that were on more than one page
    atStart     \* history: the rows listed when the walk began

vars == <<committed, query, pc, page, total, items, seen, again, atStart>>
walkVars == <<query, pc, page, total, items, seen, again, atStart>>

Row(x) == File[x[1]][x[2]]
Committed(j) == {<<j, i>> : i \in 1..committed[j]}

-----------------------------------------------------------------------------
(* The statements *)

\* A parameter that is missing or empty does not filter.
Absent == {None, ""}

\* The WHERE clause of list_transactions.
MatchesFilters(q, x) ==
    /\ q.account_id \in Absent \/ Row(x).account_id = q.account_id
    /\ q.type = None \/ Row(x).type = q.type
    /\ q.currency \in Absent \/ Row(x).currency = q.currency
    /\ q.date_from = None \/ Row(x).timestamp >= q.date_from
    /\ q.date_to = None \/ Row(x).timestamp <= q.date_to

Transactions == {x \in UNION {Committed(j) : j \in Jobs} : Row(x).valid}
ImportErrors(j) == {x \in Committed(j) : ~Row(x).valid}

\* The rows of the listing, now.
Listed ==
    IF query.of = "transactions"
    THEN {x \in Transactions : MatchesFilters(query, x)}
    ELSE ImportErrors(query.job)

SortKey(q, x) == IF q.sort_by = "amount" THEN Row(x).amount ELSE Row(x).timestamp

\* Mutant: the errors have no ORDER BY.
UnorderedErrors(q, x, y) ==
    /\ q.of = "transactions"
    /\ IF q.sort_dir = "asc" THEN SortKey(q, x) < SortKey(q, y)
       ELSE SortKey(q, x) > SortKey(q, y)

\* ORDER BY puts x before y. Rows with the same key come in any order, and in
\* another one the next time.
Before(q, x, y) ==
    IF q.of = "errors" THEN x[2] < y[2]
    ELSE IF q.sort_dir = "asc" THEN SortKey(q, x) < SortKey(q, y)
    ELSE SortKey(q, x) > SortKey(q, y)

\* What the first n rows of a result may be.
FirstRows(q, rows, n) ==
    {A \in SUBSET rows :
        /\ Cardinality(A) = IF n <= Cardinality(rows) THEN n ELSE Cardinality(rows)
        /\ \A x \in A, y \in rows \ A : ~Before(q, y, x)}

\* Mutants: pages counted from 0, and pages that overlap by a row.
OffsetFromZero(n) == n * query.limit
OffsetOverlaps(n) == IF n = 1 THEN 0 ELSE (n - 1) * query.limit - 1
Offset(n) == (n - 1) * query.limit

\* OFFSET and LIMIT: what page n may hold.
Pages(rows, n) ==
    {P \in SUBSET rows :
        \E A \in FirstRows(query, rows, Offset(n)) :
            /\ A \cap P = {}
            /\ A \cup P \in FirstRows(query, rows, Offset(n) + query.limit)}

-----------------------------------------------------------------------------
Init ==
    /\ committed = [j \in Jobs |-> 0]
    /\ query \in Queries
    /\ pc = "new" /\ page = 0 /\ total = 0
    /\ items = {} /\ seen = {} /\ again = {} /\ atStart = {}

\* _commit_batch of the one worker that has the import: rows and errors appear
\* together, each once, and the checkpoint only grows.
CommitBatch(j) ==
    /\ committed[j] < Len(File[j])
    /\ LET next == committed[j] + BatchSize
       IN  committed' = [committed EXCEPT
             ![j] = IF next <= Len(File[j]) THEN next ELSE Len(File[j])]
    /\ UNCHANGED walkVars

\* The walk begins: nothing is read yet.
BeginWalk ==
    /\ pc = "new"
    /\ pc' = "request"
    /\ atStart' = Listed
    /\ UNCHANGED <<committed, query, page, total, items, seen, again>>

\* get_import_errors answers only for the client's own import.
CheckOwner ==
    /\ pc = "request"
    /\ pc' = IF query.of = "errors" /\ Owner[query.job] # query.client
             THEN "not found" ELSE "count"
    /\ UNCHANGED <<committed, query, page, total, items, seen, again, atStart>>

\* Mutant: the filters are not applied to count_stmt.
CountedUnfiltered == Cardinality(Transactions)
Counted == Cardinality(Listed)

Count ==
    /\ pc = "count"
    /\ total' = Counted
    /\ pc' = "select"
    /\ UNCHANGED <<committed, query, page, items, seen, again, atStart>>

\* The page is answered; the client goes on until a page is empty.
SelectPage ==
    /\ pc = "select"
    /\ page' = page + 1
    /\ \E rows \in Pages(Listed, page + 1) :
         /\ items' = rows
         /\ seen' = seen \cup rows
         /\ again' = again \cup (seen \cap rows)
         /\ pc' = IF rows = {} THEN "done" ELSE "request"
    /\ UNCHANGED <<committed, query, total, atStart>>

Next ==
    \/ \E j \in Jobs : CommitBatch(j)
    \/ BeginWalk \/ CheckOwner \/ Count \/ SelectPage

Spec == Init /\ [][Next]_vars

-----------------------------------------------------------------------------
(* Properties *)

\* Every variable has its type.
TypeOK ==
    /\ committed \in [Jobs -> Nat]
    /\ query \in Queries
    /\ pc \in {"new", "request", "count", "select", "done", "not found"}
    /\ page \in Nat /\ total \in Nat
    /\ items \cup seen \cup again \cup atStart \subseteq Jobs \X Nat

Answered == page > 0 /\ pc \in {"request", "done"}

\* The count runs before the page and rows are never deleted, so a page has at
\* least the rows its total promises, whatever is committed in between
\* (transaction_service.py 57-58, imports.py 67-78).
PageHoldsItsShare ==
    Answered =>
        \/ Cardinality(items) = query.limit
        \/ Cardinality(items) >= total - Offset(page)

\* The sort column tells the rows of the listing apart.
OrderIsTotal ==
    \A x, y \in Listed : x # y => Before(query, x, y) \/ Before(query, y, x)

\* Rows committed during a walk push the others to later pages, never to
\* earlier ones: a client that reads to the end has every row that was there
\* when it began, as long as the sort column is unique (transaction_service.py
\* 51-55, imports.py 70-76).
NothingSkipped == pc = "done" /\ OrderIsTotal => atStart \subseteq seen

\* A row is on two pages only if a row that sorts before it was committed
\* during the walk (same lines).
RepeatedOnlyIfPushed ==
    OrderIsTotal => \A x \in again :
        \E y \in Listed \ atStart : Before(query, y, x)

\* The error report can be read while its import runs: errors are only added
\* after the last one, so no row is on two pages (imports.py 70-76). This is
\* said of imports whose claim is not outlived; otherwise import_errors itself
\* has a row twice (import_worker.py 188-192).
ErrorsListedOnce == query.of = "errors" => again = {}
===============================================================================
