--------------------------- MODULE MCImportWorker ---------------------------
(***************************************************************************)
(* The file sets the runs of ImportWorker are checked on.                  *)
(***************************************************************************)
EXTENDS ImportWorker, TLC

CONSTANTS t1, t2

R(kind, tid) == [kind |-> kind, tid |-> tid]
Csv(rows) == [header |-> TRUE, rows |-> rows]

Symmetry == Permutations(Workers)

\* Between them: an invalid row, an id repeated within a batch, across
\* batches and across files, a failure in the first and in a later batch, a
\* missing column, and a row that is rejected unless it counts as a repetition:
\* only a worker that has forgotten the first batch sends it.
SafetyFiles ==
    {Csv(<<R("ok", t1), R("bad", t1), R("ok", t1)>>),
     Csv(<<R("ok", t2), R("ok", t2)>>),
     Csv(<<R("bad", t2), R("ok", t2), R("raise", t1)>>),
     Csv(<<R("ok", t1), R("ok", t2), R("unfit", t2)>>),
     [header |-> FALSE, rows |-> <<>>]}

\* Partial progress, an id shared by two files, a row Postgres rejects, a
\* repetition that would be rejected and a row the driver cannot send.
FaultyFiles ==
    {Csv(<<R("ok", t1), R("bad", t1), R("ok", t2)>>),
     Csv(<<R("bad", t2), R("ok", t2), R("raise", t1)>>),
     Csv(<<R("ok", t2), R("ok", t1), R("dberr", t1)>>),
     Csv(<<R("ok", t1), R("unfit", t1), R("unsent", t2)>>)}

\* A file of three rows: two batches.
PlainFile == {Csv(<<R("ok", t1), R("bad", t1), R("ok", t2)>>)}

\* A row whose transaction_id is too long for its column.
OverlongIdFile == {Csv(<<R("dberr", t1)>>)}
=============================================================================
