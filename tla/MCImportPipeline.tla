--------------------------- MODULE MCImportPipeline ---------------------------
(***************************************************************************)
(* Two uploads: of two files, of the same file twice, or under one key.    *)
(***************************************************************************)
EXTENDS ImportPipeline, TLC

CONSTANTS t1, t2, c1, k1

Symmetry == Permutations(Workers)

R(kind, tid) == [kind |-> kind, tid |-> tid]

\* A file of two batches, one that fails after its first batch, and one
\* without its columns.
Plain == [header |-> TRUE, rows |-> <<R("ok", t1), R("bad", t1), R("ok", t2)>>]
Poison == [header |-> TRUE, rows |-> <<R("ok", t2), R("ok", t1), R("raise", t1)>>]
NoColumns == [header |-> FALSE, rows |-> <<>>]
Uploaded == {Plain, Poison, NoColumns}

F(key, content) == [client |-> c1, key |-> key, content |-> content,
                    csv |-> TRUE, size |-> "fits"]
Uploads == {F(None, Plain), F(k1, Poison), F(None, NoColumns)}
SameKey == {F(None, Plain), F(k1, Plain), F(k1, Poison)}
===============================================================================
