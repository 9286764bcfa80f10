----------------------------- MODULE MCImportApi -----------------------------
(***************************************************************************)
(* The requests the runs of ImportApi are checked on.                      *)
(***************************************************************************)
EXTENDS ImportApi, TLC

CONSTANTS c1, c2, k1, f1, f2

Req(client, key, content) ==
    [client |-> client, key |-> key, content |-> content, csv |-> TRUE,
     size |-> "fits"]

Symmetry == Permutations(Requests)

\* With and without a key, the same and another content; two clients.
Retries == {Req(c1, k1, f1), Req(c1, k1, f2), Req(c1, None, f1),
            Req(c1, None, f2), Req(c2, None, f1)}

\* These, and everything that is refused.
Uploads ==
    Retries \cup {[Req(c1, k1, f1) EXCEPT !.size = "too_large"],
                  [Req(c1, k1, f1) EXCEPT !.size = "empty"],
                  [Req(c1, k1, f1) EXCEPT !.csv = FALSE]}

OneRequest == {Req(c1, k1, f1)}
=============================================================================
