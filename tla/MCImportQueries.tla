---------------------------- MODULE MCImportQueries ----------------------------
(***************************************************************************)
(* Two imports, of six and of three rows, with invalid rows in both, two   *)
(* equal amounts and no two equal timestamps.                              *)
(***************************************************************************)
EXTENDS ImportQueries

CONSTANTS j1, j2

T(account, type, timestamp, amount) ==
    [valid |-> TRUE, account_id |-> account, type |-> type,
     currency |-> IF amount = 3 THEN "USD" ELSE "EUR",
     timestamp |-> timestamp, amount |-> amount]
E == [valid |-> FALSE, account_id |-> "", type |-> "", currency |-> "",
      timestamp |-> 0, amount |-> 0]

Files == [j \in Jobs |->
    IF j = j1
    THEN <<T("a", "CREDIT", 3, 1), E, E, T("a", "DEBIT", 1, 2), E,
           T("b", "CREDIT", 5, 3)>>
    ELSE <<T("a", "CREDIT", 4, 2), E, T("b", "DEBIT", 2, 4)>>]

Owners == [j \in Jobs |-> IF j = j1 THEN "c1" ELSE "c2"]

Listing ==
    [of: {"transactions"}, account_id: {"", "a"}, type: {None, "CREDIT"},
     currency: {None, "EUR"}, date_from: {None, 2}, date_to: {None, 4},
     sort_by: {"timestamp", "amount"}, sort_dir: {"asc", "desc"},
     limit: {1, 2}]

ErrorReport ==
    [of: {"errors"}, job: {j1, j2}, client: {"c1"}, limit: {1, 2}]

AllQueries == Listing \cup ErrorReport
===============================================================================
