------------------------- MODULE ImportQueriesProofs -------------------------
(***************************************************************************)
(* What a client that walks through the pages of a listing may rely on,    *)
(* for any files, any page size and any query, while imports go on.        *)
(*                                                                         *)
(* The argument is about the rank of a row: how many rows of the listing   *)
(* sort before it. A commit only raises ranks.                             *)
(***************************************************************************)
EXTENDS ImportQueries, FiniteSetTheorems, FunctionTheorems, TLAPS

Earlier(q, rows, x) == {y \in rows : Before(q, y, x)}
Rank(q, rows, x) == Cardinality(Earlier(q, rows, x))

\* What every result of the listing satisfies.
Sortable(q, rows) == IsFiniteSet(rows) /\ \A x \in rows : ~Before(q, x, x)

Total(q, rows) ==
    \A x, y \in rows : x # y => Before(q, x, y) \/ Before(q, y, x)

-----------------------------------------------------------------------------
(* Prefixes and ranks *)

LEMMA RankType ==
    ASSUME NEW q, NEW rows, IsFiniteSet(rows), NEW x
    PROVE  /\ IsFiniteSet(Earlier(q, rows, x)) /\ Rank(q, rows, x) \in Nat
           /\ Cardinality(rows) \in Nat
<1>1. Earlier(q, rows, x) \in SUBSET rows BY DEF Earlier
<1>2. IsFiniteSet(Earlier(q, rows, x)) BY <1>1, FS_Subset
<1>3. QED BY <1>2, FS_CardinalityType DEF Rank

\* Ranks grow with the listing.
LEMMA RankGrows ==
    ASSUME NEW q, NEW rows, NEW more, IsFiniteSet(more), rows \subseteq more, NEW x
    PROVE  /\ Rank(q, rows, x) <= Rank(q, more, x)
           /\ \/ Rank(q, rows, x) = Rank(q, more, x)
              \/ \E y \in more \ rows : Before(q, y, x)
<1> DEFINE E == Earlier(q, rows, x)
           F == Earlier(q, more, x)
<1>1. E \in SUBSET F BY DEF Earlier
<1>2. IsFiniteSet(F) BY RankType
<1>3. E # F => \E y \in more \ rows : Before(q, y, x) BY DEF Earlier
<1> HIDE DEF E, F
<1>4. Cardinality(E) <= Cardinality(F) BY <1>1, <1>2, FS_Subset
<1>5. QED BY <1>3, <1>4 DEF Rank, E, F

LEMMA PrefixSize ==
    ASSUME NEW q, NEW rows, IsFiniteSet(rows), NEW n \in Nat,
           NEW A \in FirstRows(q, rows, n)
    PROVE  /\ IsFiniteSet(A) /\ Cardinality(A) \in Nat /\ A \subseteq rows
           /\ Cardinality(rows) \in Nat
           /\ Cardinality(A) <= n
           /\ n <= Cardinality(rows) => Cardinality(A) = n
           /\ ~(n <= Cardinality(rows)) => Cardinality(A) = Cardinality(rows)
           /\ A # rows => Cardinality(A) = n
<1>1. /\ A \in SUBSET rows
      /\ Cardinality(A) = IF n <= Cardinality(rows) THEN n ELSE Cardinality(rows)
  BY DEF FirstRows
<1>2. /\ IsFiniteSet(A)
      /\ Cardinality(rows) = Cardinality(A) => rows = A
  BY <1>1, FS_Subset
<1>3. Cardinality(A) \in Nat /\ Cardinality(rows) \in Nat
  BY <1>2, FS_CardinalityType
<1>4. QED BY <1>1, <1>2, <1>3

\* A row among the first n has fewer than n rows before it.
LEMMA RankInPrefix ==
    ASSUME NEW q, NEW rows, Sortable(q, rows), NEW n \in Nat,
           NEW A \in FirstRows(q, rows, n), NEW x \in A
    PROVE  Rank(q, rows, x) < n
<1> DEFINE E == Earlier(q, rows, x)
           B == A \ {x}
<1>1. /\ IsFiniteSet(A) /\ A \subseteq rows /\ Cardinality(A) <= n
      /\ Cardinality(A) \in Nat
  BY PrefixSize DEF Sortable
<1>2. E \in SUBSET B
  BY <1>1 DEF Earlier, Sortable, FirstRows
<1>3. IsFiniteSet(B) /\ Cardinality(B) = Cardinality(A) - 1
  BY <1>1, FS_RemoveElement
<1>4. Rank(q, rows, x) = Cardinality(E) /\ Rank(q, rows, x) \in Nat
  BY RankType DEF Rank, Sortable
<1> HIDE DEF E, B
<1>5. Cardinality(E) <= Cardinality(B)
  BY <1>2, <1>3, FS_Subset
<1>6. QED BY <1>1, <1>3, <1>4, <1>5

\* A row that is not among the first n has n rows before it.
LEMMA RankBeyondPrefix ==
    ASSUME NEW q, NEW rows, Sortable(q, rows), Total(q, rows), NEW n \in Nat,
           NEW A \in FirstRows(q, rows, n), NEW x \in rows \ A
    PROVE  Cardinality(A) = n /\ Rank(q, rows, x) >= n
<1> DEFINE E == Earlier(q, rows, x)
<1>1. Cardinality(A) = n /\ A \subseteq rows
  BY PrefixSize DEF Sortable
<1>2. A \in SUBSET E
  BY <1>1 DEF Earlier, Total, FirstRows
<1>3. IsFiniteSet(E) /\ Rank(q, rows, x) = Cardinality(E)
      /\ Rank(q, rows, x) \in Nat
  BY RankType DEF Rank, Sortable
<1> HIDE DEF E
<1>4. Cardinality(A) <= Cardinality(E)
  BY <1>2, <1>3, FS_Subset
<1>5. QED BY <1>1, <1>3, <1>4

\* A page of limit rows after the first n.
LEMMA PageSize ==
    ASSUME NEW q, NEW rows, IsFiniteSet(rows), NEW n \in Nat, NEW limit \in Nat,
           NEW A \in FirstRows(q, rows, n), NEW P, A \cap P = {},
           A \cup P \in FirstRows(q, rows, n + limit)
    PROVE  /\ IsFiniteSet(P) /\ P \subseteq rows /\ Cardinality(P) \in Nat
           /\ Cardinality(P) = limit \/ Cardinality(P) >= Cardinality(rows) - n
<1> DEFINE B == A \cup P
<1>1. /\ IsFiniteSet(A) /\ Cardinality(A) \in Nat /\ Cardinality(A) <= n
      /\ Cardinality(rows) \in Nat
      /\ n <= Cardinality(rows) => Cardinality(A) = n
  BY PrefixSize
<1>2. /\ IsFiniteSet(B) /\ Cardinality(B) \in Nat /\ B \subseteq rows
      /\ n + limit <= Cardinality(rows) => Cardinality(B) = n + limit
      /\ ~(n + limit <= Cardinality(rows)) => Cardinality(B) = Cardinality(rows)
  <2> HIDE DEF B
  <2>1. B \in FirstRows(q, rows, n + limit) /\ n + limit \in Nat
    BY DEF B
  <2>2. QED BY <2>1, PrefixSize
<1>3. IsFiniteSet(P) /\ P \subseteq rows
  BY <1>2, FS_Subset
<1>4. Cardinality(P) \in Nat
  BY <1>3, FS_CardinalityType
<1>5. Cardinality(B) = Cardinality(A) + Cardinality(P)
  <2>1. Cardinality(A \cap P) = 0
    BY FS_EmptySet
  <2>2. Cardinality(A \cup P)
          = Cardinality(A) + Cardinality(P) - Cardinality(A \cap P)
    BY <1>1, <1>3, FS_Union
  <2>3. QED BY <1>1, <1>4, <2>1, <2>2
<1> HIDE DEF B
<1>6. QED BY <1>1, <1>2, <1>3, <1>4, <1>5

-----------------------------------------------------------------------------
(* The listing *)

Progress ==
    /\ committed \in [Jobs -> Nat]
    /\ \A j \in Jobs : committed[j] <= Len(File[j])
    /\ query \in Queries /\ page \in Nat /\ total \in Nat
    /\ pc \in {"new", "request", "count", "select", "done", "not found"}
    /\ pc = "new" => page = 0 /\ seen = {} /\ again = {}
    /\ atStart \cup seen \cup again \cup items \subseteq Listed

\* The rows of a finite function's range.
LEMMA FiniteRange ==
    ASSUME NEW S, IsFiniteSet(S), NEW f, DOMAIN f = S, f = [x \in S |-> f[x]]
    PROVE  IsFiniteSet({f[x] : x \in S})
<1> DEFINE T == {f[x] : x \in S}
<1>1. f \in [S -> T] /\ \A t \in T : \E x \in S : f[x] = t
  OBVIOUS
<1> HIDE DEF T
<1>2. f \in Surjection(S, T)
  BY <1>1, Fun_IsSurj
<1>3. IsFiniteSet(T)
  BY <1>2, FS_Surjection
<1>4. QED BY <1>3 DEF T

LEMMA CommittedFinite ==
    ASSUME Progress, NEW j \in Jobs
    PROVE  /\ IsFiniteSet(Committed(j))
           /\ \A x \in Committed(j) :
                /\ x \in Jobs \X Nat /\ x[1] = j /\ x[2] \in 1..committed[j]
                /\ x = <<j, x[2]>> /\ Row(x) \in CsvRow
<1> DEFINE n == committed[j]
           f == [i \in 1..n |-> <<j, i>>]
<1>1. n \in Nat /\ n <= Len(File[j])
  BY DEF Progress
<1>a. File[j] \in Seq(CsvRow) /\ Len(File[j]) \in Nat
  BY QueriesAssumption
<1>2. IsFiniteSet(1..n)
  BY <1>1, FS_Interval
<1>3. Committed(j) = {f[i] : i \in 1..n}
  BY DEF Committed
<1>4. DOMAIN f = 1..n /\ f = [i \in 1..n |-> f[i]]
  OBVIOUS
<1>5. IsFiniteSet(Committed(j))
  <2> DEFINE S == 1..n
  <2> HIDE DEF f, S
  <2>1. IsFiniteSet(S) /\ DOMAIN f = S /\ f = [i \in S |-> f[i]]
    BY <1>2, <1>4 DEF S
  <2>2. IsFiniteSet({f[i] : i \in S})
    BY <2>1, FiniteRange
  <2>3. QED BY <1>3, <2>2 DEF S
<1>6. ASSUME NEW x \in Committed(j)
      PROVE  /\ x \in Jobs \X Nat /\ x[1] = j /\ x[2] \in 1..n
             /\ x = <<j, x[2]>> /\ Row(x) \in CsvRow
  <2>1. PICK i \in 1..n : x = <<j, i>>
    BY DEF Committed
  <2>2. i \in 1..Len(File[j]) /\ i \in Nat
    BY <1>1, <1>a
  <2>3. File[j][i] \in CsvRow
    BY <1>a, <2>2
  <2>4. QED BY <2>1, <2>2, <2>3 DEF Row
<1>7. QED BY <1>5, <1>6

\* The listing is finite, its rows have the columns that are compared, and an
\* error report is sorted by row number.
LEMMA ListedSortable ==
    ASSUME Progress
    PROVE  /\ Listed \subseteq Jobs \X Nat
           /\ Sortable(query, Listed)
           /\ query.of = "errors" => Total(query, Listed)
<1>1. /\ query.of \in {"transactions", "errors"}
      /\ query.of = "errors" => query.job \in Jobs
  BY QueriesAssumption DEF Progress
<1>2. CASE query.of = "transactions"
  <2> DEFINE f == [j \in Jobs |-> Committed(j)]
             U == {f[j] : j \in Jobs}
  <2>1. IsFiniteSet(U)
    <3>1. DOMAIN f = Jobs /\ f = [j \in Jobs |-> f[j]]
      OBVIOUS
    <3> HIDE DEF f
    <3>2. QED BY <3>1, QueriesAssumption, FiniteRange
  <2>2. \A T \in U : IsFiniteSet(T)
    BY CommittedFinite
  <2>3. UNION U = UNION {Committed(j) : j \in Jobs}
    OBVIOUS
  <2>4. IsFiniteSet(UNION U)
    <3> HIDE DEF U
    <3>1. QED BY <2>1, <2>2, FS_UNION
  <2>5. Listed \in SUBSET UNION U
    BY <1>2, <2>3 DEF Listed, Transactions
  <2>6. IsFiniteSet(Listed)
    <3> HIDE DEF U
    <3>1. QED BY <2>4, <2>5, FS_Subset
  <2>7. \A x \in Listed : x \in Jobs \X Nat /\ Row(x) \in CsvRow
    BY <2>3, <2>5, CommittedFinite
  <2>8. \A x \in Listed : ~Before(query, x, x)
    BY <1>2, <2>7 DEF Before, SortKey, CsvRow
  <2>9. QED BY <1>2, <2>6, <2>7, <2>8 DEF Sortable
<1>3. CASE query.of = "errors"
  <2>1. Listed \in SUBSET Committed(query.job)
    BY <1>3 DEF Listed, ImportErrors
  <2>2. IsFiniteSet(Listed)
    BY <1>1, <1>3, <2>1, CommittedFinite, FS_Subset
  <2>3. \A x \in Listed : x \in Jobs \X Nat /\ x[2] \in Nat
                          /\ x = <<query.job, x[2]>>
    BY <1>1, <1>3, <2>1, CommittedFinite
  <2>4. \A x \in Listed : ~Before(query, x, x)
    BY <1>3, <2>3 DEF Before
  <2>5. Total(query, Listed)
    <3> SUFFICES ASSUME NEW x \in Listed, NEW y \in Listed, x # y
                 PROVE  Before(query, x, y) \/ Before(query, y, x)
      BY DEF Total
    <3>1. x[2] # y[2] /\ x[2] \in Nat /\ y[2] \in Nat
      BY <2>3
    <3>2. QED BY <1>3, <3>1 DEF Before
  <2>6. QED BY <2>2, <2>3, <2>4, <2>5 DEF Sortable
<1>4. QED BY <1>1, <1>2, <1>3

LEMMA AlwaysSortable == Progress => Sortable(query, Listed)
BY ListedSortable

\* A commit adds rows; errors are added behind those there are.
LEMMA ListedGrows ==
    ASSUME Progress, NEW j \in Jobs, CommitBatch(j)
    PROVE  /\ committed' \in [Jobs -> Nat]
           /\ \A k \in Jobs : committed'[k] <= Len(File[k])
           /\ Listed \subseteq Listed'
           /\ query.of = "errors" =>
                \A x \in Listed, y \in Listed' \ Listed : ~Before(query, y, x)
<1>1. \A k \in Jobs : /\ Len(File[k]) \in Nat /\ committed[k] \in Nat
                      /\ committed[k] <= Len(File[k])
  <2>1. \A k \in Jobs : File[k] \in Seq(CsvRow)
    BY QueriesAssumption
  <2>2. \A k \in Jobs : Len(File[k]) \in Nat
    BY <2>1
  <2>3. \A k \in Jobs : committed[k] \in Nat /\ committed[k] <= Len(File[k])
    BY DEF Progress
  <2>4. QED BY <2>2, <2>3
<1>2. /\ query' = query /\ committed' \in [Jobs -> Nat]
      /\ \A k \in Jobs : /\ committed'[k] <= Len(File[k])
                         /\ committed[k] <= committed'[k]
  <2> DEFINE next == committed[j] + BatchSize
             to == IF next <= Len(File[j]) THEN next ELSE Len(File[j])
  <2>1. /\ to \in Nat /\ to <= Len(File[j]) /\ committed[j] <= to
    BY <1>1, QueriesAssumption
  <2>2. query' = query /\ committed' = [committed EXCEPT ![j] = to]
    BY DEF CommitBatch, walkVars
  <2> HIDE DEF to
  <2>3. committed \in [Jobs -> Nat]
    BY DEF Progress
  <2>4. /\ committed' \in [Jobs -> Nat] /\ committed'[j] = to
        /\ \A k \in Jobs \ {j} : committed'[k] = committed[k]
    BY <2>1, <2>2, <2>3
  <2>5. QED BY <1>1, <2>1, <2>2, <2>4
<1>3. ASSUME NEW k \in Jobs
      PROVE  /\ Committed(k) \subseteq Committed(k)'
             /\ \A x \in Committed(k), y \in Committed(k)' \ Committed(k) :
                  ~(y[2] < x[2])
  <2>1. ASSUME NEW i \in 1..committed[k] PROVE <<k, i>> \in Committed(k)'
    <3>1. i \in 1..committed'[k]
      BY <1>1, <1>2
    <3>2. QED BY <3>1 DEF Committed
  <2>2. ASSUME NEW x \in Committed(k), NEW y \in Committed(k)' \ Committed(k)
        PROVE  ~(y[2] < x[2])
    <3>1. PICK i \in 1..committed[k] : x = <<k, i>>
      BY DEF Committed
    <3>2. PICK m \in 1..committed'[k] : y = <<k, m>>
      BY DEF Committed
    <3>3. m \notin 1..committed[k]
      BY <3>2 DEF Committed
    <3>4. ~(m < i)
      BY <1>1, <1>2, <3>3
    <3>5. QED BY <3>1, <3>2, <3>4
  <2>3. QED BY <2>1, <2>2 DEF Committed
<1>4. /\ query.of \in {"transactions", "errors"}
      /\ query.of = "errors" => query.job \in Jobs
  BY QueriesAssumption DEF Progress
<1>5. CASE query.of = "transactions"
  <2>1. Transactions \subseteq Transactions'
    BY <1>3 DEF Transactions
  <2>2. QED BY <1>2, <1>5, <2>1 DEF Listed, MatchesFilters
<1>6. CASE query.of = "errors"
  <2>1. Listed = ImportErrors(query.job) /\ Listed' = ImportErrors(query.job)'
    BY <1>2, <1>6 DEF Listed
  <2> PICK J \in Jobs : J = query.job
    BY <1>4, <1>6
  <2>2. /\ Listed = {x \in Committed(J) : ~Row(x).valid}
        /\ Listed' = {x \in Committed(J)' : ~Row(x).valid}
    BY <1>2, <2>1 DEF ImportErrors, Committed
  <2>3. QED BY <1>2, <1>3, <1>6, <2>2 DEF Before
<1>7. QED BY <1>4, <1>5, <1>6

-----------------------------------------------------------------------------
(* The walk *)

\* How many rows the pages received so far stand for.
Read == page * query.limit

\* A row that sorts before x has come since the walk began.
Pushed(x) == \E y \in Listed \ atStart : Before(query, y, x)

\* A row that was on a page has a rank below Read, unless it was pushed; the
\* rows of an error report never are.
ReadRows ==
    \A x \in seen : /\ Rank(query, Listed, x) < Read \/ Pushed(x)
                    /\ query.of = "errors" => Rank(query, Listed, x) < Read

\* A row that was there and was on no page yet is still to come.
UnreadRows ==
    pc # "new" /\ OrderIsTotal =>
        \A x \in atStart \ seen : Rank(query, Listed, x) >= Read

WalkInv ==
    /\ Progress /\ ReadRows /\ UnreadRows
    /\ pc = "select" => total <= Cardinality(Listed)
    /\ PageHoldsItsShare /\ NothingSkipped /\ RepeatedOnlyIfPushed
    /\ ErrorsListedOnce

\* The ranks of the rows on a page, and of those that are not on it.
LEMMA PageRanks ==
    ASSUME NEW q, NEW rows, Sortable(q, rows), NEW n \in Nat,
           NEW limit \in Nat \ {0},
           NEW A \in FirstRows(q, rows, n), NEW P, A \cap P = {},
           A \cup P \in FirstRows(q, rows, n + limit)
    PROVE  /\ \A x \in P : Rank(q, rows, x) < n + limit
           /\ Total(q, rows) =>
                /\ \A x \in P : Rank(q, rows, x) >= n
                /\ \A x \in rows \ P :
                     Rank(q, rows, x) < n \/ Rank(q, rows, x) >= n + limit
                /\ P = {} => \A x \in rows : Rank(q, rows, x) < n
<1> DEFINE B == A \cup P
<1>1. n + limit \in Nat
  OBVIOUS
<1>2. A \subseteq rows /\ P \subseteq rows
  BY DEF FirstRows
<1>3. \A x \in A : Rank(q, rows, x) < n
  BY RankInPrefix
<1>4. Total(q, rows) =>
        \A x \in rows \ A : Cardinality(A) = n /\ Rank(q, rows, x) >= n
  BY RankBeyondPrefix
<1>5. \A x \in B : Rank(q, rows, x) < n + limit
  <2> HIDE DEF B
  <2>1. B \in FirstRows(q, rows, n + limit) BY DEF B
  <2>2. QED BY <1>1, <2>1, RankInPrefix
<1>6. Total(q, rows) =>
        \A x \in rows \ B : /\ Cardinality(B) = n + limit
                            /\ Rank(q, rows, x) >= n + limit
  <2> HIDE DEF B
  <2>1. B \in FirstRows(q, rows, n + limit) BY DEF B
  <2>2. QED BY <1>1, <2>1, RankBeyondPrefix
<1>7. ASSUME Total(q, rows), P = {}, NEW x \in rows PROVE Rank(q, rows, x) < n
  <2>1. B = A BY <1>7
  <2>2. n # n + limit OBVIOUS
  <2>3. x \in A BY <1>4, <1>6, <1>7, <2>1, <2>2
  <2>4. QED BY <1>3, <2>3
<1>8. QED BY <1>2, <1>3, <1>4, <1>5, <1>6, <1>7

LEMMA WalkInit == Init => WalkInv
<1> SUFFICES ASSUME Init PROVE WalkInv
  OBVIOUS
<1>1. \A j \in Jobs : Len(File[j]) \in Nat
  <2>1. \A j \in Jobs : File[j] \in Seq(CsvRow) BY QueriesAssumption
  <2>2. QED BY <2>1
<1>2. Progress
  BY <1>1 DEF Init, Progress
<1>3. QED
  BY <1>2 DEF Init, WalkInv, ReadRows, UnreadRows, PageHoldsItsShare, Answered,
              NothingSkipped, RepeatedOnlyIfPushed, ErrorsListedOnce

LEMMA WalkCommit ==
    ASSUME WalkInv, NEW j \in Jobs, CommitBatch(j)
    PROVE  WalkInv'
<1> DEFINE L == Listed
           M == Listed'
<1>1. /\ Progress /\ UNCHANGED <<query, pc, page, total, items, seen, again, atStart>>
  BY DEF WalkInv, CommitBatch, walkVars
<1>2. /\ committed' \in [Jobs -> Nat]
      /\ \A k \in Jobs : committed'[k] <= Len(File[k])
      /\ L \subseteq M
      /\ query.of = "errors" => \A x \in L, y \in M \ L : ~Before(query, y, x)
  BY <1>1, ListedGrows
<1>3. Progress'
  BY <1>1, <1>2 DEF Progress
<1>4. Sortable(query, L) /\ Sortable(query, M)
  <2>1. (Sortable(query, Listed))'
    BY <1>3, AlwaysSortable, PTL
  <2>2. Sortable(query, M)
    BY <1>1, <2>1 DEF Sortable
  <2>3. QED BY <1>1, <2>2, AlwaysSortable
<1>5. atStart \cup seen \cup again \subseteq L
  BY <1>1 DEF Progress
<1>6. OrderIsTotal' => OrderIsTotal
  BY <1>1, <1>2 DEF OrderIsTotal
<1> HIDE DEF L, M
<1>7. \A x \in L :
        /\ Rank(query, L, x) \in Nat /\ Rank(query, M, x) \in Nat
        /\ Rank(query, L, x) <= Rank(query, M, x)
        /\ \/ Rank(query, L, x) = Rank(query, M, x)
           \/ \E y \in M \ L : Before(query, y, x)
  BY <1>2, <1>4, RankGrows, RankType DEF Sortable
<1>8. Read \in Int /\ Read' = Read
  <2>1. query.limit \in Nat /\ page \in Nat
    BY <1>1, QueriesAssumption DEF Progress
  <2>2. QED BY <1>1, <2>1 DEF Read
<1>9. ReadRows'
  <2> SUFFICES ASSUME NEW x \in seen
               PROVE  /\ Rank(query, M, x) < Read \/ Pushed(x)'
                      /\ query.of = "errors" => Rank(query, M, x) < Read
    BY <1>1, <1>8 DEF ReadRows, M
  <2>1. x \in L /\ (Rank(query, L, x) < Read \/ Pushed(x))
        /\ (query.of = "errors" => Rank(query, L, x) < Read)
    BY <1>5 DEF WalkInv, ReadRows, L
  <2>2. Pushed(x) => Pushed(x)'
    BY <1>1, <1>2 DEF Pushed, L, M
  <2>3. (\E y \in M \ L : Before(query, y, x)) => Pushed(x)'
    BY <1>1, <1>5 DEF Pushed, L, M
  <2>4. QED BY <1>2, <1>7, <2>1, <2>2, <2>3
<1>10. UnreadRows'
  <2> SUFFICES ASSUME pc # "new", OrderIsTotal, NEW x \in atStart \ seen
               PROVE  Rank(query, M, x) >= Read
    BY <1>1, <1>6, <1>8 DEF UnreadRows, M
  <2>1. x \in L /\ Rank(query, L, x) >= Read
    BY <1>5 DEF WalkInv, UnreadRows, L
  <2>2. QED BY <1>7, <1>8, <2>1
<1>11. pc' = "select" => total' <= Cardinality(M)
  <2>1. IsFiniteSet(M) /\ L \in SUBSET M
    BY <1>2, <1>4 DEF Sortable
  <2>2. Cardinality(L) <= Cardinality(M) /\ IsFiniteSet(L)
    BY <2>1, FS_Subset
  <2>3. Cardinality(L) \in Nat /\ Cardinality(M) \in Nat
    BY <2>1, <2>2, FS_CardinalityType
  <2>4. pc = "select" => total <= Cardinality(L)
    BY DEF WalkInv, L
  <2>5. total \in Nat
    BY <1>1 DEF Progress
  <2>6. QED BY <1>1, <2>2, <2>3, <2>4, <2>5
<1>12. PageHoldsItsShare'
  BY <1>1 DEF WalkInv, PageHoldsItsShare, Answered, Offset
<1>13. NothingSkipped'
  BY <1>1, <1>6 DEF WalkInv, NothingSkipped
<1>14. RepeatedOnlyIfPushed'
  <2>1. ASSUME OrderIsTotal', NEW x \in again
        PROVE  \E y \in M \ atStart : Before(query, y, x)
    <3>1. PICK y \in L \ atStart : Before(query, y, x)
      BY <1>6, <2>1 DEF WalkInv, RepeatedOnlyIfPushed, L
    <3>2. QED BY <1>2, <3>1
  <2>2. QED BY <1>1, <2>1 DEF RepeatedOnlyIfPushed, M
<1>15. ErrorsListedOnce'
  BY <1>1 DEF WalkInv, ErrorsListedOnce
<1>16. QED
  BY <1>3, <1>9, <1>10, <1>11, <1>12, <1>13, <1>14, <1>15 DEF WalkInv, M

LEMMA WalkSelect ==
    ASSUME WalkInv, SelectPage
    PROVE  WalkInv'
<1> DEFINE L == Listed
           n == Read
           limit == query.limit
<1>1. /\ Progress /\ pc = "select" /\ page' = page + 1 /\ page \in Nat
      /\ UNCHANGED <<committed, query, total, atStart>>
      /\ limit \in Nat \ {0} /\ total \in Nat
  BY QueriesAssumption DEF WalkInv, SelectPage, Progress
<1>2. PICK P \in Pages(L, page + 1) :
        /\ items' = P /\ seen' = seen \cup P
        /\ again' = again \cup (seen \cap P)
        /\ pc' = IF P = {} THEN "done" ELSE "request"
  BY DEF SelectPage
<1>3. /\ n \in Nat /\ Read' = n + limit
      /\ Offset(page + 1) = n /\ Offset(page)' = n
  <2>1. n \in Nat
    BY <1>1 DEF Read
  <2>2. (page + 1) * limit = page * limit + limit
    BY <1>1
  <2>3. (page + 1) - 1 = page
    BY <1>1
  <2>4. Read' = n + limit
    BY <1>1, <2>2 DEF Read
  <2>5. Offset(page + 1) = n
    BY <2>3 DEF Read, Offset
  <2>6. Offset(page)' = n
    BY <1>1, <2>3 DEF Read, Offset
  <2>7. QED BY <2>1, <2>4, <2>5, <2>6
<1>4. PICK A \in FirstRows(query, L, n) :
        A \cap P = {} /\ A \cup P \in FirstRows(query, L, n + limit)
  BY <1>2, <1>3 DEF Pages
<1>5. Sortable(query, L) /\ P \subseteq L
  BY <1>1, <1>2, AlwaysSortable DEF Pages
<1>6. Listed' = L
  BY <1>1 DEF Listed, Transactions, ImportErrors, Committed, MatchesFilters
<1>7. atStart \cup seen \cup again \subseteq L
  BY <1>1 DEF Progress
<1>8. OrderIsTotal <=> Total(query, L)
  BY DEF OrderIsTotal, Total
<1>9. OrderIsTotal' <=> OrderIsTotal
  BY <1>1, <1>6 DEF OrderIsTotal
<1>10. Progress'
  BY <1>1, <1>2, <1>5, <1>6, <1>7 DEF Progress
<1> HIDE DEF L, n, limit
<1>11. /\ \A x \in P : Rank(query, L, x) < n + limit
       /\ Total(query, L) =>
            /\ \A x \in P : Rank(query, L, x) >= n
            /\ \A x \in L \ P :
                 Rank(query, L, x) < n \/ Rank(query, L, x) >= n + limit
            /\ P = {} => \A x \in L : Rank(query, L, x) < n
  BY <1>1, <1>3, <1>4, <1>5, PageRanks
<1>12. \A x \in L : Rank(query, L, x) \in Nat
  BY <1>5, RankType DEF Sortable
<1>13. \A x : Pushed(x)' <=> Pushed(x)
  BY <1>1, <1>6 DEF Pushed, L
<1>14. \A x \in seen : /\ Rank(query, L, x) < n \/ Pushed(x)
                       /\ query.of = "errors" => Rank(query, L, x) < n
  BY DEF WalkInv, ReadRows, L, n
<1>15. ReadRows'
  <2>1. ASSUME NEW x \in seen'
        PROVE  /\ Rank(query, L, x) < n + limit \/ Pushed(x)
               /\ query.of = "errors" => Rank(query, L, x) < n + limit
    <3>1. CASE x \in P
      BY <1>11, <3>1
    <3>2. CASE x \in seen
      BY <1>1, <1>3, <1>7, <1>12, <1>14, <3>2
    <3>3. QED BY <1>2, <3>1, <3>2
  <2>2. QED BY <1>1, <1>3, <1>6, <1>13, <2>1 DEF ReadRows
<1>16. OrderIsTotal => \A x \in atStart \ seen : Rank(query, L, x) >= n
  BY <1>1 DEF WalkInv, UnreadRows, L, n
<1>17. UnreadRows'
  <2>1. ASSUME OrderIsTotal, NEW x \in atStart \ seen'
        PROVE  Rank(query, L, x) >= n + limit
    <3>1. x \in atStart \ seen /\ x \in L \ P
      BY <1>2, <1>7, <2>1
    <3>2. QED BY <1>3, <1>8, <1>11, <1>12, <1>16, <2>1, <3>1
  <2>2. QED BY <1>1, <1>3, <1>6, <1>9, <2>1 DEF UnreadRows
<1>18. NothingSkipped'
  <2>1. ASSUME pc' = "done", OrderIsTotal, NEW x \in atStart PROVE x \in seen
    <3>1. P = {}
      BY <1>2, <2>1
    <3>2. x \in L /\ Rank(query, L, x) < n
      BY <1>7, <1>8, <1>11, <2>1, <3>1
    <3>3. QED BY <1>3, <1>12, <1>16, <2>1, <3>2
  <2>2. QED BY <1>1, <1>2, <1>9, <2>1 DEF NothingSkipped
<1>19. ASSUME OrderIsTotal, NEW x \in seen \cap P
       PROVE  Pushed(x) /\ query.of # "errors"
  <2>1. Rank(query, L, x) >= n /\ Rank(query, L, x) \in Nat
    BY <1>5, <1>8, <1>11, <1>12, <1>19
  <2>2. ~(Rank(query, L, x) < n)
    BY <1>3, <2>1
  <2>3. QED BY <1>14, <2>2
<1>20. RepeatedOnlyIfPushed'
  <2>1. ASSUME OrderIsTotal, NEW x \in again'
        PROVE  \E y \in L \ atStart : Before(query, y, x)
    <3>1. CASE x \in again
      BY <2>1, <3>1 DEF WalkInv, RepeatedOnlyIfPushed, L
    <3>2. CASE x \in seen \cap P
      BY <1>19, <2>1, <3>2 DEF Pushed, L
    <3>3. QED BY <1>2, <3>1, <3>2
  <2>2. QED BY <1>1, <1>6, <1>9, <2>1 DEF RepeatedOnlyIfPushed
<1>21. ErrorsListedOnce'
  <2>1. ASSUME query.of = "errors" PROVE again' = {}
    <3>1. OrderIsTotal
      BY <1>1, <1>8, <2>1, ListedSortable DEF L
    <3>2. seen \cap P = {}
      BY <1>19, <2>1, <3>1
    <3>3. QED BY <1>2, <2>1, <3>2 DEF WalkInv, ErrorsListedOnce
  <2>2. QED BY <1>1, <2>1 DEF ErrorsListedOnce
<1>22. PageHoldsItsShare'
  <2>1. IsFiniteSet(L) /\ limit \in Nat
    BY <1>1, <1>5 DEF Sortable
  <2>2. /\ Cardinality(P) \in Nat
        /\ Cardinality(P) = limit \/ Cardinality(P) >= Cardinality(L) - n
    BY <1>3, <1>4, <2>1, PageSize
  <2>3. total <= Cardinality(L) /\ Cardinality(L) \in Nat
    BY <1>1, <2>1, FS_CardinalityType DEF WalkInv, L
  <2>4. Cardinality(P) = limit \/ Cardinality(P) >= total - n
    BY <1>1, <1>3, <2>2, <2>3
  <2>5. QED BY <1>1, <1>2, <1>3, <2>4 DEF PageHoldsItsShare, limit
<1>23. pc' # "select"
  BY <1>2
<1>24. QED
  BY <1>10, <1>15, <1>17, <1>18, <1>20, <1>21, <1>22, <1>23 DEF WalkInv

LEMMA WalkNext == WalkInv /\ [Next]_vars => WalkInv'
<1> SUFFICES ASSUME WalkInv, [Next]_vars PROVE WalkInv'
  OBVIOUS
<1>1. Progress /\ page \in Nat /\ query.limit \in Nat
  BY QueriesAssumption DEF WalkInv, Progress
<1>2. ASSUME UNCHANGED <<committed, query, page, items, seen, again, atStart>>,
             pc # "new",
             pc' \in {"request", "count", "select", "done", "not found"},
             total' = total \/ (total' = Counted /\ pc' = "select"),
             pc' = "select" => pc = "select" \/ total' = Counted,
             pc' \in {"request", "done"} => pc' = pc /\ total' = total
      PROVE  WalkInv'
  <2>1. Listed' = Listed
    <3>1. committed' = committed /\ query' = query
      BY <1>2
    <3>2. QED
      BY <3>1 DEF Listed, Transactions, ImportErrors, Committed, MatchesFilters
  <2>2. IsFiniteSet(Listed) /\ Cardinality(Listed) \in Nat
    BY <1>1, AlwaysSortable, FS_CardinalityType DEF Sortable
  <2>3. Progress'
    BY <1>1, <1>2, <2>1, <2>2 DEF Progress, Counted
  <2>4. ReadRows'
    BY <1>2, <2>1 DEF WalkInv, ReadRows, Read, Pushed
  <2>5. UnreadRows'
    BY <1>2, <2>1 DEF WalkInv, UnreadRows, Read, OrderIsTotal
  <2>6. pc' = "select" => total' <= Cardinality(Listed)
    BY <1>2, <2>2 DEF WalkInv, Counted
  <2>7. PageHoldsItsShare'
    BY <1>2 DEF WalkInv, PageHoldsItsShare, Answered, Offset
  <2>8. NothingSkipped' /\ RepeatedOnlyIfPushed' /\ ErrorsListedOnce'
    BY <1>2, <2>1 DEF WalkInv, NothingSkipped, RepeatedOnlyIfPushed,
                      ErrorsListedOnce, OrderIsTotal
  <2>9. QED BY <2>1, <2>3, <2>4, <2>5, <2>6, <2>7, <2>8 DEF WalkInv
<1>3. CASE CheckOwner
  BY <1>2, <1>3 DEF CheckOwner
<1>4. CASE Count
  BY <1>2, <1>4 DEF Count
<1>5. CASE BeginWalk
  <2>1. /\ pc = "new" /\ page = 0 /\ seen = {} /\ again = {} /\ pc' = "request"
        /\ atStart' = Listed
        /\ UNCHANGED <<committed, query, page, total, items, seen, again>>
    BY <1>1, <1>5 DEF BeginWalk, Progress
  <2>2. Listed' = Listed
    BY <2>1 DEF Listed, Transactions, ImportErrors, Committed, MatchesFilters
  <2>3. IsFiniteSet(Listed)
    BY <1>1, AlwaysSortable DEF Sortable
  <2>4. Progress'
    BY <1>1, <2>1, <2>2 DEF Progress
  <2>5. Read' = 0
    BY <1>1, <2>1 DEF Read
  <2>6. \A x : Rank(query, Listed, x) \in Nat
    BY <2>3, RankType
  <2>7. UnreadRows'
    BY <2>1, <2>2, <2>5, <2>6 DEF UnreadRows
  <2>8. ReadRows' /\ RepeatedOnlyIfPushed' /\ ErrorsListedOnce' /\ NothingSkipped'
    BY <2>1 DEF ReadRows, RepeatedOnlyIfPushed, ErrorsListedOnce, NothingSkipped
  <2>9. PageHoldsItsShare' /\ pc' # "select"
    BY <2>1 DEF PageHoldsItsShare, Answered
  <2>10. QED BY <2>4, <2>7, <2>8, <2>9 DEF WalkInv
<1>6. CASE UNCHANGED vars
  <2>1. CASE pc # "new"
    BY <1>1, <1>2, <1>6, <2>1 DEF vars, Progress
  <2>2. CASE pc = "new"
    <3>1. UNCHANGED <<committed, query, pc, page, total, items, seen, again, atStart>>
      BY <1>6 DEF vars
    <3>2. Listed' = Listed
      BY <3>1 DEF Listed, Transactions, ImportErrors, Committed, MatchesFilters
    <3>3. Progress'
      BY <1>1, <3>1, <3>2 DEF Progress
    <3>4. seen' = {} /\ again' = {} /\ page' = 0 /\ pc' = "new"
      BY <1>1, <2>2, <3>1 DEF Progress
    <3>5. QED
      BY <3>3, <3>4 DEF WalkInv, ReadRows, UnreadRows, PageHoldsItsShare,
         Answered, NothingSkipped, RepeatedOnlyIfPushed, ErrorsListedOnce
  <2>3. QED BY <2>1, <2>2
<1>7. QED
  BY <1>3, <1>4, <1>5, <1>6, WalkCommit, WalkSelect DEF Next

\* Every variable has its type, and nothing is on a page that is not listed.
THEOREM QueriesTypeCorrect == Spec => []TypeOK
<1>1. ASSUME WalkInv PROVE TypeOK
  <2>1. Listed \subseteq Jobs \X Nat
    BY <1>1, ListedSortable DEF WalkInv
  <2>2. QED BY <1>1, <2>1 DEF WalkInv, Progress, TypeOK
<1>2. QED BY <1>1, WalkInit, WalkNext, PTL DEF Spec

\* A page has at least the rows its total promises, whatever is committed
\* between the count and the SELECT.
THEOREM PagesKeepTheirPromise == Spec => []PageHoldsItsShare
<1>1. WalkInv => PageHoldsItsShare BY DEF WalkInv
<1>2. QED BY <1>1, WalkInit, WalkNext, PTL DEF Spec

\* A client that reads to the end has every row that was there when it began,
\* however many rows are committed meanwhile, if the sort column is unique.
THEOREM WalkIsComplete == Spec => []NothingSkipped
<1>1. WalkInv => NothingSkipped BY DEF WalkInv
<1>2. QED BY <1>1, WalkInit, WalkNext, PTL DEF Spec

\* With a unique sort column, a row is on two pages only if a row that sorts
\* before it was committed during the walk.
THEOREM OnlyPushedRowsRepeat == Spec => []RepeatedOnlyIfPushed
<1>1. WalkInv => RepeatedOnlyIfPushed BY DEF WalkInv
<1>2. QED BY <1>1, WalkInit, WalkNext, PTL DEF Spec

\* The error report of a running import can be read page by page: no row is on
\* two pages.
THEOREM ErrorReportReadsOnce == Spec => []ErrorsListedOnce
<1>1. WalkInv => ErrorsListedOnce BY DEF WalkInv
<1>2. QED BY <1>1, WalkInit, WalkNext, PTL DEF Spec

=============================================================================
