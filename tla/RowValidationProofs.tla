-------------------------- MODULE RowValidationProofs --------------------------
(***************************************************************************)
(* What becomes of a row, for every row and every width of the columns.    *)
(*                                                                         *)
(* validate_row and the schema know of each other only by agreement: the   *)
(* test `exponent < -2` and Numeric(18, 2) speak of the same number of     *)
(* decimal places, and the messages that quote nothing fit String(1024).   *)
(* ColumnsAgree is that agreement. Without it the theorems are false: with *)
(* one decimal place in the column, 0.05 would be rounded.                 *)
(***************************************************************************)
EXTENDS RowValidation, TLAPS

ColumnsAgree == Scale = 2 /\ Wording <= ErrorLength

-----------------------------------------------------------------------------
(* The tests of validate_row *)

\* The condition of a test.
LEMMA Condition ==
    ASSUME NEW c, NEW p, NEW t, c = [when |-> p, then |-> t]
    PROVE  c.when = p
OBVIOUS

\* The tests one by one: the condition of each, and what follows from it.
LEMMA CheckList ==
    ASSUME NEW r
    PROVE  /\ DOMAIN Checks(r) = 1..11
           /\ Checks(r)[1].when <=> r.transaction_id.len = 0
           /\ Checks(r)[2].when <=> r.account_id.len = 0
           /\ Checks(r)[3].when <=> TypeOf(r) \notin ALLOWED_TYPES
           /\ \A i \in 1..5 : Checks(r)[i + 3] = AmountChecks(r.amount)[i]
           /\ Checks(r)[9].when <=> CurrencyOf(r) \notin ThreeLetters
           /\ Checks(r)[10].when <=> CurrencyOf(r) \notin COMMON_CURRENCIES
           /\ Checks(r)[11].when <=> r.timestamp.kind = "garbage"
           /\ \A i \in {1, 2, 10} : Checks(r)[i].then = Reject(Fixed)
           /\ Checks(r)[3].then = Reject(Quoting(r.type.text))
           /\ Checks(r)[9].then = Reject(Quoting(r.currency.text))
           /\ Checks(r)[11].then = Reject(Quoting(r.timestamp.text))
<1>1. DOMAIN Checks(r) = 1..11
  BY DEF Checks, AmountChecks
<1>2. \A i \in 1..5 : Checks(r)[i + 3] = AmountChecks(r.amount)[i]
  BY DEF Checks, AmountChecks
<1>3. /\ Checks(r)[1] = [when |-> r.transaction_id.len = 0, then |-> Reject(Fixed)]
      /\ Checks(r)[2] = [when |-> r.account_id.len = 0, then |-> Reject(Fixed)]
      /\ Checks(r)[3] = [when |-> TypeOf(r) \notin ALLOWED_TYPES,
                         then |-> Reject(Quoting(r.type.text))]
  BY DEF Checks, AmountChecks
<1>4. /\ Checks(r)[9] = [when |-> CurrencyOf(r) \notin ThreeLetters,
                         then |-> Reject(Quoting(r.currency.text))]
      /\ Checks(r)[10] = [when |-> CurrencyOf(r) \notin COMMON_CURRENCIES,
                          then |-> Reject(Fixed)]
      /\ Checks(r)[11] = [when |-> r.timestamp.kind = "garbage",
                          then |-> Reject(Quoting(r.timestamp.text))]
  BY DEF Checks, AmountChecks
<1>5. /\ Checks(r)[1].when <=> r.transaction_id.len = 0
      /\ Checks(r)[2].when <=> r.account_id.len = 0
      /\ Checks(r)[3].when <=> TypeOf(r) \notin ALLOWED_TYPES
  BY <1>3, Condition, Zenon
<1>6. /\ Checks(r)[9].when <=> CurrencyOf(r) \notin ThreeLetters
      /\ Checks(r)[10].when <=> CurrencyOf(r) \notin COMMON_CURRENCIES
      /\ Checks(r)[11].when <=> r.timestamp.kind = "garbage"
  <2>1. Checks(r)[9].when <=> CurrencyOf(r) \notin ThreeLetters
    BY <1>4, Condition, Zenon
  <2>2. Checks(r)[10].when <=> CurrencyOf(r) \notin COMMON_CURRENCIES
    BY <1>4, Condition, Zenon
  <2> DEFINE c == Checks(r)[11]
             t == r.timestamp.kind
             then == Reject(Quoting(r.timestamp.text))
  <2>3. c = [when |-> t = "garbage", then |-> then]
    BY <1>4
  <2> HIDE DEF c, t, then
  <2>4. c.when <=> t = "garbage"
    BY <2>3, Condition, Zenon
  <2>5. QED BY <2>1, <2>2, <2>4 DEF c, t
<1>7. QED BY <1>1, <1>2, <1>3, <1>4, <1>5, <1>6

LEMMA AmountCheckList ==
    ASSUME NEW a
    PROVE  LET c == AmountChecks(a)
           IN  /\ c[1].when <=> a.kind = "garbage"
               /\ c[2].when <=> a.kind = "nan"
               /\ c[3].when <=>
                    a.kind = "-infinity" \/ (a.kind = "number" /\ a.coef <= 0)
               /\ c[4].when <=> a.kind = "infinity"
               /\ c[5].when <=> a.kind = "number" /\ TooPrecise(a)
               /\ c[1].then = Reject(Quoting(a.text))
               /\ \A i \in {2, 4} : c[i].then = Raise
               /\ \A i \in {3, 5} : c[i].then = Reject(Fixed)
<1> DEFINE c == AmountChecks(a)
<1>1. c[1] = [when |-> a.kind = "garbage", then |-> Reject(Quoting(a.text))]
  BY DEF AmountChecks, Unparsed
<1>2. c[2] = [when |-> a.kind = "nan", then |-> Raise]
  BY DEF AmountChecks
<1>3. c[3] = [when |-> a.kind = "-infinity" \/ (a.kind = "number" /\ a.coef <= 0),
              then |-> Reject(Fixed)]
  BY DEF AmountChecks
<1>4. c[4] = [when |-> a.kind = "infinity", then |-> Raise]
  BY DEF AmountChecks
<1>5. c[5] = [when |-> a.kind = "number" /\ TooPrecise(a), then |-> Reject(Fixed)]
  BY DEF AmountChecks
<1> HIDE DEF c
<1>6. c[1].when <=> a.kind = "garbage"
  BY <1>1, Condition, Zenon
<1>7. c[2].when <=> a.kind = "nan"
  BY <1>2, Condition, Zenon
<1>8. c[3].when <=> a.kind = "-infinity" \/ (a.kind = "number" /\ a.coef <= 0)
  BY <1>3, Condition, Zenon
<1>9. c[4].when <=> a.kind = "infinity"
  BY <1>4, Condition, Zenon
<1>10. c[5].when <=> a.kind = "number" /\ TooPrecise(a)
  BY <1>5, Condition, Zenon
<1>11. /\ c[1].then = Reject(Quoting(a.text))
       /\ \A i \in {2, 4} : c[i].then = Raise
       /\ \A i \in {3, 5} : c[i].then = Reject(Fixed)
  BY <1>1, <1>2, <1>3, <1>4, <1>5
<1>12. QED BY <1>6, <1>7, <1>8, <1>9, <1>10, <1>11 DEF c

\* The first test that fails is one of them.
LEMMA FirstIsOne ==
    ASSUME NEW S \in SUBSET (1..11), S # {}
    PROVE  Min(S) \in S
<1>1. ASSUME \A x \in S : \E y \in S : y < x
      PROVE  FALSE
  <2>1. 1 \notin S
    BY <1>1
  <2>2. 2 \notin S
    BY <1>1, <2>1
  <2>3. 3 \notin S
    BY <1>1, <2>1, <2>2
  <2>4. 4 \notin S
    BY <1>1, <2>1, <2>2, <2>3
  <2>5. 5 \notin S
    BY <1>1, <2>1, <2>2, <2>3, <2>4
  <2>6. 6 \notin S
    BY <1>1, <2>1, <2>2, <2>3, <2>4, <2>5
  <2>7. 7 \notin S
    BY <1>1, <2>1, <2>2, <2>3, <2>4, <2>5, <2>6
  <2>8. 8 \notin S
    BY <1>1, <2>1, <2>2, <2>3, <2>4, <2>5, <2>6, <2>7
  <2>9. \A y \in S : y \in {9, 10, 11}
    BY <2>1, <2>2, <2>3, <2>4, <2>5, <2>6, <2>7, <2>8
  <2>10. 9 \notin S
    BY <1>1, <2>9
  <2>11. 10 \notin S
    BY <1>1, <2>9, <2>10
  <2>12. \A y \in S : y = 11
    BY <2>9, <2>10, <2>11
  <2>13. PICK y \in S : y = 11
    BY <2>12
  <2>14. PICK z \in S : z < y
    BY <1>1
  <2>15. QED BY <2>12, <2>13, <2>14
<1>2. PICK x \in S : \A y \in S : ~(y < x)
  BY <1>1
<1>3. \A y \in S : x <= y
  BY <1>2
<1>4. QED BY <1>3 DEF Min

\* What the verdict of a test that fails says of the row.
Says(r, verdict) ==
    \/ /\ verdict.kind = "raise"
       /\ r.amount.kind \in {"nan", "infinity"}
    \/ /\ verdict.kind = "error"
       /\ ~Valid(r)
       /\ \/ verdict.message = Fixed
          \/ \E t \in {r.type.text, r.amount.text, r.currency.text,
                       r.timestamp.text} : verdict.message = Quoting(t)

\* The fields of a row.
LEMMA RowFields ==
    ASSUME NEW r \in Row
    PROVE  /\ r.transaction_id \in Text /\ r.account_id \in Text
           /\ r.type.word \in STRING /\ r.type.text \in Text
           /\ r.currency.word \in STRING /\ r.currency.text \in Text
           /\ r.amount \in Number /\ r.amount.text \in Text
           /\ r.timestamp \in Instant /\ r.timestamp.text \in Text
BY DEF Row, Word, Number, Instant

\* upper() lets exactly the spellings of a valid row through.
LEMMA Normalised ==
    ASSUME NEW r \in Row
    PROVE  /\ TypeOf(r) \in ALLOWED_TYPES
                <=> r.type.word \in {"CREDIT", "credit", "DEBIT"}
           /\ CurrencyOf(r) \in COMMON_CURRENCIES
                <=> r.currency.word \in {"USD", "usd"}
           /\ COMMON_CURRENCIES \subseteq ThreeLetters
BY RowFields
DEF TypeOf, CurrencyOf, Upper, ALLOWED_TYPES, COMMON_CURRENCIES, ThreeLetters

LEMMA AmountSays ==
    ASSUME ColumnsAgree, NEW r \in Row, NEW i \in 1..5,
           AmountChecks(r.amount)[i].when
    PROVE  Says(r, AmountChecks(r.amount)[i].then)
<1> DEFINE a == r.amount
           c == AmountChecks(a)
<1>1. a \in Number /\ RowAssumption
  BY RowFields, RowAssumption
<1>2. CASE i = 1
  <2>1. a.kind = "garbage" /\ c[i].then = Reject(Quoting(a.text))
    BY <1>2, AmountCheckList
  <2>2. QED BY <2>1 DEF Says, Reject, Valid
<1>3. CASE i \in {2, 4}
  <2>1. a.kind \in {"nan", "infinity"} /\ c[i].then = Raise
    BY <1>3, AmountCheckList
  <2>2. QED BY <2>1 DEF Says, Raise
<1>4. CASE i \in {3, 5}
  <2>1. c[i].then = Reject(Fixed)
    BY <1>4, AmountCheckList
  <2>2. \/ a.kind # "number"
        \/ a.coef <= 0
        \/ a.exp < -2
    BY <1>4, AmountCheckList DEF TooPrecise
  <2>3. ~Valid(r)
    BY <1>1, <2>2 DEF Valid, Number, ColumnsAgree
  <2>4. QED BY <2>1, <2>3 DEF Says, Reject
<1>5. QED BY <1>2, <1>3, <1>4

\* A test that fails is right about the row.
LEMMA CheckSays ==
    ASSUME ColumnsAgree, NEW r \in Row, NEW i \in 1..11, Checks(r)[i].when
    PROVE  Says(r, Checks(r)[i].then)
<1>1. CASE i \in 4..8
  <2>1. PICK k \in 1..5 : i = k + 3
    <3>1. i - 3 \in 1..5 /\ i = (i - 3) + 3
      BY <1>1
    <3>2. QED BY <3>1
  <2>2. Checks(r)[i] = AmountChecks(r.amount)[k]
    BY <2>1, CheckList
  <2>3. QED BY <2>2, AmountSays
<1>2. CASE i \in {1, 2}
  <2>1. r.transaction_id.len = 0 \/ r.account_id.len = 0
    BY <1>2, CheckList
  <2>2. Checks(r)[i].then = Reject(Fixed)
    BY <1>2, CheckList
  <2>3. QED BY <2>1, <2>2 DEF Says, Reject, Valid
<1>3. CASE i = 3
  <2>1. r.type.word \notin {"CREDIT", "credit", "DEBIT"}
    BY <1>3, CheckList, Normalised
  <2>2. Checks(r)[i].then = Reject(Quoting(r.type.text))
    BY <1>3, CheckList
  <2>3. QED BY <2>1, <2>2 DEF Says, Reject, Valid
<1>4. CASE i \in {9, 10}
  <2>1. r.currency.word \notin {"USD", "usd"}
    BY <1>4, CheckList, Normalised
  <2>2. Checks(r)[i].then \in {Reject(Quoting(r.currency.text)), Reject(Fixed)}
    BY <1>4, CheckList
  <2>3. QED BY <2>1, <2>2 DEF Says, Reject, Valid
<1>5. CASE i = 11
  <2>1. r.timestamp.kind = "garbage"
    BY <1>5, CheckList
  <2>2. Checks(r)[i].then = Reject(Quoting(r.timestamp.text))
    BY <1>5, CheckList
  <2>3. QED BY <2>1, <2>2 DEF Says, Reject, Valid
<1>6. QED BY <1>1, <1>2, <1>3, <1>4, <1>5

\* A row that passes every test is valid.
LEMMA PassedIsValid ==
    ASSUME ColumnsAgree, NEW r \in Row, \A i \in 1..11 : ~Checks(r)[i].when
    PROVE  Valid(r)
<1>1. /\ ~Checks(r)[1].when /\ ~Checks(r)[2].when /\ ~Checks(r)[3].when
      /\ ~Checks(r)[10].when /\ ~Checks(r)[11].when
  OBVIOUS
<1>2. r.transaction_id.len > 0 /\ r.account_id.len > 0
  <2>1. r.transaction_id.len # 0 /\ r.account_id.len # 0
    BY <1>1, CheckList
  <2>2. r.transaction_id.len \in Nat /\ r.account_id.len \in Nat
    BY RowFields DEF Text
  <2>3. QED BY <2>1, <2>2
<1>3. /\ r.type.word \in {"CREDIT", "credit", "DEBIT"}
      /\ r.currency.word \in {"USD", "usd"}
      /\ r.timestamp.kind # "garbage"
  BY <1>1, CheckList, Normalised
<1>4. \A i \in 1..5 : ~AmountChecks(r.amount)[i].when
  <2>1. ASSUME NEW i \in 1..5 PROVE ~AmountChecks(r.amount)[i].when
    <3>1. i + 3 \in 1..11
      OBVIOUS
    <3>2. QED BY <3>1, CheckList
  <2>2. QED BY <2>1
<1>5. /\ ~AmountChecks(r.amount)[1].when /\ ~AmountChecks(r.amount)[2].when
      /\ ~AmountChecks(r.amount)[3].when /\ ~AmountChecks(r.amount)[4].when
      /\ ~AmountChecks(r.amount)[5].when
  BY <1>4
<1>6. r.amount.kind = "number" /\ r.amount.coef > 0 /\ r.amount.exp >= -2
  <2>1. /\ r.amount.kind \in {"number", "nan", "infinity", "-infinity", "garbage"}
        /\ r.amount.coef \in Int /\ r.amount.exp \in Int
    BY RowFields DEF Number
  <2>2. /\ r.amount.kind \notin {"nan", "infinity", "-infinity", "garbage"}
        /\ ~(r.amount.kind = "number" /\ r.amount.coef <= 0)
        /\ ~(r.amount.kind = "number" /\ r.amount.exp < -2)
    BY <1>5, AmountCheckList DEF TooPrecise
  <2>3. QED BY <2>1, <2>2
<1>7. QED BY <1>2, <1>3, <1>6 DEF Valid, ColumnsAgree

-----------------------------------------------------------------------------
(* The tables *)

Passes(r) == \A i \in 1..11 : ~Checks(r)[i].when

\* A message that quotes a text fits if the text does.
LEMMA MessageFits ==
    ASSUME ColumnsAgree, NEW r \in Row, NEW m, ~Awkward(r),
           \/ m = Fixed
           \/ \E t \in {r.type.text, r.amount.text, r.currency.text,
                        r.timestamp.text} : m = Quoting(t)
    PROVE  Fits(m, ErrorLength)
<1>1. Wording \in Nat /\ ErrorLength \in Nat
  BY RowAssumption
<1>2. CASE m = Fixed
  BY <1>1, <1>2 DEF Fixed, Fits, ColumnsAgree
<1>3. ASSUME NEW t \in {r.type.text, r.amount.text, r.currency.text,
                        r.timestamp.text}, m = Quoting(t)
      PROVE  Fits(m, ErrorLength)
  <2>1. t \in Text
    BY RowFields
  <2>2. Fits(t, ErrorLength - Wording)
    BY DEF Awkward
  <2>3. m.len = t.len + Wording /\ m.clean = t.clean
    BY <1>3, <2>1 DEF Quoting, Text
  <2>4. t.len \in Nat
    BY <2>1 DEF Text
  <2>5. t.clean /\ t.len <= ErrorLength - Wording
    BY <2>2 DEF Fits
  <2>6. QED BY <1>1, <2>3, <2>4, <2>5 DEF Fits
<1>4. QED BY <1>2, <1>3

\* With two decimal places at most there is nothing to round.
LEMMA NothingToRound ==
    ASSUME ColumnsAgree, NEW m \in Int, NEW e \in Int, e >= -2
    PROVE  IF e < 0 THEN Rounded(m, e) * 10^(-e) = m * 10^Scale
           ELSE Rounded(m, e) = m * 10^(e + Scale)
<1>1. Scale = 2
  BY DEF ColumnsAgree
<1>2. 10^0 = 1 /\ 10^1 = 10 /\ 10^2 = 100
  OBVIOUS
<1>3. PICK k \in Int : k = -e
  OBVIOUS
<1>4. PICK p \in Nat : p = e + Scale
  BY <1>1
<1>5. k = 0 - e
  BY <1>3
<1>6. Rounded(m, e) = m * 10^p
  BY <1>4 DEF Rounded
<1>7. CASE e >= 0
  BY <1>4, <1>6, <1>7
<1>8. CASE e = -1
  <2>1. p = 1 /\ k = 1
    BY <1>1, <1>4, <1>5, <1>8
  <2>2. Rounded(m, e) * 10^k = m * 100
    BY <1>2, <1>6, <2>1
  <2>3. QED BY <1>1, <1>2, <1>3, <1>8, <2>2
<1>9. CASE e = -2
  <2>1. p = 0 /\ k = 2
    BY <1>1, <1>4, <1>5, <1>9
  <2>2. Rounded(m, e) * 10^k = m * 100
    BY <1>2, <1>6, <2>1
  <2>3. QED BY <1>1, <1>2, <1>3, <1>9, <2>2
<1>10. QED BY <1>7, <1>8, <1>9

\* What validate_row concluded, and that nothing is stored before it.
Validated ==
    /\ row \in Row
    /\ stored # Nothing => result # Nothing
    /\ \/ result = Nothing
       \/ result = Transaction(row) /\ Passes(row)
       \/ Says(row, result)

RowInv ==
    /\ Validated
    /\ RowsAreSortedOut /\ StoredAsWritten /\ OnlyAwkwardRowsAbort

LEMMA Validating ==
    ASSUME ColumnsAgree, RowInv, ValidateRow
    PROVE  RowInv'
<1> DEFINE c == Checks(row)
           failing == {i \in DOMAIN c : c[i].when}
<1>1. row \in Row /\ row' = row /\ stored' = stored /\ stored = Nothing
  BY DEF RowInv, Validated, ValidateRow
<1>2. DOMAIN c = 1..11
  BY CheckList
<1>3. CASE failing = {}
  <2>1. result' = Transaction(row)
    BY <1>3 DEF ValidateRow
  <2>2. Passes(row)
    BY <1>2, <1>3 DEF Passes
  <2>3. QED
    BY <1>1, <2>1, <2>2
    DEF RowInv, Validated, Passes, Transaction, Nothing, Aborted,
        RowsAreSortedOut, StoredAsWritten, OnlyAwkwardRowsAbort
<1>4. CASE failing # {}
  <2>1. result' = c[Min(failing)].then
    BY <1>4 DEF ValidateRow
  <2>2. Min(failing) \in failing
    BY <1>2, <1>4, FirstIsOne
  <2>3. Says(row, result')
    BY <1>1, <1>2, <2>1, <2>2, CheckSays
  <2>4. QED
    BY <1>1, <2>3
    DEF RowInv, Validated, Says, Nothing, Aborted,
        RowsAreSortedOut, StoredAsWritten, OnlyAwkwardRowsAbort
<1>5. QED BY <1>3, <1>4

LEMMA StoringTransaction ==
    ASSUME ColumnsAgree, RowInv, StoreRow, InsertTransaction
    PROVE  RowInv'
<1> DEFINE a == row.amount
           units == Rounded(a.coef, a.exp)
<1>1. row \in Row /\ row' = row /\ result' = result
  BY DEF RowInv, Validated, StoreRow
<1>2. result = Transaction(row) /\ Passes(row)
  BY DEF RowInv, Validated, InsertTransaction, Nothing, Says
<1>3. Valid(row)
  BY <1>1, <1>2, PassedIsValid DEF Passes
<1>4. a.kind = "number" /\ a.exp >= -2 /\ a.coef \in Int /\ a.exp \in Int
  BY <1>1, <1>3, RowFields DEF Valid, Number, ColumnsAgree
<1>5. /\ result.coef = a.coef /\ result.exp = a.exp
      /\ result.transaction_id = row.transaction_id
      /\ result.account_id = row.account_id
      /\ result.timestamp = ParseTimestamp(row.timestamp)
      /\ result.kind = "valid"
  BY <1>2 DEF Transaction
<1> HIDE DEF units
<1>6. CASE stored' = Aborted
  <2>1. \/ ~Fits(row.transaction_id, IdLength)
        \/ ~Fits(row.account_id, IdLength)
        \/ ~InRange(units)
        \/ ~InCalendar(ParseTimestamp(row.timestamp))
    BY <1>5, <1>6 DEF InsertTransaction, Aborted, units
  <2>2. Awkward(row)
    BY <1>3, <1>4, <2>1 DEF Awkward, Valid, units
  <2>3. QED
    BY <1>1, <1>2, <1>5, <1>6, <2>2
    DEF RowInv, Validated, Aborted, Nothing,
        RowsAreSortedOut, StoredAsWritten, OnlyAwkwardRowsAbort
<1>7. CASE stored' # Aborted
  <2>1. /\ stored'.kind = "transaction" /\ stored'.units = units
        /\ stored'.timestamp = ParseTimestamp(row.timestamp)
    BY <1>5, <1>7 DEF InsertTransaction, units
  <2>2. IF a.exp < 0 THEN units * 10^(-a.exp) = a.coef * 10^Scale
        ELSE units = a.coef * 10^(a.exp + Scale)
    BY <1>4, NothingToRound DEF units
  <2>3. /\ row.timestamp.kind = "naive" => stored'.timestamp = row.timestamp.local
        /\ row.timestamp.kind = "offset" =>
             stored'.timestamp + row.timestamp.offset = row.timestamp.local
    <3>1. row.timestamp.local \in Int /\ row.timestamp.offset \in Int
      BY <1>1, RowFields DEF Instant
    <3>2. QED BY <2>1, <3>1 DEF ParseTimestamp
  <2>4. StoredAsWritten'
    BY <1>1, <2>1, <2>2, <2>3 DEF StoredAsWritten
  <2>5. RowsAreSortedOut' /\ OnlyAwkwardRowsAbort'
    BY <1>1, <1>3, <1>7, <2>1
    DEF RowsAreSortedOut, OnlyAwkwardRowsAbort, Aborted, Valid
  <2>6. Validated'
    BY <1>1, <1>2, <1>5 DEF RowInv, Validated, Nothing, Passes
  <2>7. QED BY <2>4, <2>5, <2>6 DEF RowInv
<1>8. QED BY <1>6, <1>7

LEMMA StoringError ==
    ASSUME ColumnsAgree, RowInv, StoreRow, InsertImportError
    PROVE  RowInv'
<1>1. row \in Row /\ row' = row /\ result' = result /\ result.kind = "error"
  BY DEF RowInv, Validated, StoreRow, InsertImportError
<1>2. Says(row, result)
  BY <1>1 DEF RowInv, Validated, Transaction, Nothing
<1>3. CASE stored' = Aborted
  <2>1. ~Fits(row.transaction_id, IdLength) \/ ~Fits(result.message, ErrorLength)
    BY <1>3 DEF InsertImportError, Aborted
  <2>2. Awkward(row)
    <3>1. CASE ~Fits(row.transaction_id, IdLength)
      BY <3>1 DEF Awkward
    <3>2. CASE ~Fits(result.message, ErrorLength)
      BY <1>1, <1>2, <3>2, MessageFits DEF Says
    <3>3. QED BY <2>1, <3>1, <3>2
  <2>3. QED
    BY <1>1, <1>2, <1>3, <2>2
    DEF RowInv, Validated, Aborted, Nothing,
        RowsAreSortedOut, StoredAsWritten, OnlyAwkwardRowsAbort
<1>4. CASE stored' # Aborted
  <2>1. stored' = [kind |-> "import_error"]
    BY <1>4 DEF InsertImportError
  <2>2. ~Valid(row)
    BY <1>1, <1>2 DEF Says
  <2>3. QED
    BY <1>1, <1>2, <2>1, <2>2
    DEF RowInv, Validated, Aborted, Nothing, Valid,
        RowsAreSortedOut, StoredAsWritten, OnlyAwkwardRowsAbort
<1>5. QED BY <1>3, <1>4

LEMMA RowNext ==
    ASSUME ColumnsAgree
    PROVE  RowInv /\ [Next]_vars => RowInv'
<1> SUFFICES ASSUME RowInv, [Next]_vars PROVE RowInv'
  OBVIOUS
<1>1. CASE ValidateRow
  BY <1>1, Validating
<1>2. CASE StoreRow
  <2>1. CASE InsertTransaction
    BY <1>2, <2>1, StoringTransaction
  <2>2. CASE InsertImportError
    BY <1>2, <2>2, StoringError
  <2>3. CASE result.kind = "raise" /\ stored' = Aborted
    <3>1. row \in Row /\ row' = row /\ result' = result
      BY <1>2 DEF RowInv, Validated, StoreRow
    <3>2. Says(row, result)
      BY <2>3 DEF RowInv, Validated, Transaction, Nothing
    <3>3. Awkward(row)
      BY <2>3, <3>2 DEF Says, Awkward
    <3>4. QED
      BY <2>3, <3>1, <3>2, <3>3
      DEF RowInv, Validated, Aborted, Nothing,
          RowsAreSortedOut, StoredAsWritten, OnlyAwkwardRowsAbort
  <2>4. QED BY <1>2, <2>1, <2>2, <2>3 DEF StoreRow
<1>3. CASE UNCHANGED vars
  <2>1. row' = row /\ result' = result /\ stored' = stored
    BY <1>3 DEF vars
  <2>2. Validated'
    BY <2>1 DEF RowInv, Validated, Passes
  <2>3. RowsAreSortedOut' /\ StoredAsWritten' /\ OnlyAwkwardRowsAbort'
    BY <2>1 DEF RowInv, RowsAreSortedOut, StoredAsWritten, OnlyAwkwardRowsAbort
  <2>4. QED BY <2>2, <2>3 DEF RowInv
<1>4. QED BY <1>1, <1>2, <1>3 DEF Next

LEMMA RowInvariant ==
    ASSUME ColumnsAgree
    PROVE  Spec => []RowInv
<1>1. Init => RowInv
  BY RowAssumption
  DEF Init, RowInv, Validated, Nothing, Aborted,
      RowsAreSortedOut, StoredAsWritten, OnlyAwkwardRowsAbort
<1>2. QED BY <1>1, RowNext, PTL DEF Spec

-----------------------------------------------------------------------------
(* Theorems *)

\* Whatever the row: unless it is an awkward one, it becomes a transaction if
\* it is valid and an entry of the error report if it is not; the order of the
\* tests in validate_row never matters (validation.py 25-72).
THEOREM EveryRowIsSortedOut ==
    ASSUME ColumnsAgree
    PROVE  Spec => []RowsAreSortedOut
BY RowInvariant, PTL DEF RowInv

\* Whatever amount and time are written, those are stored: validate_row admits
\* no amount that Numeric(18, 2) would round (validation.py 45-48, 62-84).
THEOREM NothingIsRounded ==
    ASSUME ColumnsAgree
    PROVE  Spec => []StoredAsWritten
BY RowInvariant, PTL DEF RowInv

\* No row but an awkward one ends the attempt (validation.py 4-6, 37-41).
THEOREM AbortsAreAwkward ==
    ASSUME ColumnsAgree
    PROVE  Spec => []OnlyAwkwardRowsAbort
BY RowInvariant, PTL DEF RowInv
===============================================================================
