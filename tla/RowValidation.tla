----------------------------- MODULE RowValidation -----------------------------
(***************************************************************************)
(* What becomes of one CSV row: validate_row (app/services/validation.py)  *)
(* and the columns that take its result, those of transactions for a valid *)
(* row and those of import_errors for an invalid one (migration 0001).     *)
(* ImportWorker knows only the outcome, RowKind; this module derives it.   *)
(*                                                                         *)
(* A text is its length after strip() and whether it is free of NUL        *)
(* characters, which Postgres does not store. A field missing in a short   *)
(* row reads as the empty text. Besides what it means, a field carries the *)
(* text that an error message quotes: type and currency as they stand in   *)
(* the file, amount and timestamp stripped.                                *)
(***************************************************************************)
EXTENDS Integers, Sequences, FiniteSetsExt

CONSTANTS
    Rows,         \* the rows to look at
    IdLength,     \* String(128): transaction_id, account_id
    ErrorLength,  \* String(1024): import_errors.error
    Wording,      \* characters of a message around the value it quotes
    Precision,    \* Numeric(18, 2): digits
    Scale,        \* Numeric(18, 2): decimal places
    Earliest,     \* the first and the last moment of a datetime, of the
    Latest        \* years 1 to 9999

Text == [len: Nat, clean: BOOLEAN]
Number == [kind: {"number", "nan", "infinity", "-infinity", "garbage"},
           coef: Int, exp: Int, text: Text]
Instant == [kind: {"naive", "offset", "garbage"}, local: Earliest..Latest,
            offset: Int, text: Text]
Word == [word: STRING, text: Text]
Row == [transaction_id: Text, account_id: Text, type: Word, amount: Number,
        currency: Word, timestamp: Instant]

ASSUME RowAssumption ==
    /\ Rows \subseteq Row
    /\ IdLength \in Nat /\ ErrorLength \in Nat /\ Wording \in Nat
    /\ Precision \in Nat /\ Scale \in Nat
    /\ Earliest \in Int /\ Latest \in Int

ALLOWED_TYPES == {"CREDIT", "DEBIT"}
\* Stands for the list of supported currencies.
COMMON_CURRENCIES == {"USD"}
ThreeLetters == COMMON_CURRENCIES \cup {"XYZ"}

VARIABLES
    row,    \* the row
    result, \* what validate_row made of it
    stored  \* what the batch left in the tables

vars == <<row, result, stored>>

Nothing == [kind |-> "nothing"]

Init ==
    /\ row \in Rows
    /\ result = Nothing
    /\ stored = Nothing

-----------------------------------------------------------------------------
(* validate_row *)

\* upper()
Upper(w) == CASE w = "credit" -> "CREDIT" [] w = "usd" -> "USD" [] OTHER -> w

Raise == [kind |-> "raise"]
Reject(message) == [kind |-> "error", message |-> message]
Fixed == [len |-> Wording, clean |-> TRUE]
Quoting(text) == [text EXCEPT !.len = @ + Wording]

\* Mutant: the comparison with the number of decimal places is off by one.
TooPreciseLate(a) == a.exp < -3
TooPrecise(a) == a.exp < -2

\* Mutant: InvalidOperation, which is no ValueError, is not caught.
UnparsedRaises(a) == Raise
Unparsed(a) == Reject(Quoting(a.text))

\* Decimal(amount_raw) and the two tests on it, in their order: a comparison
\* with NaN raises, and so does one with the exponent of an infinity.
AmountChecks(a) ==
    <<[when |-> a.kind = "garbage", then |-> Unparsed(a)],
      [when |-> a.kind = "nan", then |-> Raise],
      [when |-> a.kind = "-infinity" \/ (a.kind = "number" /\ a.coef <= 0),
       then |-> Reject(Fixed)],
      [when |-> a.kind = "infinity", then |-> Raise],
      [when |-> a.kind = "number" /\ TooPrecise(a), then |-> Reject(Fixed)]>>

\* Mutant: the case of the type is not normalised.
TypeAsWritten(r) == r.type.word
TypeOf(r) == Upper(r.type.word)
CurrencyOf(r) == Upper(r.currency.word)

\* The tests of validate_row in the order of its early returns.
Checks(r) ==
    <<[when |-> r.transaction_id.len = 0, then |-> Reject(Fixed)],
      [when |-> r.account_id.len = 0, then |-> Reject(Fixed)],
      [when |-> TypeOf(r) \notin ALLOWED_TYPES,
       then |-> Reject(Quoting(r.type.text))]>>
    \o AmountChecks(r.amount) \o
    <<[when |-> CurrencyOf(r) \notin ThreeLetters,
       then |-> Reject(Quoting(r.currency.text))],
      [when |-> CurrencyOf(r) \notin COMMON_CURRENCIES,
       then |-> Reject(Fixed)],
      [when |-> r.timestamp.kind = "garbage",
       then |-> Reject(Quoting(r.timestamp.text))]>>

\* _parse_timestamp: a naive time is taken as UTC. A time with an offset keeps
\* it; the moment it stands for may lie outside the calendar.
ParseTimestamp(t) == IF t.kind = "naive" THEN t.local ELSE t.local - t.offset

Transaction(r) ==
    [kind |-> "valid", transaction_id |-> r.transaction_id,
     account_id |-> r.account_id, type |-> TypeOf(r),
     coef |-> r.amount.coef, exp |-> r.amount.exp,
     currency |-> CurrencyOf(r), timestamp |-> ParseTimestamp(r.timestamp)]

ValidateRow ==
    /\ result = Nothing
    /\ LET failing == {i \in DOMAIN Checks(row) : Checks(row)[i].when}
       IN  result' = IF failing = {} THEN Transaction(row)
                     ELSE Checks(row)[Min(failing)].then
    /\ UNCHANGED <<row, stored>>

-----------------------------------------------------------------------------
(* The tables *)

Fits(text, length) == text.len <= length /\ text.clean

\* Numeric(Precision, Scale) rounds to Scale decimal places ...
Rounded(coef, exp) ==
    IF exp + Scale >= 0 THEN coef * 10^(exp + Scale)
    ELSE LET unit == 10^(-(exp + Scale)) IN (coef + unit \div 2) \div unit
\* ... and then fails if there are too many digits.
InRange(units) == units < 10^Precision

\* The driver converts a time to UTC for the timestamptz column, which raises
\* if the time is no datetime there.
InCalendar(time) == time \in Earliest..Latest

Aborted == [kind |-> "aborted"]

InsertTransaction ==
    /\ result.kind = "valid"
    /\ LET units == Rounded(result.coef, result.exp)
       IN  stored' =
             IF /\ Fits(result.transaction_id, IdLength)
                /\ Fits(result.account_id, IdLength)
                /\ InRange(units)
                /\ InCalendar(result.timestamp)
             THEN [kind |-> "transaction", units |-> units,
                   type |-> result.type, currency |-> result.currency,
                   timestamp |-> result.timestamp]
             ELSE Aborted

\* The id of an invalid row is stored too, NULL if it is empty.
InsertImportError ==
    /\ result.kind = "error"
    /\ stored' = IF /\ Fits(row.transaction_id, IdLength)
                    /\ Fits(result.message, ErrorLength)
                 THEN [kind |-> "import_error"]
                 ELSE Aborted

\* An exception ends the attempt, and so does a statement that fails.
StoreRow ==
    /\ stored = Nothing
    /\ \/ InsertTransaction
       \/ InsertImportError
       \/ result.kind = "raise" /\ stored' = Aborted
    /\ UNCHANGED <<row, result>>

Next == ValidateRow \/ StoreRow
Spec == Init /\ [][Next]_vars

-----------------------------------------------------------------------------
(* Properties *)

\* README.md: the assumptions about a valid row, without any order.
Valid(r) ==
    /\ r.transaction_id.len > 0 /\ r.account_id.len > 0
    /\ r.type.word \in {"CREDIT", "credit", "DEBIT"}
    /\ r.amount.kind = "number" /\ r.amount.coef > 0 /\ r.amount.exp >= -Scale
    /\ r.currency.word \in {"USD", "usd"}
    /\ r.timestamp.kind # "garbage"

\* What no column holds, Decimal parses and cannot compare, or a datetime
\* holds with its offset and cannot express in UTC.
Awkward(r) ==
    \/ r.amount.kind \in {"nan", "infinity"}
    \/ \E t \in {r.transaction_id, r.account_id} : ~Fits(t, IdLength)
    \/ \E t \in {r.type.text, r.amount.text, r.currency.text, r.timestamp.text} :
         ~Fits(t, ErrorLength - Wording)
    \/ r.amount.kind = "number" /\ ~InRange(Rounded(r.amount.coef, r.amount.exp))
    \/ /\ r.timestamp.kind # "garbage"
       /\ ~InCalendar(ParseTimestamp(r.timestamp))

\* A row becomes a transaction if and only if it is valid, and an invalid one
\* an entry of the error report, unless it is one of the awkward rows
\* (validation.py 25-72).
RowsAreSortedOut ==
    stored # Nothing /\ ~Awkward(row) =>
        stored.kind = IF Valid(row) THEN "transaction" ELSE "import_error"

\* Nothing is rounded, truncated or moved to another time on its way into the
\* table: the amount in units of the last decimal place is the one written
\* (validation.py 45-48, 62-84).
StoredAsWritten ==
    stored.kind = "transaction" =>
        LET a == row.amount
            t == row.timestamp
        IN  /\ IF a.exp < 0
               THEN stored.units * 10^(-a.exp) = a.coef * 10^Scale
               ELSE stored.units = a.coef * 10^(a.exp + Scale)
            /\ t.kind = "naive" => stored.timestamp = t.local
            /\ t.kind = "offset" => stored.timestamp + t.offset = t.local

\* An attempt is only ended by an awkward row; what is wrong in any other way
\* is recorded and the import goes on (validation.py 4-6, 37-41, 75-85).
OnlyAwkwardRowsAbort == stored = Aborted => Awkward(row)
===============================================================================
