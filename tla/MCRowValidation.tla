---------------------------- MODULE MCRowValidation ----------------------------
(***************************************************************************)
(* All combinations of a few values of every field: empty, good, of the    *)
(* longest length that fits and one more, with a NUL character; times that *)
(* their offset takes just to either end of the calendar and beyond it.    *)
(***************************************************************************)
EXTENDS RowValidation

T(len) == [len |-> len, clean |-> TRUE]
NulText == [len |-> 1, clean |-> FALSE]
Longest == T(ErrorLength - Wording)
TooLong == T(ErrorLength - Wording + 1)

W(word, text) == [word |-> word, text |-> text]
N(kind, coef, exp, text) ==
    [kind |-> kind, coef |-> coef, exp |-> exp, text |-> text]
D(kind, local, offset, text) ==
    [kind |-> kind, local |-> local, offset |-> offset, text |-> text]

AllRows ==
    [transaction_id: {T(0), T(IdLength), T(IdLength + 1), NulText},
     account_id: {T(0), T(1), T(IdLength + 1)},
     type: {W("CREDIT", T(1)), W("credit", T(1)), W("TRANSFER", Longest),
            W("TRANSFER", TooLong), W("TRANSFER", NulText)},
     amount: {N("garbage", 0, 0, Longest), N("garbage", 0, 0, TooLong),
              N("nan", 0, 0, T(1)), N("infinity", 0, 0, T(1)),
              N("-infinity", 0, 0, T(1)), N("number", 0, 0, T(1)),
              N("number", -1, -2, T(1)), N("number", 1, -2, T(1)),
              N("number", 1004, -3, T(1)), N("number", 999, 0, T(1)),
              N("number", 1, 2, T(1)), N("number", 1, 3, T(1))},
     currency: {W("usd", T(1)), W("XYZ", T(1)), W("US", Longest),
                W("US", TooLong)},
     timestamp: {D("naive", Latest, 0, T(1)), D("offset", Latest, 3, T(1)),
                 D("offset", Latest, -1, T(1)),
                 D("offset", Earliest + 1, 1, T(1)),
                 D("offset", Earliest, 1, T(1)),
                 D("garbage", Earliest, 0, T(0)),
                 D("garbage", Earliest, 0, TooLong)}]
===============================================================================
