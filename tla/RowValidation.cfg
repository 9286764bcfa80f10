SPECIFICATION Spec
CONSTANTS
  Rows <- AllRows
  IdLength = 3
  ErrorLength = 6
  Wording = 2
  Precision = 5
  Scale = 2
  Earliest = 1
  Latest = 9
CHECK_DEADLOCK FALSE
INVARIANTS
  RowsAreSortedOut
  StoredAsWritten
  OnlyAwkwardRowsAbort
