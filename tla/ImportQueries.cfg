SPECIFICATION Spec
CONSTANTS
  j1 = j1
  j2 = j2
  Jobs = {j1, j2}
  None = None
  File <- Files
  Owner <- Owners
  BatchSize = 2
  Queries <- AllQueries
CHECK_DEADLOCK FALSE
INVARIANTS
  PageHoldsItsShare
  NothingSkipped
  RepeatedOnlyIfPushed
  ErrorsListedOnce
