SPECIFICATION Spec
CONSTANTS
  Calls = {x1, x2, x3}
  Instances = {i1, i2}
  Ids = {d1, d2, d3}
  Limit = 2
  Window = 5
  Second = 2
  MaxSkew = 1
  MaxDelay = 1
  MaxTime = 8
CHECK_DEADLOCK FALSE
SYMMETRY Symmetry
INVARIANTS
  LimitHolds
  NoFalseRejection
  RetryAfterSuffices
