SPECIFICATION Spec
CONSTANTS
  Workers = {w1, w2}
  Jobs = {j1}
  t1 = t1
  t2 = t2
  Tids = {t1, t2}
  None = None
  CsvFiles <- PlainFile
  MaxRows = 3
  BatchSize = 2
  ClaimCount = 1
  MaxRetries = 2
  Faults = {"slow", "crash"}
  MaxFaults = 2
INVARIANTS
  NoJobLost
