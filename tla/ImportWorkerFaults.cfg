SPECIFICATION Spec
CONSTANTS
  Workers = {w1, w2}
  Jobs = {j1, j2}
  t1 = t1
  t2 = t2
  Tids = {t1, t2}
  None = None
  CsvFiles <- FaultyFiles
  MaxRows = 3
  BatchSize = 2
  ClaimCount = 1
  MaxRetries = 2
  Faults = {"crash", "db", "ack", "ack_reply", "slow"}
  MaxFaults = 2
SYMMETRY Symmetry
INVARIANTS
  TypeOK
  CommittedRowsStored
  CompletedMeansStored
  RetriesBounded
