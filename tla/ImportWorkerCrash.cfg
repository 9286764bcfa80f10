SPECIFICATION Spec
CONSTANTS
  Workers = {w1, w2}
  Jobs = {j1, j2}
  t1 = t1
  t2 = t2
  Tids = {t1, t2}
  None = None
  CsvFiles <- SafetyFiles
  MaxRows = 3
  BatchSize = 2
  ClaimCount = 2
  MaxRetries = 2
  Faults = {"crash", "db"}
  MaxFaults = 2
SYMMETRY Symmetry
INVARIANTS
  NoJobLost
  OneWorkerPerJob
  ExactCounters
  NothingBeyondCheckpoint
  ErrorsReportedOnce
  FailedIsJustified
  RepeatsReported
PROPERTIES
  CheckpointMonotone
  CompletedIsFinal
  ImplementsContract
