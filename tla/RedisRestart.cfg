SPECIFICATION PipelineSpec
CONSTANTS
  Workers = {w1, w2}
  Jobs = {r1, r2}
  t1 = t1
  t2 = t2
  c1 = c1
  k1 = k1
  Tids = {t1, t2}
  None = None
  CsvFiles <- Uploaded
  MaxRows = 3
  BatchSize = 2
  ClaimCount = 2
  MaxRetries = 2
  Faults = {"crash"}
  MaxFaults = 0
  Clients = {c1}
  Keys = {k1}
  Forms <- SameKey
  ApiFaults = {"crash", "db_reply", "redis", "redis_reply"}
  MaxApiFaults = 1
  MaxRestarts = 1
CHECK_DEADLOCK FALSE
SYMMETRY Symmetry
INVARIANTS
  WorkerFindsJobAndFile
  ImportedOnce
  NoUploadLost
  CommittedRowsStored
  CompletedMeansStored
