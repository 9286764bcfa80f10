SPECIFICATION FairPipeline
CONSTANTS
  Workers = {w1, w2}
  Jobs = {r1, r2}
  t1 = t1
  t2 = t2
  c1 = c1
  k1 = k1
  Tids = {t1, t2}
  None = None
  CsvFiles <- Uploaded
  MaxRows = 3
  BatchSize = 2
  ClaimCount = 2
  MaxRetries = 2
  Faults = {"crash", "db"}
  MaxFaults = 1
  Clients = {c1}
  Keys = {k1}
  Forms <- Uploads
  ApiFaults = {"redis"}
  MaxApiFaults = 1
  MaxRestarts = 0
PROPERTIES
  AcceptedIsImported
  EveryImportSettles
