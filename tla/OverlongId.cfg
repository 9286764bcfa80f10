SPECIFICATION FairSpec
CONSTANTS
  Workers = {w1}
  Jobs = {j1}
  t1 = t1
  t2 = t2
  Tids = {t1, t2}
  None = None
  CsvFiles <- OverlongIdFile
  MaxRows = 3
  BatchSize = 2
  ClaimCount = 1
  MaxRetries = 2
  Faults = {}
  MaxFaults = 0
PROPERTIES
  EveryImportSettles
