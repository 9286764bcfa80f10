SPECIFICATION Spec
CONSTANTS
  Requests = {r1, r2, r3}
  c1 = c1
  c2 = c2
  k1 = k1
  f1 = f1
  f2 = f2
  Clients = {c1, c2}
  Keys = {k1}
  Contents = {f1, f2}
  None = None
  Forms <- Uploads
  Faults = {"crash", "disk", "db", "db_reply", "redis", "redis_reply"}
  MaxFaults = 2
CHECK_DEADLOCK FALSE
SYMMETRY Symmetry
INVARIANTS
  JobsHaveTheirFile
  OneEntryPerKey
  RepeatGetsSameJob
  NoStrayFile
  UnqueuedOnlyIfBroken
