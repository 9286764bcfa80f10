SPECIFICATION FairSpec
CONSTANTS
  Requests = {r1, r2}
  c1 = c1
  c2 = c2
  k1 = k1
  f1 = f1
  f2 = f2
  Clients = {c1, c2}
  Keys = {k1}
  Contents = {f1, f2}
  None = None
  Forms <- OneRequest
  Faults = {"redis"}
  MaxFaults = 1
CHECK_DEADLOCK FALSE
PROPERTIES
  AcceptedIsEnqueued
