SPECIFICATION Spec
CONSTANTS
    Readers = {r1, r2, r3}
    Batches = {b1, b2}
    None = None
    Ttl = 2
    Faults = {"redis", "db", "crash"}
    MaxDelay = 1
    MaxTime = 6
SYMMETRY Symmetry
CHECK_DEADLOCK FALSE
INVARIANTS
    BoundedStaleness
    StaleOnlyUntilInvalidated
