SPECIFICATION Spec
CONSTANTS
    None = None
    Reference = {r1}
    Matching = {r1}
    Request = {q1}
    Robot = {b1}
    Caller = {c1}
    Worker = {w1}
    MaxRows = 2
    MaxBatches = 1
    ClaimLimit = 1
    ExpireLimit = 1
    MaxRetryCount = 1
    MaxCrashes = 0
    MaxLockLosses = 0
PROPERTIES
    StatusDiagram
CHECK_DEADLOCK FALSE
