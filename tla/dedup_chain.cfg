SPECIFICATION Spec
CONSTANTS
    r1 = r1
    r2 = r2
    r3 = r3
    id1 = id1
    id2 = id2
    NoRef = NoRef
    NoDecision = NoDecision
    Reference = {r1, r2}
    Worker = {w1}
    Handler = {h1, h2}
    Decision = {1, 2, 3, 4}
    TrustedIds <- Apart
    OtherIds <- Nobody
    TestEnv = FALSE
    ReservedIds = 0
    MaxRetries = 0
    MaxCrashes = 0
    MaxLockLosses = 0
SYMMETRY HandlerSymmetry
INVARIANTS
    NoChaining
CHECK_DEADLOCK FALSE
