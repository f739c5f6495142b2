SPECIFICATION FairSpec
CONSTANTS
    r1 = r1
    r2 = r2
    r3 = r3
    id1 = id1
    id2 = id2
    NoRef = NoRef
    NoDecision = NoDecision
    Reference = {r1, r2, r3}
    Worker = {w1, w2}
    Handler = {h1}
    Decision = {1, 2, 3, 4}
    TrustedIds <- PairAndNone
    OtherIds <- Nobody
    TestEnv = FALSE
    ReservedIds = 2
    MaxRetries = 1
    MaxCrashes = 1
    MaxLockLosses = 1
INVARIANTS
    OneActiveDecision
PROPERTIES
    EveryTaskSettles
    PersonDecisionKept
CHECK_DEADLOCK FALSE
