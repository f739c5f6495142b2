SPECIFICATION ImportsSpec
CONSTANTS
    f1 = f1
    f2 = f2
    f3 = f3
    i1 = i1
    o1 = o1
    e1 = e1
    Batch = {f1, f2, f3}
    Lines <- Files
    ResultId = {r1, r2, r3, r4, r5, r6, r7, r8}
    RefId = {x1, x2, x3, x4}
    Worker = {w1, w2}
    NoResult = NoResult
    NoRef = NoRef
    Identifier = {i1, o1}
    OtherId = {o1}
    Enhancement = {e1}
    MaxRetries = 1
    MaxAttempts = 2
    MaxPolls = 2
    MaxFaults = 1
INVARIANTS
    EachLineOnce
    ImportedIsStored
PROPERTIES
    EveryLineSettles
CHECK_DEADLOCK FALSE
