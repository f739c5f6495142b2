SPECIFICATION FairSpec
CONSTANTS
    x1 = x1
    x2 = x2
    r1 = r1
    r2 = r2
    r3 = r3
    Export = {x1, x2}
    Kind <- Kinds
    Requested <- Lists
    Entitled = {x2}
    Ref = {r1, r2, r3}
    Match = {r1, r2, r3}
    FullText = {r1}
    Worker = {w1, w2}
    NoExport = NoExport
    ChunkSize = 2
    Window = 2
    MaxFaults = 2
INVARIANTS
    CompletedIsWhole
    NotForgotten
PROPERTIES
    EveryExportSettles
CHECK_DEADLOCK FALSE
