SPECIFICATION ServicesSpec
CONSTANTS
    Ref = {1, 2, 3}
    Canonical <- SecondOfFirst
    First = {0}
    Indexed = {2, 3}
    Lists = {{2, 3}}
    Operator = {o1}
    Writer = {x1}
    Worker = {w1}
    NoTask = NoTask
    MaxVersion = 2
    PartitionSize = 2
    MaxCommands = 2
    MaxCommits = 1
    MaxFaults = 1
INVARIANTS
    NoClientLost
    UrlGoodToTheEnd
    ReadsAreComplete
    RepairCovers
    LoaderFindsContext
    SchemesInherited
    ProposalIsSound
    RecordedOnce
    PageIsCurrent
    HandedOver
PROPERTIES
    AliasServes
    CountsAgree
    MigrationCarriesOver
