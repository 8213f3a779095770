SPECIFICATION ContainerFairSpec
CONSTANTS
    Nodes = {1, 9}
    Priorities = {0}
    Types = {1}
    DistinctFlags = {TRUE}
    Api = {"initialize", "catch", "push", "clear", "join", "sample"}
    NidSpans <- MCNidSpans
    PrioSpans <- MCPrioSpans
    FinishOutcomes = {TRUE, FALSE}
    MaxCalls = 2
    MaxVisits = 0
    PageRequests = {1, 9}
    MinPages = 1
    MaxPages = 2
    InitialPages = {1}
    MayStart = TRUE
    MayMove = TRUE
    SizeLimit = 8
    WordLimit = 16
    Garbage = {15}
    NidArrays <- MCNidArrays
    PrioArrays <- MCPrioArrays
    Recorded = {9}
    MaxHeld = 2
    MaxTraps = 1
CHECK_DEADLOCK FALSE
INVARIANTS
    ContainerTypeOK
    UndefinedOnlyBy
    BuffersAreGenuine
    LeaksOnlyByTraps
    ArgumentsArrive
    StaleOnlyAfterTrap
PROPERTIES
    IsSchedulerBlock
    ContainerCallsReturn
