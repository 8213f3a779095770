SPECIFICATION Spec
CONSTANTS
    Nodes = {1, 2, 3}
    Priorities = {0, 1}
    Types = {0, 1, 2, 3}
    DistinctFlags = {TRUE, FALSE}
    Api <- AllMethodsAndCatch
    NidSpans <- MCNidSpans
    PrioSpans <- MCPrioSpans
    FinishOutcomes = {TRUE}
    MaxCalls = 1
    MaxVisits = 3
INVARIANTS
    TypeOK
    VisitedOnce
    NothingLost
PROPERTIES
    FifoNeverOvertakes
    PrioHighestFirst
