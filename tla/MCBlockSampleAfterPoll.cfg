SPECIFICATION Spec
CONSTANTS
    Nodes = {1, 2, 3}
    Priorities = {0, 1}
    Types = {1, 2, 3}
    DistinctFlags = {TRUE}
    Api <- AllMethods
    NidSpans <- MCNidSpans
    PrioSpans <- MCPrioSpans
    FinishOutcomes = {TRUE}
    MaxCalls = 1
    MaxVisits = 3
INVARIANTS
    SampleStartsFresh
