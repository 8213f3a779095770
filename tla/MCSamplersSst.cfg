SPECIFICATION SamplerSpec
CONSTANTS
    Nodes = {1, 2, 3, 4, 5}
    Priorities = {0, 1}
    Types = {1}
    DistinctFlags = {FALSE}
    Api = {"initialize", "sample"}
    NidSpans = {}
    PrioSpans = {}
    FinishOutcomes = {TRUE}
    MaxCalls = 1
    MaxVisits = 12
    Programs = {"node_wise"}
    Graphs <- MCKnot
    K <- MCNodeK
    MaxDepth = 3
INVARIANTS
    SstIsShortest
