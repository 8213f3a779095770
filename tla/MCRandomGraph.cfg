SPECIFICATION RandomFairSpec
CONSTANTS
    Nodes = {1, 2, 3, 4, 5}
    Priorities = {0, 1}
    Types = {1, 2, 3}
    DistinctFlags = {TRUE, FALSE}
    Api = {"initialize", "sample"}
    NidSpans = {}
    PrioSpans = {}
    FinishOutcomes = {TRUE}
    MaxCalls = 1
    MaxVisits = 12
    Programs = {"layer_wise", "node_wise", "subgraph_wise", "wapp"}
    Graphs <- MCGraphs
    K <- MCK
    MaxDepth = 3
    Degree = 2
    Outcomes <- MCOutcomes
INVARIANTS
    GuestTypeOK
    SampleIsConnected
    SubgraphIsFull
    SubgraphIsNearest
    LayersAreFull
    LayersAreLinked
    QueuedNodesHaveLayers
    WithinRadius
    EdgesMirrored
    SampledReachStart
PROPERTIES
    SampleReturns
