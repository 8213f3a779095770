SPECIFICATION FairSpec
CONSTANTS
    Threads = {t1, t2}
    Nids = {1, 2, 3}
    Capacity = 2
    MaxVersion = 1
CHECK_DEADLOCK FALSE
INVARIANTS
    TypeOK
    PolicyTracksItems
    DanglingNeedsManyOthers
    Genuine
PROPERTIES
    OlderOnlyByOverlap
    IsBoundedCache
    GetReturns
