SPECIFICATION Spec
CONSTANTS
    Keys = {1, 2, 3, 4}
    Values = {v1, v2}
    Capacity = 3
    Policies = {"none", "fifo", "lru", "lfu"}
    MaxOps = 6
CHECK_DEADLOCK FALSE
INVARIANTS
    TypeOK
    TracksUnlessRemoved
    WithinCapacity
PROPERTIES
    IsBoundedCache
    LruEvictsLeastRecent
    FifoEvictsOldest
    LfuEvictsLeastUsed
