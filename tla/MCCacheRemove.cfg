SPECIFICATION Spec
CONSTANTS
    Keys = {1, 2, 3, 4}
    Values = {v1, v2}
    Capacity = 3
    Policies = {"fifo", "lru"}
    MaxOps = 6
CHECK_DEADLOCK FALSE
INVARIANTS
    PolicyTracksItems
