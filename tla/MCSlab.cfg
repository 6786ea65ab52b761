SPECIFICATION Spec
CONSTANTS
    v1 = v1
    v2 = v2
    Values <- MCValues
    MAX_CAPACITY = 4
    MIN_CAPACITY = 2
INVARIANTS
    FreeList
    NextIdIsNext
PROPERTY
    ImplementsIdMap
CHECK_DEADLOCK FALSE
