CONSTANTS
    Instances <- MCInstances
    Definer = "a"
    MAX_RESOURCE_HANDLE = 3
    MaxFrames = 3
    MaxReps = 2
    MaxGeneration = 1
SPECIFICATION Spec
INVARIANTS
    BorrowsAreTracked
    
    BorrowedIsAlive
    OwnedOnce
    HandleNamesOneResource
CHECK_DEADLOCK FALSE
