SPECIFICATION Spec
CONSTANTS
    Hosts <- MCOneHost
    Versions <- MCVersions
    EngineOf <- MCEngineOf
    Chunks = 2
    MaxInodes = 3
    Runs = 2
    MaxBuilds = 3
    MaxBenchs = 3
    Concurrent = FALSE
INVARIANT
    SuccessMeansGuestReturned
CHECK_DEADLOCK FALSE
