SPECIFICATION FairSpec
CONSTANTS
    Hosts <- MCOneHost
    Versions <- MCVersions
    EngineOf <- MCEngineOf
    Chunks = 2
    MaxInodes = 3
    Runs = 2
    MaxBuilds = 3
    MaxBenchs = 3
    Concurrent = FALSE
INVARIANTS
    RunsCurrentModule
    NeverRunsPartialFile
    CompilesOncePerBuild
PROPERTIES
    
    BenchmarkEnds
CHECK_DEADLOCK FALSE
