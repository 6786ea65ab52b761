CONSTANTS
    Procs = {p1, p2}
    Mods = {m1}
    Threshold = 1
    QueueSize = 1
    MaxCrashes = 1
    MaxExpired = 6
    SizeLimit = 5
    CountLimit = 3
    Percent = 70
    Paths = {a, b, c, d}
    Sizes <- MCSizes
    Now = 3
    LastMtime = 5
SPECIFICATION Spec
SYMMETRY Symmetry
INVARIANTS  CleanupMeetsLimits CleanupIsLRU
