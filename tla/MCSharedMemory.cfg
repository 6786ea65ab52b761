\* Three threads on one address.
CONSTANTS
    Threads = {t1, t2, t3}
    Keys <- MCKeys
    Values <- MCValues
    Deadlines <- MCSomeDeadlines
    Deltas <- MCNoDeltas
    Minimum = 2
    Maximum = 2
SPECIFICATION Spec
SYMMETRY Symmetry
INVARIANTS LinksAgree NobodySleepsOnAStaleValue
PROPERTY ImplementsFutex
