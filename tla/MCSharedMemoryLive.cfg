\* Two threads on an address that is valid only once the memory has grown, and what must
\* eventually happen.
CONSTANTS
    Threads = {t1, t2}
    Keys <- MCKeys
    Values <- MCValues
    Deadlines <- MCDeadlines
    Deltas <- MCDeltas
    Minimum = 1
    Maximum = 2
SPECIFICATION FairSpec
INVARIANT LengthIsMapped
PROPERTIES NotifiedReturns DeadlineReturns
