--------------------------- MODULE MCSharedMemory ---------------------------
EXTENDS SharedMemory, TLC

MCValues == 0..1
MCKeys == {0}
MCNoDeltas == {}
MCDeltas == 0..1
MCSomeDeadlines == {"none", "future"}
MCDeadlines == {"none", "future", "past"}
Symmetry == Permutations(Threads)
=============================================================================
