SPECIFICATION Spec
CONSTANTS
    OpNames <- MCOpNames
    PhaseNames <- MCPhaseNames
    MaxTime = 3
    MaxOps = 2
    MaxPhases = 2
INVARIANTS
    
    CompletedWithinTotal
    PhaseCountsItsOperations
    PhaseWithinTotal
    PrintsEveryEndedPhaseOnce
