SPECIFICATION Spec
CONSTANTS
    Groups <- MCGroups
    Def <- MCDef
    Modules <- MCModules
    Threads = {t1, t2}
    t1 = t1
    t2 = t2
    MaxEntries = 6
    FollowAgain = FALSE
    MAX_CAPACITY = 8
    MIN_CAPACITY = 8
SYMMETRY Symmetry
INVARIANTS
    CountsAreExact
    RegistryIsConsistent
    HandleKeepsItsType
    
CHECK_DEADLOCK FALSE
