CONSTANTS
    NULL = NULL
    t1 = t1
    t2 = t2
    t3 = t3
    Thread = {t1, t2}
    Collectors = {t3}
    LastBlock = 2
    ObjectFields <- MCObjectFields
    Disciplines = {"NoWhiteIntoBlack", "LoadsUninterrupted"}
SPECIFICATION Spec
INVARIANTS
    NothingReachableIsLost
    RootsStayMarked
PROPERTIES
    GarbageIsCollected
SYMMETRY MCSymmetry
