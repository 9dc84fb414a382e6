CONSTANTS
    NULL = NULL
    Thread = {t1, t2}
    sub = sub
    super = super
    other = other
    Monitor = {sub, super, other}
    MaxDepth = 2
    pSuperClass <- MCSuper
    HasInitializer = {sub, super}
    Uses <- MCUses
    MemoryFails = TRUE
SPECIFICATION ClassSpec
INVARIANTS
    MutualExclusion
    InitialisationIsOrdered
PROPERTIES
    EveryUseEnds
CHECK_DEADLOCK FALSE
