CONSTANTS
    NULL = NULL
    idle = idle
    t1 = t1
    t2 = t2
    t3 = t3
    m1 = m1
    s1 = s1
    Thread = {idle, t1, t2, t3}
    IdleThread = idle
    Monitor = {}
    Semaphore = {}
    InitialPriority <- MCMixedPriority
    InitialCount <- MCCount
    NewPriorities = {}
    Operations = {"sleep", "join", "remove", "interrupt"}
    Disciplines = {"JoinAlive", "FreshTimer", "CarefulInterrupt"}
    MaxDepth = 0
    MaxCount = 0
    MaxDisabled = 0
SPECIFICATION Spec
INVARIANTS
    JoinedThreadIsAlive
PROPERTIES
    NoSwitchIsMissed
SYMMETRY MCMixedSymmetry
