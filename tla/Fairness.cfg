CONSTANTS
    NULL = NULL
    idle = idle
    t1 = t1
    t2 = t2
    t3 = t3
    m1 = m1
    s1 = s1
    Thread = {idle, t1, t2, t3}
    IdleThread = idle
    Monitor = {m1}
    Semaphore = {}
    InitialPriority <- MCMixedPriority
    InitialCount <- MCCount
    NewPriorities = {}
    Operations = {"sleep", "yield", "monitor", "wait", "notify"}
    Disciplines = {}
    MaxDepth = 1
    MaxCount = 0
    MaxDisabled = 0
SPECIFICATION FairSpec
PROPERTIES
    RoundRobin
    NeverOvertakenForEver
