CONSTANTS
    NULL = NULL
    idle = idle
    t1 = t1
    t2 = t2
    t3 = t3
    m1 = m1
    s1 = s1
    Thread = {idle, t1, t2, t3}
    IdleThread = idle
    Monitor = {m1}
    Semaphore = {}
    InitialPriority <- MCPriority
    InitialCount <- MCCount
    NewPriorities = {}
    Operations = {"monitor", "timedWait", "notify", "notifyAll", "interrupt"}
    Disciplines = {"CarefulInterrupt", "LetSleep"}
    MaxDepth = 2
    MaxCount = 0
    MaxDisabled = 0
SPECIFICATION Spec
INVARIANTS
    SleepersWillBeWoken
PROPERTIES
    ImplementsMonitors
SYMMETRY MCSymmetry
