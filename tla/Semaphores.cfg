CONSTANTS
    NULL = NULL
    idle = idle
    t1 = t1
    t2 = t2
    t3 = t3
    m1 = m1
    s1 = s1
    Thread = {idle, t1, t2, t3}
    IdleThread = idle
    Monitor = {}
    Semaphore = {s1}
    InitialPriority <- MCMixedPriority
    InitialCount <- MCCount
    NewPriorities = {31, 32}
    Operations = {"semaphore", "setPriority", "rescheduler", "sleep"}
    Disciplines = {"OtherPriority", "PendFirst"}
    MaxDepth = 0
    MaxCount = 2
    MaxDisabled = 2
SPECIFICATION Spec
INVARIANTS
    ThreadsAreWhereTheyShow
    CounterCountsPended
PROPERTIES
    HighestReleasedFirst
