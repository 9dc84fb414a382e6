CONSTANTS
    NULL = NULL
    Other = Other
    l1 = l1
    l2 = l2
    l3 = l3
    l4 = l4
    Priorities = {0, 7, 8, 31, 32, 62, 63}
    MaxThreads = 2
    Entry = {e1, e2, e3}
    Intervals = {0, 1, 3, 10}
    MILLIS_PER_TICK = 3
    TickRange = 9
    MillisRange = 8
    Wraps = FALSE
    MaxLate = 2
    HeapSize = 10
    MinimumBlock = 2
    Requests = {1, 3}
    Kinds = {"nonCollectible", "collectible"}
    Thread = {thread}
    Collects = TRUE
    Preemptive = FALSE
SPECIFICATION LibrariesSpec
INVARIANTS
    HighestIsFound
    AtMostOneTickLate
    HeapIsInOrder
PROPERTIES
    ImplementsSequences
    NeverEarly
    ImplementsAllocator
