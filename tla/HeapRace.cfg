CONSTANTS
    NULL = NULL
    Other = Other
    HeapSize = 6
    MinimumBlock = 2
    Requests = {1, 3}
    Kinds = {"nonCollectible"}
    Thread = {t1, t2}
    Collects = FALSE
    Preemptive = TRUE
SPECIFICATION HeapSpec
INVARIANTS
    HeapIsTiled
