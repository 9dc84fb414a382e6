CONSTANTS
    NULL = NULL
    ERROR = ERROR
    Unset = Unset
    Thread = {t1, t2}
    A = A
    S = S
    I = I
    J = J
    Monitor = {A, S, I, J}
    MaxDepth = 3
    Hierarchies <- MCHierarchies
    Defective = {A, J}
    MonitorReadIsAtomic = TRUE
    ConstantCount = 4
    MethodCount = 2
    Parts = {"loading", "classes", "text", "pools", "file"}
    Signedness = {TRUE, FALSE}
SPECIFICATION LoaderSpec
INVARIANTS
    LoadedOnce
    LayoutIsExact
    VirtualTableIsRight
    InterfaceCallsAreRight
    ResolvedAreTheNearest
    TypeChecksAreRight
    TypesAreVerified
    StringsAreExact
    KeysAreExact
    MemoryIsAccountedFor
    ReadErrorsAreCaught
PROPERTIES
    ParentsAreLoadedFirst
    LoadingEnds
CHECK_DEADLOCK FALSE
