CONSTANTS
    Idle = Idle
    Threads = {t1, t2, t3}
    Kinds = {"getstatic", "getfield", "getfield_0", "invokestatic", "invokeinterface", "value"}
    Parts = {"frames", "handlers", "quick", "arithmetic", "natives"}
    StrayHandlers = {}
SPECIFICATION ExecutionSpec
INVARIANTS
    FramesAreExact
    CollectorMissesNothingElse
    HandlersKeepTheirPromise
    QuickFormsAreSafe
    ArithmeticIsExact
    NativesKeepTheirPromise
CHECK_DEADLOCK FALSE
