CONSTANTS
    Threads = {t1, t2}
    Kinds = {"math"}
SPECIFICATION Spec
INVARIANT OperandsBelongToInstruction
