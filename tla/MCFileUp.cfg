SPECIFICATION Spec
CONSTANTS
    p1 = p1
    p2 = p2
    Procs = {p1}
    NINODES = 3
    Names = {"a"}
    Paths <- UpPaths
    Calls <- OneRole
    NoProc = NoProc
INVARIANTS ReferencedIsAllocated
