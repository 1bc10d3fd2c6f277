SPECIFICATION FairSpec
CONSTANTS
    Procs = {p1, p2}
    Blocks = {b1, b2}
    Data = {v1, v2}
    NotCached = NotCached
    NoProc = NoProc
    LOGBLOCKS = 6
    MAXOPBLOCKS = 3
    OpBlocks = 2
    CanCrash = TRUE
INVARIANTS IInv 
PROPERTIES ImplementsAtomicDisk LogProgress
