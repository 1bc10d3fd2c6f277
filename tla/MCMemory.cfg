SPECIFICATION MCSpec
CONSTANTS
    Procs = {p1, p2}
    First = p1
    MemorySizes = {10, 13}
    PGSIZE = 2
    MAXVPN = 6
    FANOUT = 2
    USERSTACK = 1
    Deltas = {1, 3}
    Images = {1, 4}
    MaxSize = 8
    NoProc = NoProc
    HeaderSize = 2
    MinUnits = 3
    MaxBreak = 8
    Requests = {0, 1, 5}
    OwnUnits = {1}
INVARIANTS  HeapSafe
PROPERTIES KeepsItsPages GrowsOnlyWhenNeeded
