SPECIFICATION Spec
CONSTANTS
    Procs = {p1, p2, p3}
    Blocks = {b1, b2, b3}
    Data = {0, 1}
    NBUF = 2
    MaxPins = 1
    None = None
SYMMETRY Symmetry
INVARIANTS CacheIntact
PROPERTIES ImplementsBlockStore
CHECK_DEADLOCK FALSE
