SPECIFICATION Spec
CONSTANTS
    p1 = p1
    p2 = p2
    Procs = {p1, p2}
    NINODES = 3
    Names = {"a", "b"}
    Paths <- FlatPaths
    Calls <- TwoRoles
    NoProc = NoProc
INVARIANTS InodeRefExact ReferencedIsAllocated FreedInTime DirectoriesFormTree
