SPECIFICATION FairSpec
CONSTANTS
    NPROC = 4
    MaxPid = 4
    Status = {"ok"}
    KillPids = {0, 2, 3}
INVARIANTS ExitReachesParent FreedOffStack
PROPERTIES OrphansReaped
