SPECIFICATION Spec
CONSTANTS
    Procs = {p1, p2}
    Cpus = {c1, c2}
    None = None
SYMMETRY Symmetry
INVARIANTS OneCpuPerProcess LocksAndInterrupts NoLostWakeup
