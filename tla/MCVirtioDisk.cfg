SPECIFICATION Spec
CONSTANTS
    Procs = {p1, p2, p3}
    NUM = 8
    IdxMod = 16
    NoBuf = NoBuf
SYMMETRY Symmetry
INVARIANTS DescriptorsAccounted DoneMeansTransferred SleepersHaveCause
