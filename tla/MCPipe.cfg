SPECIFICATION MCSpec
CONSTANTS
    Readers = {r1}
    Writers = {w1, w2}
    Killable = {r1, w1}
    Bytes = {0, 1}
    PIPESIZE = 2
    UintMod = 4
    MaxN = 2
    GREPBUF = 5
    WCBUF = 3
    Patterns <- UpToTwoAtoms
    Texts <- SmallTexts
INVARIANTS PipeSafe GrepPrintsMatches WcCounts
PROPERTIES ImplementsByteChannel CloseEndsCalls
CHECK_DEADLOCK FALSE
