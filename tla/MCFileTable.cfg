SPECIFICATION MCSpec
CONSTANTS
    Procs = {p1, p2}
    First = p1
    NFILE = 3
    NOFILE = 2
    Pipes = {q1}
    MAXARGS = 3
    NPROC = 7
    NDESC = 6
    PIPESIZE = 1
    MaxLines = 2
    MaxInput = 1
    Sessions <- Typed
    ShortLine = 4
    LongLine = 5
INVARIANTS ReferencesExact StdioAsWritten SequencedAsWritten ParsedAsMeant
PROPERTIES PromptReturns
