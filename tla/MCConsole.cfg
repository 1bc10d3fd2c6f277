SPECIFICATION MCSpec
CONSTANTS
    Readers = {r1, r2}
    INPUT_BUF_SIZE = 3
    UintMod = 6
    MaxN = 2
    Writers = {w1, w2}
    Pollers = {c1}
    Writes = {0, 3}
    ChunkSize = 2
    MaxRx = 1
INVARIANTS InputSafe TransmitterSafe
PROPERTIES ImplementsLineDiscipline SleeperIsWoken
