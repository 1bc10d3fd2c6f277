SPECIFICATION MkfsSpec
CONSTANTS
    Files <- TwoInodes
    NBLOCKS = 4
    NDIRECT = 1
    NINDIRECT = 2
    BSIZE = 2
    BPB = 3
    MAXOPBLOCKS = 6
    Lengths = {1, 5}
    FileLists <- OneFile
INVARIANTS  FitsTheLog 
