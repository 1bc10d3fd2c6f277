-------------------------------- MODULE Mkfs --------------------------------
(***************************************************************************)
(* The program that builds the first file system (mkfs/mkfs.c), and the    *)
(* kernel's block map started on what it built.  mkfs makes the root       *)
(* directory, appends the files it is given, and marks in the bitmap what  *)
(* it has used.  The blocks of the log, the inodes and the bitmap come     *)
(* first on the disk and are left out, as in BlockMap; a directory entry   *)
(* is one unit of a block, and inodes are numbered by Files.               *)
(***************************************************************************)
EXTENDS BlockMap, Sequences

CONSTANT
    FileLists       \* what mkfs may be given: the lengths of the files

NINODES == Cardinality(Files)
ROOTINO == 1

ASSUME InodesNumbered ==
    Files = 1 .. NINODES /\ \A l \in FileLists : Len(l) < NINODES

VARIABLE
    img             \* the image and the variables of mkfs

(* data: what each unit of a block holds, as inode and offset; dir: the    *)
(* inodes that the entries of the root name; rest: of the files not yet    *)
(* copied, the units not yet read.                                         *)
Blank(files) ==
    [freeinode |-> 1, freeblock |-> 1,
     addrs |-> [i \in Files |-> [s \in Slots |-> NoBlock]],
     size |-> [i \in Files |-> 0],
     content |-> [b \in Blocks |-> Zeroes],
     data |-> [b \in Blocks |-> [u \in 0 .. BSIZE - 1 |-> <<>>]],
     dir |-> <<>>, phase |-> "root", rest |-> files]

MkfsInit == Init /\ \E files \in FileLists : img = Blank(files)

-----------------------------------------------------------------------------
(* iappend finds the block of file i for block number fbn, or takes the    *)
(* next free one; beyond the direct blocks, through the indirect block.    *)
HasBlockNever(b) == FALSE
HasBlock(b) == b # NoBlock
InSlot(m, i, s) ==
    IF HasBlock(m.addrs[i][s]) THEN m
    ELSE [m EXCEPT !.addrs[i][s] = m.freeblock, !.freeblock = @ + 1]
InIndirect(m, b, j) ==
    IF HasBlock(m.content[b][j]) THEN m
    ELSE [m EXCEPT !.content[b][j] = m.freeblock, !.freeblock = @ + 1]
ThroughIndirect(m, i, j) == InIndirect(m, m.addrs[i][NDIRECT], j)
WithBlock(m, i, fbn) ==
    IF fbn < NDIRECT THEN InSlot(m, i, fbn)
    ELSE ThroughIndirect(InSlot(m, i, NDIRECT), i, fbn - NDIRECT)
BlockAt(m, i, fbn) ==
    IF fbn < NDIRECT THEN m.addrs[i][fbn]
    ELSE m.content[m.addrs[i][NDIRECT]][fbn - NDIRECT]

(* One round of its loop: the block is read, n1 units of it are replaced   *)
(* from its position start on, and it is written back.                     *)
Replaced(m, i, b, o, start, n1) ==
    [m EXCEPT !.data[b] = [u \in DOMAIN @ |-> IF u \in start .. start + n1 - 1
                                              THEN <<i, o + u - start>> ELSE @[u]],
              !.size[i] = o + n1]
Round(m, i, o, n1) == Replaced(m, i, BlockAt(m, i, o \div BSIZE), o, o % BSIZE, n1)

FirstPart(o, n) == Min({n, BSIZE - (o % BSIZE)})

RECURSIVE iappend(_, _, _)
iappend(m, i, n) ==
    IF n = 0 THEN m
    ELSE iappend(Round(WithBlock(m, i, m.size[i] \div BSIZE), i, m.size[i],
                       FirstPart(m.size[i], n)),
                 i, n - FirstPart(m.size[i], n))

ialloc(m) == [m EXCEPT !.freeinode = @ + 1]
Entry(m, i) == iappend([m EXCEPT !.dir = Append(@, i)], ROOTINO, 1)

-----------------------------------------------------------------------------
(* main: the root directory with "." and "..", *)
MakeRoot ==
    /\ img.phase = "root"
    /\ img' = [Entry(Entry(ialloc(img), ROOTINO), ROOTINO) EXCEPT !.phase = "next"]
    /\ UNCHANGED vars

(* each file in turn: an inode and an entry ... *)
NextFile ==
    /\ img.phase = "next" /\ img.rest # <<>>
    /\ img' = [Entry(ialloc(img), img.freeinode) EXCEPT !.phase = "copy"]
    /\ UNCHANGED vars

(* ... and what each read returns, until there is no more; *)
CopyChunk(cc) ==
    /\ img.phase = "copy" /\ cc <= Head(img.rest)
    /\ img' = [iappend(img, img.freeinode - 1, cc) EXCEPT !.rest[1] = @ - cc]
    /\ UNCHANGED vars

CopyEnds ==
    /\ img.phase = "copy" /\ Head(img.rest) = 0
    /\ img' = [img EXCEPT !.phase = "next", !.rest = Tail(@)]
    /\ UNCHANGED vars

(* then the root's size is rounded up and the bitmap written.  The kernel  *)
(* starts on that disk.                                                    *)
Used(m) == 1 .. m.freeblock - 1
RootSize(o) == ((o \div BSIZE) + 1) * BSIZE

Finish ==
    /\ img.phase = "next" /\ img.rest = <<>>
    /\ img' = [img EXCEPT !.size[ROOTINO] = RootSize(@), !.phase = "done"]
    /\ bitmap' = Used(img)
    /\ content' = img.content /\ addrs' = img.addrs /\ size' = img'.size
    /\ UNCHANGED <<pc, off, left, chunk, logged>>

Boot ==
    /\ img.phase = "done"
    /\ img' = [Blank(<<>>) EXCEPT !.phase = "booted"]
    /\ UNCHANGED vars

MkfsNext ==
    \/ MakeRoot \/ NextFile \/ CopyEnds \/ Finish \/ Boot
    \/ \E cc \in 1 .. BSIZE : CopyChunk(cc)
    \/ img.phase = "booted" /\ Next /\ UNCHANGED img

MkfsSpec == MkfsInit /\ [][MkfsNext]_<<vars, img>>

-----------------------------------------------------------------------------
(* What is appended piece by piece, a block at a time or less, to several  *)
(* files in turn is found where the kernel looks for it, none of it        *)
(* overwritten, and the root's entries name the inodes that were filled.   *)
ImageReadsBack ==
    img.phase = "done" =>
        /\ \A i \in Files :
              \A u \in 0 .. (IF i = ROOTINO THEN Len(img.dir) ELSE size[i]) - 1 :
                 img.data[BlockAt(img, i, u \div BSIZE)][u % BSIZE] = <<i, u>>
        /\ img.dir = <<ROOTINO, ROOTINO>> \o [k \in 1 .. img.freeinode - 2 |-> k + 1]
=============================================================================
