------------------------------ MODULE BlockMap ------------------------------
(***************************************************************************)
(* Where files keep their data (kernel/fs.c): balloc, bfree, bmap, itrunc  *)
(* and writei, under filewrite's loop of transactions (kernel/file.c).     *)
(* Each file is written by one process at a time, as ip->lock sees to;     *)
(* different files compete for the blocks.  Sizes and offsets are in units *)
(* of which BSIZE make a block.                                            *)
(***************************************************************************)
EXTENDS Naturals, FiniteSets, FiniteSetsExt

CONSTANTS
    Files,
    NBLOCKS,            \* data blocks are 1 .. NBLOCKS
    NDIRECT, NINDIRECT, \* block numbers in the inode and in an indirect block
    BSIZE,
    MAXOPBLOCKS,        \* blocks a transaction may write
    BPB,                \* bits in a bitmap block
    Lengths             \* the n of writes

ASSUME SizesAreNat ==
    /\ {NBLOCKS, NDIRECT, NINDIRECT, BSIZE, BPB} \subseteq Nat \ {0}
    /\ Lengths \subseteq Nat \ {0} /\ Lengths # {}
    /\ MAXOPBLOCKS \in Nat /\ MAXOPBLOCKS >= 6

Blocks == 1 .. NBLOCKS
NoBlock == 0
InodeBlock == NBLOCKS + 1           \* the block that holds the inodes
BBLOCK(b) == InodeBlock + 1 + b \div BPB    \* the bitmap block with b's bit
MAXFILE == NDIRECT + NINDIRECT
Slots == 0 .. NDIRECT               \* slot NDIRECT names the indirect block
Indirect == 0 .. NINDIRECT - 1
Zeroes == [j \in Indirect |-> NoBlock]

VARIABLES
    bitmap,         \* blocks marked in use
    content,        \* the block numbers that each block, read as indirect, lists
    addrs, size,    \* of each inode
    pc,             \* where the write of each file is
    off, left,      \* filewrite: f->off, bytes still to write
    chunk,          \* writei: bytes of this transaction still to write
    logged          \* the blocks this transaction has given to log_write

vars == <<bitmap, content, addrs, size, pc, off, left, chunk, logged>>

MaxSize == MAXFILE * BSIZE

TypeOK ==
    /\ bitmap \subseteq Blocks
    /\ content \in [Blocks -> [Indirect -> Blocks \cup {NoBlock}]]
    /\ addrs \in [Files -> [Slots -> Blocks \cup {NoBlock}]]
    /\ size \in [Files -> 0 .. MaxSize] /\ off \in [Files -> 0 .. MaxSize]
    /\ pc \in [Files -> {"idle", "begin", "write", "update", "stop"}]
    /\ left \in [Files -> 0 .. Max(Lengths)] /\ chunk \in [Files -> 0 .. Max(Lengths)]
    /\ logged \in [Files -> SUBSET (Blocks \cup {InodeBlock} \cup {BBLOCK(b) : b \in Blocks})]

Init ==
    /\ bitmap = {}
    /\ content = [b \in Blocks |-> Zeroes]
    /\ addrs = [f \in Files |-> [s \in Slots |-> NoBlock]]
    /\ size = [f \in Files |-> 0] /\ off = [f \in Files |-> 0]
    /\ pc = [f \in Files |-> "idle"]
    /\ left = [f \in Files |-> 0] /\ chunk = [f \in Files |-> 0]
    /\ logged = [f \in Files |-> {}]

-----------------------------------------------------------------------------
(* A disk d: bitmap, content, the addrs of one inode, the blocks logged.   *)
(* balloc takes the first free block and zeroes it; b is 0 if none.        *)
FreeBlock(d) == LET F == Blocks \ d.bitmap IN IF F = {} THEN NoBlock ELSE Min(F)
Bzero(c, b) == [c EXCEPT ![b] = Zeroes]
Balloc(d) ==
    LET b == FreeBlock(d) IN
    IF b = NoBlock THEN d
    ELSE [d EXCEPT !.bitmap = @ \cup {b}, !.content = Bzero(@, b),
                   !.logged = @ \cup {BBLOCK(b), b}]

(* bmap for block bn: the disk afterwards, and the block (0: none). *)
BmapDirect(d, bn) ==
    IF d.addrs[bn] # NoBlock THEN [disk |-> d, addr |-> d.addrs[bn]]
    ELSE [disk |-> [Balloc(d) EXCEPT !.addrs[bn] = FreeBlock(d)],
          addr |-> FreeBlock(d)]

IndirectLoaded(d) == BmapDirect(d, NDIRECT)
BmapIndirect(d, j) ==
    LET l == IndirectLoaded(d)
        e == l.disk
    IN IF l.addr = NoBlock THEN [disk |-> e, addr |-> NoBlock]
       ELSE IF e.content[l.addr][j] # NoBlock
       THEN [disk |-> e, addr |-> e.content[l.addr][j]]
       ELSE IF FreeBlock(e) = NoBlock THEN [disk |-> e, addr |-> NoBlock]
       ELSE [disk |-> [Balloc(e) EXCEPT !.content[l.addr][j] = FreeBlock(e),
                                        !.logged = @ \cup {l.addr}],
             addr |-> FreeBlock(e)]

Bmap(d, bn) == IF bn < NDIRECT THEN BmapDirect(d, bn)
               ELSE BmapIndirect(d, bn - NDIRECT)

DiskOf(f) == [bitmap |-> bitmap, content |-> content, addrs |-> addrs[f],
              logged |-> logged[f]]
SetDisk(f, d) ==
    /\ bitmap' = d.bitmap
    /\ content' = d.content
    /\ addrs' = [addrs EXCEPT ![f] = d.addrs]
    /\ logged' = [logged EXCEPT ![f] = d.logged]

-----------------------------------------------------------------------------
(* filewrite: n bytes at the file's offset, in chunks that fit the log.    *)
(* The offset is anywhere up to the size, as other descriptors leave it.   *)
Write(f, o, n) ==
    /\ pc[f] = "idle" /\ o <= size[f]
    /\ off' = [off EXCEPT ![f] = o]
    /\ left' = [left EXCEPT ![f] = n]
    /\ pc' = [pc EXCEPT ![f] = "begin"]
    /\ UNCHANGED <<bitmap, content, addrs, size, chunk, logged>>

ChunkOfAll(f) == left[f]
Chunk(f) == Min({left[f], ((MAXOPBLOCKS - 1 - 1 - 2) \div 2) * BSIZE})

(* begin_op, and writei's checks; a write beyond the largest file fails. *)
Begin(f) ==
    /\ pc[f] = "begin"
    /\ IF off[f] > size[f] \/ off[f] + Chunk(f) > MaxSize
       THEN /\ pc' = [pc EXCEPT ![f] = "stop"]
            /\ UNCHANGED <<chunk, logged>>
       ELSE /\ pc' = [pc EXCEPT ![f] = "write"]
            /\ chunk' = [chunk EXCEPT ![f] = Chunk(f)]
            /\ logged' = [logged EXCEPT ![f] = {}]
    /\ UNCHANGED <<bitmap, content, addrs, size, off, left>>

(* One round of writei's loop: find or allocate the block, fill it ... *)
WriteBlock(f) ==
    /\ pc[f] = "write" /\ chunk[f] > 0
    /\ LET m == Bmap(DiskOf(f), off[f] \div BSIZE)
           len == Min({chunk[f], BSIZE - (off[f] % BSIZE)})
       IN /\ m.addr # NoBlock
          /\ SetDisk(f, [m.disk EXCEPT !.logged = @ \cup {m.addr}])
          /\ off' = [off EXCEPT ![f] = @ + len]
          /\ left' = [left EXCEPT ![f] = @ - len]
          /\ chunk' = [chunk EXCEPT ![f] = @ - len]
    /\ UNCHANGED <<size, pc>>

(* ... or the disk is full, or either_copyin fails with the block already  *)
(* allocated: the loop ends early.                                         *)
WriteStops(f) ==
    /\ pc[f] = "write" /\ chunk[f] > 0
    /\ SetDisk(f, Bmap(DiskOf(f), off[f] \div BSIZE).disk)
    /\ pc' = [pc EXCEPT ![f] = "update"]
    /\ UNCHANGED <<size, off, left, chunk>>

WriteDone(f) ==
    /\ pc[f] = "write" /\ chunk[f] = 0
    /\ pc' = [pc EXCEPT ![f] = "update"]
    /\ UNCHANGED <<bitmap, content, addrs, size, off, left, chunk, logged>>

(* writei's end: the size grows, the inode is logged, the transaction      *)
(* ends; filewrite goes on unless the chunk was cut short.                 *)
NewSize(f) == Max({size[f], off[f]})

Update(f) ==
    /\ pc[f] = "update"
    /\ size' = [size EXCEPT ![f] = NewSize(f)]
    /\ logged' = [logged EXCEPT ![f] = @ \cup {InodeBlock}]
    /\ pc' = [pc EXCEPT ![f] = IF chunk[f] = 0 /\ left[f] > 0 THEN "begin" ELSE "stop"]
    /\ UNCHANGED <<bitmap, content, addrs, off, left, chunk>>

Return(f) ==
    /\ pc[f] = "stop"
    /\ pc' = [pc EXCEPT ![f] = "idle"]
    /\ off' = [off EXCEPT ![f] = 0] /\ left' = [left EXCEPT ![f] = 0]
    /\ chunk' = [chunk EXCEPT ![f] = 0] /\ logged' = [logged EXCEPT ![f] = {}]
    /\ UNCHANGED <<bitmap, content, addrs, size>>

(* itrunc (O_TRUNC, or iput of the last link): every block goes back, the  *)
(* indirect block's and then the indirect block itself.                    *)
Direct(f) == {addrs[f][s] : s \in 0 .. NDIRECT - 1} \ {NoBlock}
Listed(f) == IF addrs[f][NDIRECT] = NoBlock THEN {}
             ELSE {content[addrs[f][NDIRECT]][j] : j \in Indirect} \ {NoBlock}
BlocksOf(f) == Direct(f) \cup Listed(f) \cup ({addrs[f][NDIRECT]} \ {NoBlock})
FreedNoIndirect(f) == Direct(f) \cup Listed(f)
Freed(f) == BlocksOf(f)

Truncate(f) ==
    /\ pc[f] = "idle"
    /\ bitmap' = bitmap \ Freed(f)
    /\ addrs' = [addrs EXCEPT ![f] = [s \in Slots |-> NoBlock]]
    /\ size' = [size EXCEPT ![f] = 0]
    /\ UNCHANGED <<content, pc, off, left, chunk, logged>>

Next ==
    \E f \in Files :
        \/ \E o \in 0 .. MaxSize, n \in Lengths : Write(f, o, n)
        \/ Begin(f) \/ WriteBlock(f) \/ WriteStops(f) \/ WriteDone(f) \/ Update(f)
        \/ Return(f) \/ Truncate(f)

Spec == Init /\ [][Next]_vars

-----------------------------------------------------------------------------
(* The addresses a file holds, indirect ones included. *)
Count(f) == Cardinality({s \in Slots : addrs[f][s] # NoBlock})
            + (IF addrs[f][NDIRECT] = NoBlock THEN 0
               ELSE Cardinality({j \in Indirect :
                                   content[addrs[f][NDIRECT]][j] # NoBlock}))

(* A block belongs to one place: no two files, and no two offsets of a     *)
(* file, share one.  The bitmap marks those blocks and no others: none is  *)
(* lost when the disk is full or a copy fails, none is freed while in use, *)
(* and bfree never meets a free block.                                     *)
BitmapExact ==
    /\ TypeOK
    /\ \A f \in Files : Cardinality(BlocksOf(f)) = Count(f)
    /\ \A f, g \in Files : f # g => BlocksOf(f) \cap BlocksOf(g) = {}
    /\ bitmap = UNION {BlocksOf(f) : f \in Files}

Mapped(f, bn) ==
    IF bn < NDIRECT THEN addrs[f][bn] # NoBlock
    ELSE /\ addrs[f][NDIRECT] # NoBlock
         /\ content[addrs[f][NDIRECT]][bn - NDIRECT] # NoBlock

(* Every block below the size of a file exists, so that readi, which runs  *)
(* outside a transaction, finds it and does not allocate.                  *)
NoHoles == \A f \in Files : \A bn \in 0 .. MAXFILE - 1 :
               bn * BSIZE < size[f] => Mapped(f, bn)

(* No transaction of filewrite logs more than MAXOPBLOCKS blocks, counting *)
(* data, bitmap, inode and indirect block, aligned or not.                 *)
FitsTheLog == \A f \in Files : Cardinality(logged[f]) <= MAXOPBLOCKS

(* The blocks on disk are consistent, between transactions and within.     *)
BlocksExact == BitmapExact /\ NoHoles
=============================================================================
