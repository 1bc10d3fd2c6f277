------------------------------ MODULE BufCache ------------------------------
(***************************************************************************)
(* The buffer cache (kernel/bio.c) and the sleep-locks on its buffers      *)
(* (kernel/sleeplock.c): bget, bread, bwrite, brelse, bpin, bunpin.        *)
(* Processes use it as fs.c and log.c do: read a block, change it, write   *)
(* it through or pin it, release it, and later write and unpin it.  One    *)
(* device; a process uses one buffer at a time.                            *)
(***************************************************************************)
EXTENDS Naturals, FiniteSets

CONSTANTS
    Procs,          \* processes
    Blocks,         \* block numbers
    Data,           \* contents of a block
    NBUF,           \* buffers in the cache
    MaxPins,        \* bound on the pins the log holds at a time
    None            \* no process, no block

ASSUME SizesAreNat == NBUF \in Nat \ {0} /\ MaxPins \in Nat
ASSUME NoneFresh == None \notin Procs \cup Blocks

Bufs == 1 .. NBUF
Head == 0           \* &bcache.head
List == {Head} \cup Bufs

VARIABLES
    blockno,        \* b->blockno, None before first use
    valid,          \* b->valid
    refcnt,         \* b->refcnt
    data,           \* b->data
    next, prev,     \* the LRU list through bcache.head
    locked,         \* the process that holds b->lock, or None
    pc, buf,        \* where each process is, and the buffer it uses
    pins,           \* pins the log holds on each buffer
    dirty,          \* buffers changed since they were read or written
    disk,           \* the blocks on the disk
    panicked        \* "bget: no buffers"

vars == <<blockno, valid, refcnt, data, next, prev, locked, pc, buf, pins, dirty,
          disk, panicked>>

TypeOK ==
    /\ blockno \in [Bufs -> Blocks \cup {None}]
    /\ valid \in [Bufs -> {0, 1}]
    /\ refcnt \in [Bufs -> 0 .. Cardinality(Procs) + MaxPins]
    /\ data \in [Bufs -> Data]
    /\ next \in [List -> List]
    /\ prev \in [List -> List]
    /\ locked \in [Bufs -> Procs \cup {None}]
    /\ pc \in [Procs -> {"idle", "lock", "asleep", "locked", "reading", "holding",
                         "writing", "released"}]
    /\ buf \in [Procs -> Bufs \cup {Head}]
    /\ pins \in [Bufs -> 0 .. MaxPins]
    /\ dirty \in SUBSET Bufs
    /\ disk \in [Blocks -> Data]
    /\ panicked \in {0, 1}

(* binit: buffers are inserted one by one behind the head. *)
Init ==
    /\ blockno = [i \in Bufs |-> None]
    /\ valid = [i \in Bufs |-> 0]
    /\ refcnt = [i \in Bufs |-> 0]
    /\ data \in [Bufs -> {CHOOSE d \in Data : TRUE}]
    /\ next = [i \in List |-> IF i = Head THEN NBUF ELSE i - 1]
    /\ prev = [i \in List |-> IF i = NBUF THEN Head ELSE i + 1]
    /\ locked = [i \in Bufs |-> None]
    /\ pc = [p \in Procs |-> "idle"]
    /\ buf = [p \in Procs |-> Head]
    /\ pins = [i \in Bufs |-> 0]
    /\ dirty = {}
    /\ disk \in [Blocks -> Data]
    /\ panicked = 0

-----------------------------------------------------------------------------
(* The k-th buffer from the head: the order bget searches, and, from the   *)
(* other end, the order in which it recycles.                              *)
Nth(link) == [k \in 0 .. NBUF |-> LET at[j \in 0 .. NBUF] ==
                                        IF j = 0 THEN Head ELSE link[at[j - 1]]
                                  IN at[k]]

(* Least recently used, unused buffer. *)
RecycledInUse(i) == Nth(prev)[1] = i
Recycled(i) ==
    \E k \in 1 .. NBUF :
        /\ Nth(prev)[k] = i
        /\ i # Head
        /\ refcnt[i] = 0
        /\ \A j \in 1 .. k - 1 : Nth(prev)[j] = Head \/ refcnt[Nth(prev)[j]] > 0

Cached(b) == {i \in Bufs : blockno[i] = b}

(* bget(b), under bcache.lock: the block is cached ... *)
BgetHit(p, b) ==
    /\ pc[p] = "idle"
    /\ \E i \in Cached(b) :
        /\ refcnt' = [refcnt EXCEPT ![i] = @ + 1]
        /\ buf' = [buf EXCEPT ![p] = i]
    /\ pc' = [pc EXCEPT ![p] = "lock"]
    /\ UNCHANGED <<blockno, valid, data, next, prev, locked, pins, dirty, disk,
                   panicked>>

(* ... or a buffer is recycled for it ... *)
BgetRecycle(p, b) ==
    /\ pc[p] = "idle"
    /\ Cached(b) = {}
    /\ \E i \in Bufs :
        /\ Recycled(i)
        /\ blockno' = [blockno EXCEPT ![i] = b]
        /\ valid' = [valid EXCEPT ![i] = 0]
        /\ refcnt' = [refcnt EXCEPT ![i] = 1]
        /\ buf' = [buf EXCEPT ![p] = i]
    /\ pc' = [pc EXCEPT ![p] = "lock"]
    /\ UNCHANGED <<data, next, prev, locked, pins, dirty, disk, panicked>>

(* ... or there is none. *)
BgetPanic(p, b) ==
    /\ pc[p] = "idle"
    /\ Cached(b) = {}
    /\ ~ \E i \in Bufs : Recycled(i)
    /\ panicked' = 1
    /\ UNCHANGED <<blockno, valid, refcnt, data, next, prev, locked, pc, buf, pins,
                   dirty, disk>>

(* acquiresleep: take the lock, or sleep until a release wakes the process *)
(* to try again.                                                           *)
AcquireSleep(p) ==
    /\ pc[p] = "lock"
    /\ IF locked[buf[p]] = None
       THEN /\ locked' = [locked EXCEPT ![buf[p]] = p]
            /\ pc' = [pc EXCEPT ![p] = "locked"]
       ELSE /\ pc' = [pc EXCEPT ![p] = "asleep"]
            /\ UNCHANGED locked
    /\ UNCHANGED <<blockno, valid, refcnt, data, next, prev, buf, pins, dirty, disk,
                   panicked>>

(* The rest of bread: an invalid buffer is read from the disk. *)
Bread(p) ==
    /\ pc[p] = "locked"
    /\ pc' = [pc EXCEPT ![p] = IF valid[buf[p]] = 0 THEN "reading" ELSE "holding"]
    /\ UNCHANGED <<blockno, valid, refcnt, data, next, prev, locked, buf, pins,
                   dirty, disk, panicked>>

DiskRead(p) ==
    /\ pc[p] = "reading"
    /\ data' = [data EXCEPT ![buf[p]] = disk[blockno[buf[p]]]]
    /\ valid' = [valid EXCEPT ![buf[p]] = 1]
    /\ pc' = [pc EXCEPT ![p] = "holding"]
    /\ UNCHANGED <<blockno, refcnt, next, prev, locked, buf, pins, dirty, disk,
                   panicked>>

(* The caller changes the block it holds. *)
Modify(p, d) ==
    /\ pc[p] = "holding"
    /\ data' = [data EXCEPT ![buf[p]] = d]
    /\ dirty' = dirty \cup {buf[p]}
    /\ UNCHANGED <<blockno, valid, refcnt, next, prev, locked, pc, buf, pins, disk,
                   panicked>>

(* bwrite: virtio_disk_rw(b, 1) sleeps until the disk is done. *)
Bwrite(p) ==
    /\ pc[p] = "holding"
    /\ pc' = [pc EXCEPT ![p] = "writing"]
    /\ UNCHANGED <<blockno, valid, refcnt, data, next, prev, locked, buf, pins,
                   dirty, disk, panicked>>

DiskWrite(p) ==
    /\ pc[p] = "writing"
    /\ disk' = [disk EXCEPT ![blockno[buf[p]]] = data[buf[p]]]
    /\ dirty' = dirty \ {buf[p]}
    /\ pc' = [pc EXCEPT ![p] = "holding"]
    /\ UNCHANGED <<blockno, valid, refcnt, data, next, prev, locked, buf, pins,
                   panicked>>

(* b->refcnt-- *)
UnrefAll(i) == [refcnt EXCEPT ![i] = 0]
Unref(i) == [refcnt EXCEPT ![i] = @ - 1]

(* bpin by log_write, once per block; bunpin by install_trans, after it    *)
(* wrote the block.                                                        *)
Bpin(p) ==
    /\ pc[p] = "holding"
    /\ pins[buf[p]] = 0
    /\ Cardinality({i \in Bufs : pins[i] > 0}) < MaxPins
    /\ pins' = [pins EXCEPT ![buf[p]] = 1]
    /\ refcnt' = [refcnt EXCEPT ![buf[p]] = @ + 1]
    /\ UNCHANGED <<blockno, valid, data, next, prev, locked, pc, buf, dirty, disk,
                   panicked>>

Bunpin(p) ==
    /\ pc[p] = "holding"
    /\ pins[buf[p]] = 1
    /\ buf[p] \notin dirty
    /\ pins' = [pins EXCEPT ![buf[p]] = 0]
    /\ refcnt' = Unref(buf[p])
    /\ UNCHANGED <<blockno, valid, data, next, prev, locked, pc, buf, dirty, disk,
                   panicked>>

(* brelse: releasesleep wakes every process asleep on the lock ...  The    *)
(* log's clients never release a changed block that is not pinned.         *)
WokenBy(i) == [q \in Procs |-> IF pc[q] = "asleep" /\ buf[q] = i THEN "lock"
                               ELSE pc[q]]

ReleaseSleep(p) ==
    /\ pc[p] = "holding"
    /\ buf[p] \in dirty => pins[buf[p]] > 0
    /\ locked' = [locked EXCEPT ![buf[p]] = None]
    /\ pc' = [WokenBy(buf[p]) EXCEPT ![p] = "released"]
    /\ UNCHANGED <<blockno, valid, refcnt, data, next, prev, buf, pins, dirty, disk,
                   panicked>>

(* ... then, under bcache.lock, an unused buffer becomes the most recently *)
(* used.  The six assignments in their order: unlink, then insert.         *)
Unlink(i) == [n |-> [next EXCEPT ![prev[i]] = next[i]],
              v |-> [prev EXCEPT ![next[i]] = prev[i]]]
InsertFirst(i, l) ==
    LET v1 == [l.v EXCEPT ![i] = Head]
        n1 == [l.n EXCEPT ![i] = l.n[Head]]
    IN [n |-> [n1 EXCEPT ![Head] = i], v |-> [v1 EXCEPT ![n1[Head]] = i]]

Brelse(p) ==
    /\ pc[p] = "released"
    /\ LET i == buf[p]
           l == InsertFirst(i, Unlink(i))
       IN /\ refcnt' = Unref(i)
          /\ next' = IF refcnt[i] = 1 THEN l.n ELSE next
          /\ prev' = IF refcnt[i] = 1 THEN l.v ELSE prev
    /\ buf' = [buf EXCEPT ![p] = Head]
    /\ pc' = [pc EXCEPT ![p] = "idle"]
    /\ UNCHANGED <<blockno, valid, data, locked, pins, dirty, disk, panicked>>

Next ==
    /\ panicked = 0
    /\ \E p \in Procs :
        \/ \E b \in Blocks : BgetHit(p, b) \/ BgetRecycle(p, b) \/ BgetPanic(p, b)
        \/ AcquireSleep(p) \/ Bread(p) \/ DiskRead(p)
        \/ \E d \in Data : Modify(p, d)
        \/ Bwrite(p) \/ DiskWrite(p) \/ Bpin(p) \/ Bunpin(p)
        \/ ReleaseSleep(p) \/ Brelse(p)

Spec == Init /\ [][Next]_vars

-----------------------------------------------------------------------------
(* From bget to brelse. *)
Users(i) == {p \in Procs : buf[p] = i}

(* refcnt counts the processes that use or wait for the buffer and the     *)
(* pins: the buffer is not recycled under any, and "bget: no buffers"      *)
(* happens only when every buffer is really in use.                        *)
RefcntExact ==
    TypeOK /\ \A i \in Bufs : refcnt[i] = Cardinality(Users(i)) + pins[i]

(* The LRU list stays a ring of all buffers: from the head, every buffer   *)
(* is reached exactly once in either direction, and prev undoes next.      *)
ListIntact ==
    /\ \A i \in List : prev[next[i]] = i
    /\ {Nth(next)[k] : k \in 0 .. NBUF} = List
    /\ next[Nth(next)[NBUF]] = Head

(* No process sleeps on a sleep-lock that is free. *)
NoSleeperOnFreeLock ==
    \A p \in Procs : pc[p] = "asleep" => locked[buf[p]] # None

(* The cache's bookkeeping survives every interleaving of bget, brelse,    *)
(* bpin and bunpin: counts, ring and sleep-locks agree with the users.     *)
CacheIntact == RefcntExact /\ ListIntact /\ NoSleeperOnFreeLock

Holding(p, b) == pc[p] \in {"holding", "writing"} /\ blockno[buf[p]] = b
BS == INSTANCE BlockStore WITH
        holder <- [b \in Blocks |-> IF \E p \in Procs : Holding(p, b)
                                    THEN CHOOSE p \in Procs : Holding(p, b)
                                    ELSE None],
        content <- [b \in Blocks |-> IF \E i \in Cached(b) : valid[i] = 1
                                     THEN data[CHOOSE i \in Cached(b) : valid[i] = 1]
                                     ELSE disk[b]]

(* The cache implements an array of blocks with one holder each: a reader  *)
(* sees the last change of the last holder, though blocks are evicted,     *)
(* read again and written late.                                            *)
ImplementsBlockStore == BS!Spec
=============================================================================
