-------------------------------- MODULE Log --------------------------------
(***************************************************************************)
(* The write-ahead log of kernel/log.c: concurrent file-system operations  *)
(* bracketed by begin_op and end_op, group commit by the last of them,     *)
(* crashes at any point and recovery at boot.  A critical section under    *)
(* log.lock is one action; every block written to the disk is a step of    *)
(* its own, so that a crash can fall between any two of them.              *)
(***************************************************************************)
EXTENDS Naturals, Sequences, FiniteSets

CONSTANTS
    Procs,          \* processes that run file-system system calls
    Blocks,         \* home block numbers
    Data,           \* contents of a block
    NotCached,      \* the block has no valid buffer
    NoProc,         \* the buffer's sleep-lock is free
    LOGBLOCKS,      \* data blocks in the on-disk log
    MAXOPBLOCKS,    \* log blocks begin_op reserves for an operation
    OpBlocks,       \* distinct blocks an operation really writes, at most
    CanCrash        \* whether the machine may crash

ASSUME ValuesDistinct == NotCached \notin Data /\ NoProc \notin Procs
ASSUME SizesAreNat ==
    /\ LOGBLOCKS \in Nat /\ MAXOPBLOCKS \in Nat /\ OpBlocks \in Nat
    /\ OpBlocks < MAXOPBLOCKS
ASSUME ProcsFinite == IsFiniteSet(Procs)
ASSUME CanCrashIsBool == CanCrash \in BOOLEAN

VARIABLES
    pc,             \* where each process is in its file-system call
    outstanding,    \* log.outstanding
    committing,     \* log.committing
    lh,             \* log.lh in memory: the logged block numbers, n = Len(lh)
    step,           \* the disk step commit or recovery does next
    tail,           \* the loop counter of write_log and install_trans, from 1
    wrote,          \* blocks each operation has modified so far
    panicked,       \* a process panicked, still holding log.lock
    cache,          \* data of each block's buffer, or NotCached
    holder,         \* owner of each buffer's sleep-lock
    pins,           \* references bpin added to each buffer
    head,           \* the log header block on disk
    logarea,        \* the log data blocks on disk
    disk            \* the home blocks on disk

volatile == <<pc, outstanding, committing, lh, step, tail, wrote, panicked,
              cache, holder, pins>>
durableVars == <<head, logarea, disk>>
vars == <<volatile, durableVars>>

InTransaction == {p \in Procs : pc[p] \in {"op", "modified"}}
Recovering == step \in {"read_head", "recover", "clear"}
Slots == 1..LOGBLOCKS

TypeOK ==
    /\ pc \in [Procs -> {"idle", "begin", "asleep", "op", "modified",
                         "commit"}]
    /\ outstanding \in Nat
    /\ committing \in {0, 1}
    /\ lh \in Seq(Blocks)
    /\ step \in {"read_head", "recover", "clear", "run", "write_log",
                 "write_head", "install", "erase", "finish"}
    /\ tail \in Nat
    /\ wrote \in [Procs -> SUBSET Blocks]
    /\ panicked \in {0, 1}
    /\ cache \in [Blocks -> Data \cup {NotCached}]
    /\ holder \in [Blocks -> Procs \cup {NoProc}]
    /\ pins \in [Blocks -> Nat]
    /\ head \in Seq(Blocks)
    /\ logarea \in [Slots -> Data]
    /\ disk \in [Blocks -> Data]

-----------------------------------------------------------------------------
(* A file system fresh from mkfs: any contents, an empty log; the kernel   *)
(* has just booted and is about to read the log header.                    *)
Init ==
    /\ pc = [p \in Procs |-> "idle"]
    /\ outstanding = 0
    /\ committing = 0
    /\ lh = <<>>
    /\ step = "read_head"
    /\ tail = 1
    /\ wrote = [p \in Procs |-> {}]
    /\ panicked = 0
    /\ cache = [b \in Blocks |-> NotCached]
    /\ holder = [b \in Blocks |-> NoProc]
    /\ pins = [b \in Blocks |-> 0]
    /\ head = <<>>
    /\ \E zeroes \in Data : logarea = [i \in Slots |-> zeroes]
    /\ disk \in [Blocks -> Data]

(* What bread returns: the buffer's data, read from the disk when invalid. *)
Bread(b) == IF cache[b] = NotCached THEN disk[b] ELSE cache[b]

(* wakeup(&log): every process sleeping in begin_op goes round its loop. *)
WakeupForgotten(f) == f
Wakeup(f) == [p \in Procs |-> IF f[p] = "asleep" THEN "begin" ELSE f[p]]

(* log.lock can be taken: the file system is up and nobody panicked in it. *)
LogLockFree == ~Recovering /\ panicked = 0

(* begin_op's test that this operation might exhaust the log. *)
NoSpace == Len(lh) + (outstanding + 1) * MAXOPBLOCKS > LOGBLOCKS

(* The conditions on which begin_op goes to sleep. *)
MustWaitForSpace == NoSpace
MustWait == committing = 1 \/ NoSpace

BeginOpSleep(p) ==
    /\ LogLockFree
    /\ pc[p] \in {"idle", "begin"}
    /\ MustWait
    /\ pc' = [pc EXCEPT ![p] = "asleep"]
    /\ UNCHANGED <<outstanding, committing, lh, step, tail, wrote, panicked,
                   cache, holder, pins, durableVars>>

BeginOp(p) ==
    /\ LogLockFree
    /\ pc[p] \in {"idle", "begin"}
    /\ ~MustWait
    /\ outstanding' = outstanding + 1
    /\ pc' = [pc EXCEPT ![p] = "op"]
    /\ UNCHANGED <<committing, lh, step, tail, wrote, panicked, cache, holder,
                   pins, durableVars>>

(* An operation's bread, and its change to b->data, before log_write. *)
Modify(p, b, v) ==
    /\ pc[p] = "op"
    /\ holder[b] = NoProc
    /\ b \in wrote[p] \/ Cardinality(wrote[p]) < OpBlocks
    /\ pc' = [pc EXCEPT ![p] = "modified"]
    /\ holder' = [holder EXCEPT ![b] = p]
    /\ cache' = [cache EXCEPT ![b] = v]
    /\ wrote' = [wrote EXCEPT ![p] = @ \cup {b}]
    /\ UNCHANGED <<outstanding, committing, lh, step, tail, panicked, pins,
                   durableVars>>

(* The end of log_write: absorb a block already logged, else add and pin. *)
RecordBlockUnpinned(b) ==
    /\ lh' = IF b \in {lh[i] : i \in 1..Len(lh)} THEN lh ELSE Append(lh, b)
    /\ UNCHANGED pins
RecordBlock(b) ==
    \/ /\ \E i \in 1..Len(lh) : lh[i] = b
       /\ UNCHANGED <<lh, pins>>
    \/ /\ \A i \in 1..Len(lh) : lh[i] # b
       /\ lh' = Append(lh, b)
       /\ pins' = [pins EXCEPT ![b] = @ + 1]

(* log_write(b) and the caller's brelse. *)
LogWrite(p, b) ==
    /\ LogLockFree
    /\ pc[p] = "modified"
    /\ holder[b] = p
    /\ IF Len(lh) >= LOGBLOCKS \/ outstanding < 1
       THEN /\ panicked' = 1
            /\ UNCHANGED <<pc, holder, lh, pins>>
       ELSE /\ pc' = [pc EXCEPT ![p] = "op"]
            /\ holder' = [holder EXCEPT ![b] = NoProc]
            /\ RecordBlock(b)
            /\ UNCHANGED panicked
    /\ UNCHANGED <<outstanding, committing, step, tail, wrote, cache,
                   durableVars>>

(* commit()'s test that there is something to commit. *)
CommitNeeded == Len(lh) > 0

(* The critical section of end_op; the last operation goes on to commit(). *)
EndOp(p) ==
    /\ LogLockFree
    /\ pc[p] = "op"
    /\ outstanding' = outstanding - 1
    /\ wrote' = [wrote EXCEPT ![p] = {}]
    /\ IF committing = 1
       THEN /\ panicked' = 1
            /\ UNCHANGED <<pc, committing, step, tail>>
       ELSE /\ IF outstanding = 1
               THEN /\ committing' = 1
                    /\ pc' = [pc EXCEPT ![p] = "commit"]
                    /\ step' = IF CommitNeeded THEN "write_log" ELSE "finish"
                    /\ tail' = 1
               ELSE /\ pc' = Wakeup([pc EXCEPT ![p] = "idle"])
                    /\ UNCHANGED <<committing, step, tail>>
            /\ UNCHANGED panicked
    /\ UNCHANGED <<lh, cache, holder, pins, durableVars>>

-----------------------------------------------------------------------------
(* The loops of write_log and install_trans end with this iteration. *)
LastBlockOffByOne == tail + 1 >= Len(lh)
LastBlock == tail >= Len(lh)

(* One iteration of write_log: copy a block from its buffer to the log. *)
WriteLog ==
    /\ step = "write_log"
    /\ LET b == lh[tail] IN
       /\ holder[b] = NoProc
       /\ logarea' = [logarea EXCEPT ![tail] = Bread(b)]
       /\ cache' = [cache EXCEPT ![b] = Bread(b)]
    /\ tail' = tail + 1
    /\ step' = IF LastBlock THEN "write_head" ELSE step
    /\ UNCHANGED <<pc, outstanding, committing, lh, wrote, panicked, holder,
                   pins, head, disk>>

(* write_head with n > 0: the point at which the transaction commits. *)
WriteHead ==
    /\ step = "write_head"
    /\ head' = lh
    /\ step' = "install"
    /\ tail' = 1
    /\ UNCHANGED <<pc, outstanding, committing, lh, wrote, panicked, cache,
                   holder, pins, logarea, disk>>

(* read_head, at boot. *)
ReadHead ==
    /\ step = "read_head"
    /\ lh' = head
    /\ step' = IF Len(head) > 0 THEN "recover" ELSE "clear"
    /\ tail' = 1
    /\ UNCHANGED <<pc, outstanding, committing, wrote, panicked, cache, holder,
                   pins, durableVars>>

(* Only a commit, not a recovery, has pinned buffers to unpin. *)
UnpinInstalled(b) ==
    IF step = "install" THEN [pins EXCEPT ![b] = @ - 1] ELSE pins

(* One iteration of install_trans: copy a block from the log to its home. *)
InstallTrans ==
    /\ step \in {"install", "recover"}
    /\ LET b == lh[tail] IN
       /\ holder[b] = NoProc
       /\ cache' = [cache EXCEPT ![b] = logarea[tail]]
       /\ disk' = [disk EXCEPT ![b] = logarea[tail]]
       /\ pins' = UnpinInstalled(b)
    /\ tail' = tail + 1
    /\ step' = IF ~LastBlock THEN step
               ELSE IF step = "install" THEN "erase" ELSE "clear"
    /\ UNCHANGED <<pc, outstanding, committing, lh, wrote, panicked, holder,
                   head, logarea>>

(* log.lh.n = 0 and write_head: erase the transaction from the log. *)
EraseHead ==
    /\ step \in {"erase", "clear"}
    /\ lh' = <<>>
    /\ head' = <<>>
    /\ step' = IF step = "erase" THEN "finish" ELSE "run"
    /\ UNCHANGED <<pc, outstanding, committing, tail, wrote, panicked, cache,
                   holder, pins, logarea, disk>>

(* The last critical section of end_op, after commit() has returned. *)
FinishCommit(p) ==
    /\ LogLockFree
    /\ pc[p] = "commit"
    /\ step = "finish"
    /\ committing' = 0
    /\ step' = "run"
    /\ pc' = Wakeup([pc EXCEPT ![p] = "idle"])
    /\ UNCHANGED <<outstanding, lh, tail, wrote, panicked, cache, holder, pins,
                   durableVars>>

-----------------------------------------------------------------------------
(* The buffer cache around the log: a read outside any transaction brings  *)
(* a block in, and bget recycles a buffer that is neither held nor pinned. *)
Fetch(b) ==
    /\ ~Recovering
    /\ cache[b] = NotCached
    /\ cache' = [cache EXCEPT ![b] = disk[b]]
    /\ UNCHANGED <<pc, outstanding, committing, lh, step, tail, wrote, panicked,
                   holder, pins, durableVars>>

Recycle(b) ==
    /\ cache[b] # NotCached
    /\ holder[b] = NoProc
    /\ pins[b] = 0
    /\ cache' = [cache EXCEPT ![b] = NotCached]
    /\ UNCHANGED <<pc, outstanding, committing, lh, step, tail, wrote, panicked,
                   holder, pins, durableVars>>

(* Power loss and reboot: memory is lost.  The block being written may     *)
(* hold anything; the header, which fits in one sector, is written whole   *)
(* or not at all.                                                          *)
Crash ==
    /\ CanCrash
    /\ pc' = [p \in Procs |-> "idle"]
    /\ outstanding' = 0
    /\ committing' = 0
    /\ lh' = <<>>
    /\ step' = "read_head"
    /\ tail' = 1
    /\ wrote' = [p \in Procs |-> {}]
    /\ panicked' = 0
    /\ cache' = [b \in Blocks |-> NotCached]
    /\ holder' = [b \in Blocks |-> NoProc]
    /\ pins' = [b \in Blocks |-> 0]
    /\ UNCHANGED head
    /\ \/ UNCHANGED <<logarea, disk>>
       \/ /\ step = "write_log"
          /\ \E v \in Data : logarea' = [logarea EXCEPT ![tail] = v]
          /\ UNCHANGED disk
       \/ /\ step \in {"install", "recover"}
          /\ \E v \in Data : disk' = [disk EXCEPT ![lh[tail]] = v]
          /\ UNCHANGED logarea

Next ==
    \/ \E p \in Procs : \/ BeginOpSleep(p)
                        \/ BeginOp(p)
                        \/ EndOp(p)
                        \/ FinishCommit(p)
    \/ \E p \in Procs, b \in Blocks, v \in Data : Modify(p, b, v)
    \/ \E p \in Procs, b \in Blocks : LogWrite(p, b)
    \/ WriteLog
    \/ WriteHead
    \/ ReadHead
    \/ InstallTrans
    \/ EraseHead
    \/ \E b \in Blocks : Fetch(b) \/ Recycle(b)
    \/ Crash

Spec == Init /\ [][Next]_vars

-----------------------------------------------------------------------------
(* What the disk holds once recovery has replayed the committed log. *)
Replay(hd, area, dsk) ==
    [b \in Blocks |-> IF \E i \in 1..Len(hd) : hd[i] = b
                      THEN area[CHOOSE i \in 1..Len(hd) : hd[i] = b]
                      ELSE dsk[b]]
LogicalDisk == Replay(head, logarea, disk)

(* What a read of each block returns. *)
View == [b \in Blocks |-> IF Recovering THEN LogicalDisk[b] ELSE Bread(b)]

AD == INSTANCE AtomicDisk WITH
        current <- View, durable <- LogicalDisk, active <- InTransaction

(* The log implements atomic, durable operations: whatever step a crash    *)
(* interrupts (write_log, write_head, install_trans, recover_from_log),    *)
(* the blocks are those of the last commit, and a commit never holds part  *)
(* of an operation.                                                        *)
ImplementsAtomicDisk == AD!Spec

(* log_write and end_op never reach their panics: begin_op's reservation   *)
(* keeps log.lh.n below LOGBLOCKS whenever an operation logs a block.      *)
NoPanic == panicked = 0

(* The recovered contents of the disk change only when commit() writes the *)
(* header, with no operation in progress: nothing write_log, install_trans *)
(* or recovery writes can be seen after a crash.                           *)
CommitPoint ==
    [][LogicalDisk' # LogicalDisk => WriteHead /\ InTransaction = {}]_vars

(* A logged block whose home copy is not yet installed. *)
Uninstalled(b) ==
    \E i \in 1..Len(lh) :
        /\ lh[i] = b
        /\ step \notin {"recover", "clear", "erase"}
        /\ step = "install" => i >= tail

(* log_write's bpin and install_trans's bunpin pair up, however often the  *)
(* block is absorbed: a buffer is pinned, once, exactly while its contents *)
(* are in the log and not yet home, and any other idle buffer is clean.    *)
PinnedWhileDirty ==
    \A b \in Blocks :
        /\ pins[b] = IF Uninstalled(b) THEN 1 ELSE 0
        /\ holder[b] = NoProc /\ ~Uninstalled(b) => Bread(b) = disk[b]

-----------------------------------------------------------------------------
(* The inductive invariant behind the safety properties, by topic. *)
CommitSteps == {"write_log", "write_head", "install", "erase", "finish"}

Injective(s) == \A i, j \in 1..Len(s) : s[i] = s[j] => i = j

HeaderInv ==
    /\ Injective(lh) /\ Len(lh) <= LOGBLOCKS
    /\ Injective(head) /\ Len(head) <= LOGBLOCKS
    /\ step \in {"read_head", "finish"} => lh = <<>>
    /\ step \in {"recover", "clear", "install", "erase"} => head = lh
    /\ step \in {"run", "write_log", "write_head", "finish"} => head = <<>>
    /\ step \in {"write_log", "install", "recover"} => tail \in 1..Len(lh)
    /\ step = "write_head" => Len(lh) >= 1

OpInv ==
    /\ outstanding = Cardinality(InTransaction)
    /\ InTransaction # {} => step = "run"
    /\ committing = 1 <=> step \in CommitSteps
    /\ step = "run" /\ InTransaction = {} => lh = <<>>

BufferInv ==
    /\ \A b \in Blocks : holder[b] # NoProc =>
          pc[holder[b]] = "modified" /\ cache[b] # NotCached
    /\ \A b, c \in Blocks : holder[b] = holder[c] /\ b # c => holder[b] = NoProc
    /\ \A b \in Blocks : Uninstalled(b) => cache[b] # NotCached

CopiesInv ==
    /\ step = "write_log" =>
          \A i \in 1..(tail - 1) : logarea[i] = cache[lh[i]]
    /\ step = "write_head" =>
          \A i \in 1..Len(lh) : logarea[i] = cache[lh[i]]
    /\ step = "install" =>
          \A i \in tail..Len(lh) : logarea[i] = cache[lh[i]]
    /\ step \in {"install", "recover"} =>
          \A i \in 1..(tail - 1) : logarea[i] = disk[lh[i]]
    /\ step \in {"erase", "clear"} =>
          \A i \in 1..Len(lh) : logarea[i] = disk[lh[i]]

(* The log's bookkeeping agrees with itself in every state: in particular  *)
(* the on-disk header is empty or names exactly the blocks being           *)
(* installed, and the log area holds what their buffers or homes hold.     *)
IInv ==
    /\ TypeOK
    /\ HeaderInv
    /\ OpInv
    /\ BufferInv
    /\ PinnedWhileDirty
    /\ CopiesInv

-----------------------------------------------------------------------------
(* Processes are scheduled and disk requests complete; an operation makes  *)
(* finitely many writes, so it reaches end_op (strong fairness: EndOp is   *)
(* disabled while a buffer is being modified).                             *)
Fairness ==
    /\ \A p \in Procs :
        /\ WF_vars(pc[p] = "begin" /\ (BeginOp(p) \/ BeginOpSleep(p)))
        /\ WF_vars(\E b \in Blocks : LogWrite(p, b))
        /\ SF_vars(EndOp(p))
        /\ WF_vars(FinishCommit(p))
    /\ WF_vars(WriteLog \/ WriteHead \/ InstallTrans \/ EraseHead \/ ReadHead)

FairSpec == Spec /\ Fairness

(* No lost wakeup: a process asleep in begin_op is woken, by the end_op    *)
(* that gives log space back or by the one that finishes the commit.       *)
WaiterWoken == \A p \in Procs : pc[p] = "asleep" ~> pc[p] # "asleep"

(* Once the last outstanding operation has ended, its batch becomes        *)
(* durable: no step of commit() can block.                                 *)
BatchCommits == InTransaction = {} ~> LogicalDisk = View

(* The log makes progress: every wait in begin_op ends, and every batch    *)
(* reaches the disk.                                                       *)
LogProgress == WaiterWoken /\ BatchCommits
=============================================================================
