-------------------------------- MODULE Pipe --------------------------------
(***************************************************************************)
(* One pipe (kernel/pipe.c): pipewrite, piperead, pipeclose, run by        *)
(* processes that hold the write end or the read end, with kill.           *)
(* sleep(chan, lk) and wakeup(chan) are the ones of module Scheduler.      *)
(***************************************************************************)
EXTENDS Naturals, Sequences, FiniteSets

CONSTANTS
    Readers, Writers,   \* processes with a descriptor for an end of the pipe
    Killable,           \* processes that may be killed
    Bytes,              \* values of a byte
    PIPESIZE,           \* size of the buffer
    UintMod,            \* nread and nwrite are counted modulo this (2^32 in C)
    MaxN                \* largest n of a read or write

Procs == Readers \cup Writers
NoProc == "none"

ASSUME SizesAreNat ==
    /\ PIPESIZE \in Nat \ {0} /\ UintMod \in Nat /\ MaxN \in Nat
    /\ UintMod > PIPESIZE /\ UintMod % PIPESIZE = 0
ASSUME BytesExist == Bytes # {}
ASSUME EndsDisjoint == Readers \cap Writers = {} /\ NoProc \notin Procs

VARIABLES
    data, nread, nwrite, readopen, writeopen,   \* struct pipe
    freed,          \* the pipe's page was given back by kfree
    lock,           \* the process that holds pi->lock, or NoProc
    pc, n, i,       \* where each process is, its argument n, its counter i
    killed,         \* p->killed
    open,           \* processes that have not closed their descriptor
    out             \* the last byte each reader took

pipeVars == <<data, nread, nwrite, readopen, writeopen, freed>>
vars == <<pipeVars, lock, pc, n, i, killed, open, out>>

TypeOK ==
    /\ data \in [0 .. PIPESIZE - 1 -> Bytes]
    /\ nread \in 0 .. UintMod - 1 /\ nwrite \in 0 .. UintMod - 1
    /\ readopen \in {0, 1} /\ writeopen \in {0, 1} /\ freed \in {0, 1}
    /\ lock \in Procs \cup {NoProc}
    /\ pc \in [Procs -> {"idle", "call", "loop", "full", "empty", "asleep", "copy"}]
    /\ n \in [Procs -> 0 .. MaxN] /\ i \in [Procs -> 0 .. MaxN]
    /\ killed \in [Procs -> {0, 1}]
    /\ open \in SUBSET Procs
    /\ out \in [Readers -> Bytes]

(* pipealloc *)
Init ==
    /\ data \in [0 .. PIPESIZE - 1 -> {CHOOSE b \in Bytes : TRUE}]
    /\ nread = 0 /\ nwrite = 0 /\ readopen = 1 /\ writeopen = 1 /\ freed = 0
    /\ lock = NoProc
    /\ pc = [p \in Procs |-> "idle"]
    /\ n = [p \in Procs |-> 0] /\ i = [p \in Procs |-> 0]
    /\ killed = [p \in Procs |-> 0]
    /\ open = Procs
    /\ out = [r \in Readers |-> CHOOSE b \in Bytes : TRUE]

-----------------------------------------------------------------------------
Add(x, y) == (x + y) % UintMod
FullOffByOne == nwrite = Add(nread, PIPESIZE + 1)
Full == nwrite = Add(nread, PIPESIZE)
Empty == nread = nwrite

(* wakeup(&pi->nread) wakes readers, wakeup(&pi->nwrite) writers: only a   *)
(* reader sleeps on the first channel, only a writer on the second.        *)
WakeupNone(S, f) == f
Wakeup(S, f) == [p \in Procs |-> IF p \in S /\ f[p] = "asleep" THEN "call" ELSE f[p]]

(* A system call on the process's descriptor begins, or sleep() returns:   *)
(* acquire(&pi->lock).                                                     *)
Call(p, k) ==
    /\ pc[p] = "idle"
    /\ p \in open
    /\ killed[p] = 0
    /\ pc' = [pc EXCEPT ![p] = "call"]
    /\ n' = [n EXCEPT ![p] = k]
    /\ i' = [i EXCEPT ![p] = 0]
    /\ UNCHANGED <<pipeVars, lock, killed, open, out>>

Acquire(p) ==
    /\ pc[p] = "call"
    /\ lock = NoProc
    /\ lock' = p
    /\ pc' = [pc EXCEPT ![p] = "loop"]
    /\ UNCHANGED <<pipeVars, n, i, killed, open, out>>

(* The call returns, and its locals are gone. *)
Forget(p) == n' = [n EXCEPT ![p] = 0] /\ i' = [i EXCEPT ![p] = 0]

-----------------------------------------------------------------------------
(* pipewrite: nobody can read, or the writer is killed ... *)
WriteAborts(p) ==
    /\ p \in Writers /\ pc[p] = "loop" /\ i[p] < n[p]
    /\ readopen = 0 \/ killed[p] = 1
    /\ lock' = NoProc
    /\ pc' = [pc EXCEPT ![p] = "idle"]
    /\ Forget(p)
    /\ UNCHANGED <<pipeVars, killed, open, out>>

(* ... the pipe is full: wake readers, and sleep ... *)
WriteFull(p) ==
    /\ p \in Writers /\ pc[p] = "loop" /\ i[p] < n[p]
    /\ readopen = 1 /\ killed[p] = 0
    /\ Full
    /\ pc' = [Wakeup(Readers, pc) EXCEPT ![p] = "full"]
    /\ UNCHANGED <<pipeVars, lock, n, i, killed, open, out>>

(* ... or it takes one more byte ... *)
WriteByte(p, b) ==
    /\ p \in Writers /\ pc[p] = "loop" /\ i[p] < n[p]
    /\ readopen = 1 /\ killed[p] = 0
    /\ ~ Full
    /\ data' = [data EXCEPT ![nwrite % PIPESIZE] = b]
    /\ nwrite' = Add(nwrite, 1)
    /\ i' = [i EXCEPT ![p] = @ + 1]
    /\ UNCHANGED <<nread, readopen, writeopen, freed, lock, pc, n, killed, open, out>>

(* ... and when all is written, or copyin failed, readers are woken. *)
WriteReturns(p) ==
    /\ p \in Writers /\ pc[p] = "loop"
    /\ i[p] = n[p] \/ (readopen = 1 /\ killed[p] = 0 /\ ~ Full)
    /\ lock' = NoProc
    /\ pc' = [Wakeup(Readers, pc) EXCEPT ![p] = "idle"]
    /\ Forget(p)
    /\ UNCHANGED <<pipeVars, killed, open, out>>

(* piperead: an empty pipe that can still be written; a killed reader      *)
(* gives up ...                                                            *)
ReadKilled(p) ==
    /\ p \in Readers /\ pc[p] = "loop"
    /\ Empty /\ writeopen = 1
    /\ killed[p] = 1
    /\ pc' = [pc EXCEPT ![p] = "idle"]
    /\ lock' = NoProc
    /\ Forget(p)
    /\ UNCHANGED <<pipeVars, killed, open, out>>

(* ... another sleeps ... *)
ReadEmpty(p) ==
    /\ p \in Readers /\ pc[p] = "loop"
    /\ Empty /\ writeopen = 1
    /\ killed[p] = 0
    /\ pc' = [pc EXCEPT ![p] = "empty"]
    /\ UNCHANGED <<pipeVars, lock, n, i, killed, open, out>>

ReadBegins(p) ==
    /\ p \in Readers /\ pc[p] = "loop"
    /\ ~ (Empty /\ writeopen = 1)
    /\ pc' = [pc EXCEPT ![p] = "copy"]
    /\ UNCHANGED <<pipeVars, lock, n, i, killed, open, out>>

(* ... and copies what there is, byte by byte; a byte whose copyout fails  *)
(* is consumed all the same.                                               *)
ReadByte(p) ==
    /\ pc[p] = "copy" /\ i[p] < n[p]
    /\ ~ Empty
    /\ out' = [out EXCEPT ![p] = data[nread % PIPESIZE]]
    /\ nread' = Add(nread, 1)
    /\ \E done \in {i[p] + 1, n[p]} : i' = [i EXCEPT ![p] = done]
    /\ UNCHANGED <<data, nwrite, readopen, writeopen, freed, lock, pc, n, killed,
                   open>>

ReadReturns(p) ==
    /\ pc[p] = "copy"
    /\ i[p] = n[p] \/ Empty
    /\ lock' = NoProc
    /\ pc' = [Wakeup(Writers, pc) EXCEPT ![p] = "idle"]
    /\ Forget(p)
    /\ UNCHANGED <<pipeVars, killed, open, out>>

(* sleep() puts the process to sleep and releases pi->lock. *)
Sleep(p) ==
    /\ pc[p] \in {"full", "empty"}
    /\ pc' = [pc EXCEPT ![p] = "asleep"]
    /\ lock' = NoProc
    /\ UNCHANGED <<pipeVars, n, i, killed, open, out>>

-----------------------------------------------------------------------------
(* A process closes its descriptor; the last of an end calls pipeclose. *)
LastOfSome(p, S) == p \in S
LastOf(p, S) == p \in S /\ open \cap S = {p}

Close(p) ==
    /\ pc[p] = "idle" /\ p \in open
    /\ lock = NoProc
    /\ open' = open \ {p}
    /\ IF LastOf(p, Writers)
       THEN /\ writeopen' = 0 /\ UNCHANGED readopen
            /\ pc' = Wakeup(Readers, pc)
       ELSE IF LastOf(p, Readers)
            THEN /\ readopen' = 0 /\ UNCHANGED writeopen
                 /\ pc' = Wakeup(Writers, pc)
            ELSE UNCHANGED <<readopen, writeopen, pc>>
    /\ freed' = IF readopen' = 0 /\ writeopen' = 0 THEN 1 ELSE 0
    /\ UNCHANGED <<data, nread, nwrite, lock, n, i, killed, out>>

(* kkill *)
Kill(p) ==
    /\ p \in Killable
    /\ p \in open
    /\ killed' = [killed EXCEPT ![p] = 1]
    /\ pc' = [pc EXCEPT ![p] = IF @ = "asleep" THEN "call" ELSE @]
    /\ UNCHANGED <<pipeVars, lock, n, i, open, out>>

InPipe(p) ==
    \/ Acquire(p) \/ WriteAborts(p) \/ WriteFull(p) \/ WriteReturns(p)
    \/ \E b \in Bytes : WriteByte(p, b)
    \/ ReadKilled(p) \/ ReadEmpty(p) \/ ReadBegins(p) \/ ReadByte(p)
    \/ ReadReturns(p) \/ Sleep(p)

Next ==
    \E p \in Procs :
        \/ \E k \in 1 .. MaxN : Call(p, k)
        \/ InPipe(p) \/ Close(p) \/ Kill(p)

Spec == Init /\ [][Next]_vars

-----------------------------------------------------------------------------
InFlight == (nwrite + UintMod - nread) % UintMod
BC == INSTANCE ByteChannel WITH
        Capacity <- PIPESIZE,
        queue <- [k \in 1 .. InFlight |-> data[(nread + k - 1) % PIPESIZE]]

(* The ring buffer implements a bounded queue: bytes are read in the order *)
(* written, by one reader each, although nread and nwrite wrap around.     *)
ImplementsByteChannel == BC!Spec

(* A reader sleeps only while there is nothing to read and a writer is     *)
(* left, a writer only while the pipe is full and a reader is left, or     *)
(* while the process that changed this still holds pi->lock.  A writer     *)
(* killed half-way is excepted: its early return wakes nobody.             *)
NobodyStranded ==
    /\ TypeOK
    /\ \A r \in Readers : pc[r] = "asleep" =>
        \/ Empty /\ writeopen = 1
        \/ lock \in Writers /\ pc[lock] = "loop"
        \/ writeopen = 1 /\ \E w \in Writers : killed[w] = 1
    /\ \A w \in Writers : pc[w] = "asleep" =>
        (Full /\ readopen = 1) \/ (lock \in Readers /\ pc[lock] = "copy")

(* The pipe is freed once, when nobody is in it or can call it again.      *)
NoUseAfterFree ==
    freed = 1 => open = {} /\ \A p \in Procs : pc[p] = "idle"

(* Nobody sleeps without cause in a pipe, and nobody touches a freed one.  *)
PipeSafe == NobodyStranded /\ NoUseAfterFree

(* Fairness: a process inside the pipe goes on, and gets pi->lock although *)
(* others take it before; nobody has to call, close or kill.               *)
PipeFairness == \A p \in Procs : SF_vars(Acquire(p)) /\ WF_vars(InPipe(p))

(* End of file reaches a sleeping reader, a broken pipe a sleeping writer. *)
CloseEndsCalls ==
    /\ \A r \in Readers : writeopen = 0 ~> pc[r] = "idle"
    /\ \A w \in Writers : readopen = 0 ~> pc[w] = "idle"
=============================================================================
