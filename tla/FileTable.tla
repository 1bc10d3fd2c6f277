----------------------------- MODULE FileTable -----------------------------
(***************************************************************************)
(* Open files: the system-wide file table (kernel/file.c), the processes'  *)
(* descriptor tables, and the system calls that create, share and drop     *)
(* references (open, pipe, dup, close in kernel/sysfile.c; fork and exit   *)
(* in kernel/proc.c), with their error paths.  An open file refers to an   *)
(* end of a pipe or to an inode, which it closes when its last reference   *)
(* goes.                                                                   *)
(***************************************************************************)
EXTENDS Naturals, Sequences, FiniteSets, FiniteSetsExt

CONSTANTS
    Procs,          \* process slots; one of them is alive at first
    First,          \* that process, init
    NFILE,          \* entries of the file table
    NOFILE,         \* descriptors per process
    Pipes           \* pages a pipe can be allocated from

ASSUME SizesAreNat == NFILE \in Nat \ {0} /\ NOFILE \in Nat \ {0}
ASSUME FirstIsProc == First \in Procs

Files == 1 .. NFILE
Fds == 0 .. NOFILE - 1
NoFile == 0

VARIABLES
    ref,            \* f->ref
    type,           \* f->type with f->pipe and f->writable, or f->ip
    ofile,          \* p->ofile
    alive,          \* processes that exist
    pc,             \* where each process is in its system call
    f0, f1,         \* the files a system call has allocated and not installed
    todo,           \* files the call has still to pass to fileclose
    ff,             \* fileclose's copy of the entry it freed
    pipeopen,       \* per page: the ends of the pipe that are open
    iref            \* references to the inode that open files name

vars == <<ref, type, ofile, alive, pc, f0, f1, todo, ff, pipeopen, iref>>

End(q, e) == [pipe |-> q, end |-> e]
NONE == [pipe |-> "none", end |-> "none"]
INODE == [pipe |-> "none", end |-> "inode"]
Types == {NONE, INODE} \cup {End(q, e) : q \in Pipes, e \in {"read", "write"}}

TypeOK ==
    /\ ref \in [Files -> 0 .. Cardinality(Procs) * (NOFILE + 2)]
    /\ type \in [Files -> Types]
    /\ ofile \in [Procs -> [Fds -> Files \cup {NoFile}]]
    /\ alive \in SUBSET Procs
    /\ pc \in [Procs -> {"user", "open1", "open2", "pipe1", "pipe2", "pipe3",
                         "close", "exit"}]
    /\ f0 \in [Procs -> Files \cup {NoFile}] /\ f1 \in [Procs -> Files \cup {NoFile}]
    /\ todo \in [Procs -> Seq(Files)]
    /\ ff \in [Procs -> Types]
    /\ pipeopen \in [Pipes -> SUBSET {"read", "write"}]
    /\ iref \in 0 .. NFILE + 2 * Cardinality(Procs)

Init ==
    /\ ref = [f \in Files |-> 0]
    /\ type = [f \in Files |-> NONE]
    /\ ofile = [p \in Procs |-> [d \in Fds |-> NoFile]]
    /\ alive = {First}
    /\ pc = [p \in Procs |-> "user"]
    /\ f0 = [p \in Procs |-> NoFile] /\ f1 = [p \in Procs |-> NoFile]
    /\ todo = [p \in Procs |-> <<>>]
    /\ ff = [p \in Procs |-> NONE]
    /\ pipeopen = [q \in Pipes |-> {}]
    /\ iref = 0

-----------------------------------------------------------------------------
(* filealloc finds the first free entry; fdalloc the first free slot. *)
FreeFiles == {f \in Files : ref[f] = 0}
FreeFds(p) == {d \in Fds : ofile[p][d] = NoFile}
Syscall(p) == p \in alive /\ pc[p] = "user"

(* The call ends, dropping the files fs in this order through fileclose. *)
Ends(p, fs) ==
    /\ pc' = [pc EXCEPT ![p] = IF fs = <<>> THEN "user" ELSE "close"]
    /\ todo' = [todo EXCEPT ![p] = fs]
    /\ f0' = [f0 EXCEPT ![p] = NoFile]
    /\ f1' = [f1 EXCEPT ![p] = NoFile]

(* sys_open: namei or create took a reference to the inode ... *)
Open(p) ==
    /\ Syscall(p)
    /\ iref' = iref + 1
    /\ pc' = [pc EXCEPT ![p] = "open1"]
    /\ UNCHANGED <<ref, type, ofile, alive, f0, f1, todo, ff, pipeopen>>

(* ... then filealloc, whose failure gives the inode back ... *)
OpenAlloc(p) ==
    /\ pc[p] = "open1"
    /\ FreeFiles # {}
    /\ ref' = [ref EXCEPT ![Min(FreeFiles)] = 1]
    /\ f0' = [f0 EXCEPT ![p] = Min(FreeFiles)]
    /\ pc' = [pc EXCEPT ![p] = "open2"]
    /\ UNCHANGED <<type, ofile, alive, f1, todo, ff, pipeopen, iref>>

OpenNoFile(p) ==
    /\ pc[p] = "open1"
    /\ FreeFiles = {}
    /\ iref' = iref - 1
    /\ Ends(p, <<>>)
    /\ UNCHANGED <<ref, type, ofile, alive, ff, pipeopen>>

(* ... then fdalloc, whose failure also gives the file back. *)
OpenInstall(p) ==
    /\ pc[p] = "open2"
    /\ FreeFds(p) # {}
    /\ ofile' = [ofile EXCEPT ![p][Min(FreeFds(p))] = f0[p]]
    /\ type' = [type EXCEPT ![f0[p]] = INODE]
    /\ Ends(p, <<>>)
    /\ UNCHANGED <<ref, alive, ff, pipeopen, iref>>

OpenFailsLeak(p) == <<>>
OpenFails(p) == <<f0[p]>>

OpenNoFd(p) ==
    /\ pc[p] = "open2"
    /\ FreeFds(p) = {}
    /\ iref' = iref - 1
    /\ Ends(p, OpenFails(p))
    /\ UNCHANGED <<ref, type, ofile, alive, ff, pipeopen>>

-----------------------------------------------------------------------------
(* sys_pipe and pipealloc: two files, a page, two descriptors, and a       *)
(* copyout; each failure drops what was obtained.                          *)
PipeFile0(p) ==
    /\ Syscall(p)
    /\ FreeFiles # {}
    /\ ref' = [ref EXCEPT ![Min(FreeFiles)] = 1]
    /\ f0' = [f0 EXCEPT ![p] = Min(FreeFiles)]
    /\ pc' = [pc EXCEPT ![p] = "pipe1"]
    /\ UNCHANGED <<type, ofile, alive, f1, todo, ff, pipeopen, iref>>

PipeFile1(p) ==
    /\ pc[p] = "pipe1"
    /\ FreeFiles # {}
    /\ ref' = [ref EXCEPT ![Min(FreeFiles)] = 1]
    /\ f1' = [f1 EXCEPT ![p] = Min(FreeFiles)]
    /\ pc' = [pc EXCEPT ![p] = "pipe2"]
    /\ UNCHANGED <<type, ofile, alive, f0, todo, ff, pipeopen, iref>>

PipeNoFile(p) ==
    /\ pc[p] = "pipe1"
    /\ FreeFiles = {}
    /\ Ends(p, <<f0[p]>>)
    /\ UNCHANGED <<ref, type, ofile, alive, ff, pipeopen, iref>>

(* kalloc: a page no pipe uses, or none. *)
PipePage(p) ==
    /\ pc[p] = "pipe2"
    /\ \E q \in Pipes :
        /\ pipeopen[q] = {}
        /\ pipeopen' = [pipeopen EXCEPT ![q] = {"read", "write"}]
        /\ type' = [type EXCEPT ![f0[p]] = End(q, "read"), ![f1[p]] = End(q, "write")]
    /\ pc' = [pc EXCEPT ![p] = "pipe3"]
    /\ UNCHANGED <<ref, ofile, alive, f0, f1, todo, ff, iref>>

PipeNoPage(p) ==
    /\ pc[p] = "pipe2"
    /\ Ends(p, <<f0[p], f1[p]>>)
    /\ UNCHANGED <<ref, type, ofile, alive, ff, pipeopen, iref>>

(* Two fdallocs, or the first undone; then copyout, or both undone. *)
PipeInstall(p) ==
    /\ pc[p] = "pipe3"
    /\ Cardinality(FreeFds(p)) >= 2
    /\ LET d == Min(FreeFds(p))  e == Min(FreeFds(p) \ {d}) IN
       ofile' = [ofile EXCEPT ![p][d] = f0[p], ![p][e] = f1[p]]
    /\ Ends(p, <<>>)
    /\ UNCHANGED <<ref, type, alive, ff, pipeopen, iref>>

PipeInstallFails(p) ==
    /\ pc[p] = "pipe3"
    /\ Ends(p, <<f0[p], f1[p]>>)
    /\ UNCHANGED <<ref, type, ofile, alive, ff, pipeopen, iref>>

-----------------------------------------------------------------------------
FileDup(f) == [ref EXCEPT ![f] = @ + 1]

Dup(p, d) ==
    /\ Syscall(p)
    /\ ofile[p][d] # NoFile
    /\ FreeFds(p) # {}
    /\ ofile' = [ofile EXCEPT ![p][Min(FreeFds(p))] = ofile[p][d]]
    /\ ref' = FileDup(ofile[p][d])
    /\ UNCHANGED <<type, alive, pc, f0, f1, todo, ff, pipeopen, iref>>

(* sys_close; kexit closes every descriptor the same way. *)
Close(p, d) ==
    /\ Syscall(p) \/ (pc[p] = "exit" /\ todo[p] = <<>> /\ ff[p] = NONE)
    /\ ofile[p][d] # NoFile
    /\ ofile' = [ofile EXCEPT ![p][d] = NoFile]
    /\ todo' = [todo EXCEPT ![p] = <<ofile[p][d]>>]
    /\ pc' = [pc EXCEPT ![p] = IF @ = "exit" THEN @ ELSE "close"]
    /\ UNCHANGED <<ref, type, alive, f0, f1, ff, pipeopen, iref>>

(* fileclose under ftable.lock: the last reference frees the entry ... *)
LastRef(f) == ref[f] = 1

FileClose(p) ==
    /\ todo[p] # <<>>
    /\ ff[p] = NONE
    /\ LET f == Head(todo[p]) IN
       IF LastRef(f)
       THEN /\ ref' = [ref EXCEPT ![f] = 0]
            /\ ff' = [ff EXCEPT ![p] = type[f]]
            /\ type' = [type EXCEPT ![f] = NONE]
       ELSE /\ ref' = [ref EXCEPT ![f] = @ - 1]
            /\ UNCHANGED <<type, ff>>
    /\ todo' = [todo EXCEPT ![p] = Tail(@)]
    /\ UNCHANGED <<ofile, alive, pc, f0, f1, pipeopen, iref>>

(* ... and then, without the lock, closes what the entry named. *)
CloseObject(p) ==
    /\ ff[p] # NONE
    /\ IF ff[p] = INODE
       THEN iref' = iref - 1 /\ UNCHANGED pipeopen
       ELSE /\ pipeopen' = [pipeopen EXCEPT ![ff[p].pipe] = @ \ {ff[p].end}]
            /\ UNCHANGED iref
    /\ ff' = [ff EXCEPT ![p] = NONE]
    /\ UNCHANGED <<ref, type, ofile, alive, pc, f0, f1, todo>>

CloseReturns(p) ==
    /\ pc[p] = "close" /\ todo[p] = <<>> /\ ff[p] = NONE
    /\ pc' = [pc EXCEPT ![p] = "user"]
    /\ UNCHANGED <<ref, type, ofile, alive, f0, f1, todo, ff, pipeopen, iref>>

(* kfork: the child gets every descriptor through filedup. *)
RefsOf(p, f) == Cardinality({d \in Fds : ofile[p][d] = f})

Fork(p, c) ==
    /\ Syscall(p)
    /\ c \notin alive
    /\ alive' = alive \cup {c}
    /\ ofile' = [ofile EXCEPT ![c] = ofile[p]]
    /\ ref' = [f \in Files |-> ref[f] + RefsOf(p, f)]
    /\ UNCHANGED <<type, pc, f0, f1, todo, ff, pipeopen, iref>>

(* kexit; init does not exit. *)
Exit(p) ==
    /\ Syscall(p)
    /\ p # First
    /\ pc' = [pc EXCEPT ![p] = "exit"]
    /\ UNCHANGED <<ref, type, ofile, alive, f0, f1, todo, ff, pipeopen, iref>>

Exited(p) ==
    /\ pc[p] = "exit" /\ todo[p] = <<>> /\ ff[p] = NONE
    /\ \A d \in Fds : ofile[p][d] = NoFile
    /\ alive' = alive \ {p}
    /\ pc' = [pc EXCEPT ![p] = "user"]
    /\ UNCHANGED <<ref, type, ofile, f0, f1, todo, ff, pipeopen, iref>>

Next ==
    \E p \in Procs :
        \/ Open(p) \/ OpenAlloc(p) \/ OpenNoFile(p) \/ OpenInstall(p) \/ OpenNoFd(p)
        \/ PipeFile0(p) \/ PipeFile1(p) \/ PipeNoFile(p) \/ PipePage(p)
        \/ PipeNoPage(p) \/ PipeInstall(p) \/ PipeInstallFails(p)
        \/ \E d \in Fds : Dup(p, d) \/ Close(p, d)
        \/ FileClose(p) \/ CloseObject(p) \/ CloseReturns(p)
        \/ \E c \in Procs : Fork(p, c)
        \/ Exit(p) \/ Exited(p)

Spec == Init /\ [][Next]_vars

-----------------------------------------------------------------------------
(* References of a process to a file outside its descriptors: a system     *)
(* call has it in hand, to install or to close.                            *)
InHand(p, f) == Cardinality({k \in 1 .. Len(todo[p]) : todo[p][k] = f})
                + (IF f0[p] = f THEN 1 ELSE 0) + (IF f1[p] = f THEN 1 ELSE 0)

(* f->ref counts the references there are: descriptors, after any mixture  *)
(* of dup, fork, close, exit and failed calls, and the files in hand.  A   *)
(* leak or an early free would show here.                                  *)
RefExact ==
    /\ TypeOK
    /\ \A f \in Files :
        ref[f] = MapThenSumSet(LAMBDA p : RefsOf(p, f) + InHand(p, f), Procs)

(* What a file stands for is released once and not early.  A pipe end is   *)
(* open exactly while one open file names it or one fileclose is about to  *)
(* close it, so a reader sees end of file when the last writer is gone and *)
(* not before.  The inode's references are those of open files and of      *)
(* opens and closes under way.                                             *)
ObjectsExact ==
    /\ \A q \in Pipes : \A e \in {"read", "write"} :
        LET named == {f \in Files : type[f] = End(q, e)}
            closing == {p \in Procs : ff[p] = End(q, e)}
        IN Cardinality(named) + Cardinality(closing) =
             (IF e \in pipeopen[q] THEN 1 ELSE 0)
    /\ iref = Cardinality({f \in Files : type[f] = INODE})
              + Cardinality({p \in Procs : ff[p] = INODE})
              + Cardinality({p \in Procs : pc[p] \in {"open1", "open2"}})

(* Counts and objects agree: a file lives exactly as long as its           *)
(* references, and what it stands for exactly as long as the file.         *)
ReferencesExact == RefExact /\ ObjectsExact
=============================================================================
