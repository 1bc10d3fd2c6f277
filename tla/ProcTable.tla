----------------------------- MODULE ProcTable -----------------------------
(***************************************************************************)
(* The life of a process (kernel/proc.c): fork, exit, wait, kill and the   *)
(* process table they share, under wait_lock and the per-process locks.    *)
(* Which RUNNABLE process runs, and on which CPU, is module Scheduler's    *)
(* subject: here every process that is not asleep may take its next step.  *)
(***************************************************************************)
EXTENDS Naturals

CONSTANTS
    NPROC,          \* slots of the process table
    MaxPid,         \* bound on the pids handed out
    Status,         \* exit statuses of sys_exit
    KillPids        \* pids passed to sys_kill

ASSUME SizesAreNat ==
    /\ NPROC \in Nat \ {0}
    /\ MaxPid \in Nat \ {0}
    /\ KillPids \subseteq Nat

Slots == 0 .. NPROC - 1
initproc == 0       \* userinit() takes the first slot, and pid 1
NoSlot == NPROC     \* a null struct proc pointer
Killed == "killed"  \* the exit status -1 of kexit(-1)
NoStatus == "none"  \* xstate = 0 of a process that has not exited

VARIABLES
    state,          \* p->state
    pid,            \* p->pid, 0 in a free slot
    parent,         \* p->parent
    killed,         \* p->killed
    xstate,         \* p->xstate
    nextpid,        \* the next pid
    wait_lock,      \* the process that holds wait_lock, or NoSlot
    pc,             \* where the process's thread is; "none" if it has none
    child           \* the local variable np of kfork

vars == <<state, pid, parent, killed, xstate, nextpid, wait_lock, pc, child>>

TypeOK ==
    /\ state \in [Slots -> {"UNUSED", "USED", "RUNNABLE", "SLEEPING", "ZOMBIE"}]
    /\ pid \in [Slots -> 0 .. MaxPid]
    /\ parent \in [Slots -> Slots \cup {NoSlot}]
    /\ killed \in [Slots -> {0, 1}]
    /\ xstate \in [Slots -> Status \cup {Killed, NoStatus}]
    /\ nextpid \in 1 .. MaxPid + 1
    /\ wait_lock \in Slots \cup {NoSlot}
    /\ pc \in [Slots -> {"none", "run", "fork1", "fork2", "wait", "scan", "doze",
                         "exit1", "exit2", "exit3"}]
    /\ child \in [Slots -> Slots \cup {NoSlot}]

(* After userinit(): init is the only process. *)
Init ==
    /\ state = [s \in Slots |-> IF s = initproc THEN "RUNNABLE" ELSE "UNUSED"]
    /\ pid = [s \in Slots |-> IF s = initproc THEN 1 ELSE 0]
    /\ parent = [s \in Slots |-> NoSlot]
    /\ killed = [s \in Slots |-> 0]
    /\ xstate = [s \in Slots |-> NoStatus]
    /\ nextpid = 2
    /\ wait_lock = NoSlot
    /\ pc = [s \in Slots |-> IF s = initproc THEN "run" ELSE "none"]
    /\ child = [s \in Slots |-> NoSlot]

-----------------------------------------------------------------------------
(* The thread of p can take a step.  exit3: it is switching away for good. *)
Running(p) == state[p] = "RUNNABLE" \/ (state[p] = "ZOMBIE" /\ pc[p] = "exit3")

(* A system call starts in user space; usertrap has found p not killed. *)
Syscall(p) == Running(p) /\ pc[p] = "run" /\ killed[p] = 0

(* p->lock is held across the switch out of kexit(). *)
LockIgnored(s) == TRUE
LockFree(s) == pc[s] # "exit3"

Children(p) == {s \in Slots : parent[s] = p}
Zombies(p) == {s \in Children(p) : state[s] = "ZOMBIE"}

(* wakeup(chan), where the channel of kwait is the waiting process. *)
Wakeup(st, p) == IF p # NoSlot /\ st[p] = "SLEEPING" THEN [st EXCEPT ![p] = "RUNNABLE"]
                 ELSE st

FreeProcKeepsState(s) ==
    /\ pid' = [pid EXCEPT ![s] = 0]
    /\ parent' = [parent EXCEPT ![s] = NoSlot]
    /\ UNCHANGED <<state, killed, xstate>>
FreeProc(s) ==
    /\ state' = [state EXCEPT ![s] = "UNUSED"]
    /\ pid' = [pid EXCEPT ![s] = 0]
    /\ parent' = [parent EXCEPT ![s] = NoSlot]
    /\ killed' = [killed EXCEPT ![s] = 0]
    /\ xstate' = [xstate EXCEPT ![s] = NoStatus]

(* allocpid() *)
PidAfter(n) == n + 1

(* The slot allocproc finds. *)
FirstFree(s) == /\ state[s] = "UNUSED"
                /\ \A t \in Slots : t < s => state[t] # "UNUSED"

-----------------------------------------------------------------------------
(* kfork: allocproc takes the first free slot and a pid; np->lock is held  *)
(* until the child's memory, files and directory are copied.               *)
ForkAlloc(p) ==
    /\ Syscall(p)
    /\ nextpid <= MaxPid
    /\ \E s \in Slots :
        /\ FirstFree(s)
        /\ pid' = [pid EXCEPT ![s] = nextpid]
        /\ state' = [state EXCEPT ![s] = "USED"]
        /\ child' = [child EXCEPT ![p] = s]
    /\ nextpid' = PidAfter(nextpid)
    /\ pc' = [pc EXCEPT ![p] = "fork1"]
    /\ UNCHANGED <<parent, killed, xstate, wait_lock>>

(* No memory for the trapframe, the page table or uvmcopy: freeproc(np),   *)
(* under the np->lock allocproc took, but the pid is spent.                *)
ForkFail(p) ==
    /\ Syscall(p)
    /\ nextpid <= MaxPid
    /\ \E s \in Slots : FirstFree(s) /\ FreeProc(s)
    /\ nextpid' = PidAfter(nextpid)
    /\ UNCHANGED <<wait_lock, pc, child>>

ForkParent(p) ==
    /\ pc[p] = "fork1"
    /\ wait_lock = NoSlot
    /\ parent' = [parent EXCEPT ![child[p]] = p]
    /\ pc' = [pc EXCEPT ![p] = "fork2"]
    /\ UNCHANGED <<state, pid, killed, xstate, nextpid, wait_lock, child>>

ForkRunnable(p) ==
    /\ pc[p] = "fork2"
    /\ state' = [state EXCEPT ![child[p]] = "RUNNABLE"]
    /\ pc' = [pc EXCEPT ![p] = "run", ![child[p]] = "run"]
    /\ child' = [child EXCEPT ![p] = NoSlot]
    /\ UNCHANGED <<pid, parent, killed, xstate, nextpid, wait_lock>>

-----------------------------------------------------------------------------
(* kexit, by sys_exit or because usertrap finds p killed: files are closed *)
(* first, then wait_lock is taken.  init never exits here: it would panic. *)
Exit(p) ==
    /\ p # initproc
    /\ Running(p)
    /\ pc[p] = "run"
    /\ wait_lock = NoSlot
    /\ wait_lock' = p
    /\ pc' = [pc EXCEPT ![p] = "exit1"]
    /\ UNCHANGED <<state, pid, parent, killed, xstate, nextpid, child>>

AdoptedIfAlive(p) ==
    [s \in Slots |-> IF parent[s] = p /\ state[s] # "ZOMBIE" THEN initproc
                     ELSE parent[s]]
Adopted(p) == [s \in Slots |-> IF parent[s] = p THEN initproc ELSE parent[s]]

(* reparent(p) gives each child to init and wakes init for each. *)
Reparent(p) ==
    /\ pc[p] = "exit1"
    /\ parent' = Adopted(p)
    /\ state' = IF Children(p) # {} THEN Wakeup(state, initproc) ELSE state
    /\ pc' = [pc EXCEPT ![p] = "exit2"]
    /\ UNCHANGED <<pid, killed, xstate, nextpid, wait_lock, child>>

(* Wake the parent, become a ZOMBIE under p->lock, release wait_lock.  A   *)
(* process killed after it called exit keeps the status it gave.           *)
BecomeZombie(p) ==
    /\ pc[p] = "exit2"
    /\ state' = [Wakeup(state, parent[p]) EXCEPT ![p] = "ZOMBIE"]
    /\ \E st \in Status \cup {Killed} :
        /\ st = Killed => killed[p] = 1
        /\ xstate' = [xstate EXCEPT ![p] = st]
    /\ wait_lock' = NoSlot
    /\ pc' = [pc EXCEPT ![p] = "exit3"]
    /\ UNCHANGED <<pid, parent, killed, nextpid, child>>

(* sched(): off its kernel stack; the scheduler releases p->lock. *)
Gone(p) ==
    /\ pc[p] = "exit3"
    /\ pc' = [pc EXCEPT ![p] = "none"]
    /\ UNCHANGED <<state, pid, parent, killed, xstate, nextpid, wait_lock, child>>

-----------------------------------------------------------------------------
(* kwait: acquire(&wait_lock), at its start and whenever sleep returns. *)
WaitLock(p) ==
    /\ Syscall(p) \/ (Running(p) /\ pc[p] = "wait")
    /\ wait_lock = NoSlot
    /\ wait_lock' = p
    /\ pc' = [pc EXCEPT ![p] = "scan"]
    /\ UNCHANGED <<state, pid, parent, killed, xstate, nextpid, child>>

(* The first zombie child in the table, once its lock is free, is freed *)
(* and its status copied out ...                                         *)
FirstZombie(p, s) == s \in Zombies(p) /\ \A t \in Zombies(p) : s <= t

Reap(p) ==
    /\ pc[p] = "scan"
    /\ \E s \in Slots : FirstZombie(p, s) /\ LockFree(s) /\ FreeProc(s)
    /\ wait_lock' = NoSlot
    /\ pc' = [pc EXCEPT ![p] = "run"]
    /\ UNCHANGED <<nextpid, child>>

(* ... unless copyout fails, which leaves the zombie to another wait; init *)
(* passes no address (user/init.c).                                        *)
ReapFail(p) ==
    /\ p # initproc
    /\ pc[p] = "scan"
    /\ \E s \in Slots : FirstZombie(p, s) /\ LockFree(s)
    /\ wait_lock' = NoSlot
    /\ pc' = [pc EXCEPT ![p] = "run"]
    /\ UNCHANGED <<state, pid, parent, killed, xstate, nextpid, child>>

(* No child at all, or killed: -1. *)
WaitNone(p) ==
    /\ pc[p] = "scan"
    /\ Zombies(p) = {}
    /\ Children(p) = {} \/ killed[p] = 1
    /\ wait_lock' = NoSlot
    /\ pc' = [pc EXCEPT ![p] = "run"]
    /\ UNCHANGED <<state, pid, parent, killed, xstate, nextpid, child>>

(* Children, none of them a zombie, and not killed: sleep(p, &wait_lock).  *)
(* killed(p) releases p->lock, and sleep takes it again.                   *)
WaitForChild(p) ==
    /\ pc[p] = "scan"
    /\ Zombies(p) = {}
    /\ Children(p) # {}
    /\ killed[p] = 0
    /\ pc' = [pc EXCEPT ![p] = "doze"]
    /\ UNCHANGED <<state, pid, parent, killed, xstate, nextpid, wait_lock, child>>

Sleep(p) ==
    /\ pc[p] = "doze"
    /\ state' = [state EXCEPT ![p] = "SLEEPING"]
    /\ wait_lock' = NoSlot
    /\ pc' = [pc EXCEPT ![p] = "wait"]
    /\ UNCHANGED <<pid, parent, killed, xstate, nextpid, child>>

-----------------------------------------------------------------------------
(* kkill(n): the first slot whose pid is n, under its lock. *)
Kill(p, n) ==
    /\ Syscall(p)
    /\ \E s \in Slots :
        /\ pid[s] = n
        /\ \A t \in Slots : t < s => pid[t] # n
        /\ LockFree(s)
        /\ killed' = [killed EXCEPT ![s] = 1]
        /\ state' = Wakeup(state, s)
    /\ UNCHANGED <<pid, parent, xstate, nextpid, wait_lock, pc, child>>

WaitStep(p) == WaitLock(p) \/ Reap(p) \/ ReapFail(p) \/ WaitNone(p)
               \/ WaitForChild(p) \/ Sleep(p)

ExitStep(p) == Reparent(p) \/ BecomeZombie(p) \/ Gone(p)

ForkStep(p) == ForkParent(p) \/ ForkRunnable(p)

Next ==
    \E p \in Slots :
        \/ ForkAlloc(p) \/ ForkFail(p) \/ ForkStep(p)
        \/ Exit(p) \/ ExitStep(p)
        \/ WaitStep(p)
        \/ \E n \in KillPids : Kill(p, n)

Spec == Init /\ [][Next]_vars

-----------------------------------------------------------------------------
Alive(s) == state[s] \in {"RUNNABLE", "SLEEPING"}

(* Every process but init has a parent that can still wait for it: exit    *)
(* hands its children on before it becomes a zombie, and a child is given  *)
(* its parent before it can run.  No zombie is left that nobody can reap.  *)
ParentAlive ==
    /\ TypeOK
    /\ \A s \in Slots \ {initproc} :
        Alive(s) \/ state[s] = "ZOMBIE" => parent[s] # NoSlot /\ Alive(parent[s])

(* No parent sleeps in wait while one of its children, its own or adopted, *)
(* is a zombie: exit and reparent wake it under wait_lock.                 *)
NoLostExit == \A p \in Slots : state[p] = "SLEEPING" => Zombies(p) = {}

(* An exit reaches a parent: one that lives, and is not left asleep.       *)
ExitReachesParent == ParentAlive /\ NoLostExit

(* A slot whose thread is still on its kernel stack is not free and not    *)
(* handed to a new process: wait takes the child's lock, which the child   *)
(* holds until the scheduler runs on another stack.                        *)
FreedOffStack ==
    \A s \in Slots : state[s] \in {"UNUSED", "USED"} => pc[s] = "none"

(* Fairness: the scheduler runs every process; one that has begun exit,    *)
(* fork or wait goes on, although wait_lock may keep being taken by others *)
(* first; and init's loop (user/init.c) keeps calling wait.                *)
FairSpec ==
    /\ Spec
    /\ \A p \in Slots : /\ WF_vars(ExitStep(p))
                        /\ SF_vars(ForkStep(p))
                        /\ WF_vars(Reap(p) \/ ReapFail(p) \/ WaitNone(p)
                                   \/ WaitForChild(p) \/ Sleep(p))
    /\ SF_vars(WaitLock(initproc))

(* A zombie that is init's child, born or adopted, is reaped. *)
OrphansReaped ==
    \A s \in Slots : state[s] = "ZOMBIE" /\ parent[s] = initproc
                     ~> state[s] = "UNUSED"
=============================================================================
