-------------------------- MODULE ProcTableProofs --------------------------
(***************************************************************************)
(* Theorems about ProcTable, for any size of the process table and any     *)
(* number of pids: an exit reaches a living parent that is not left        *)
(* asleep, and no slot is freed while its thread is on its stack.          *)
(***************************************************************************)
EXTENDS ProcTable, TLAPS

(* wait_lock is held exactly by who is between its acquire and release. *)
HoldsWaitLock(p) == pc[p] \in {"scan", "doze", "exit1", "exit2"}
LockInv == \A p \in Slots : HoldsWaitLock(p) <=> wait_lock = p

(* Which thread a process in each state has. *)
ThreadInv ==
    \A s \in Slots :
        /\ state[s] \in {"UNUSED", "USED"} => pc[s] = "none"
        /\ state[s] = "ZOMBIE" => pc[s] \in {"none", "exit3"}
        /\ state[s] = "RUNNABLE" => pc[s] \notin {"none", "exit3"}
        /\ state[s] = "SLEEPING" => pc[s] = "wait"

(* init does not exit; a child in the making belongs to one fork. *)
InitInv == Alive(initproc) /\ pc[initproc] \notin {"exit1", "exit2"}
Forking(p) == pc[p] \in {"fork1", "fork2"}
ForkInv ==
    \A p \in Slots : Forking(p) =>
        /\ child[p] \in Slots \ {initproc} /\ state[child[p]] = "USED"
        /\ pc[p] = "fork2" => parent[child[p]] = p
        /\ \A q \in Slots : Forking(q) /\ child[q] = child[p] => q = p

(* Parents live, and an exiting process has handed on its children. *)
FamilyInv ==
    /\ \A s \in Slots : parent[s] # NoSlot => Alive(parent[s])
    /\ \A s \in Slots \ {initproc} :
          Alive(s) \/ state[s] = "ZOMBIE" => parent[s] # NoSlot
    /\ \A p \in Slots : pc[p] = "exit2" => \A s \in Slots : parent[s] # p

(* No zombie child escapes a process that sleeps, or is about to. *)
WaitInv ==
    \A p \in Slots : state[p] = "SLEEPING" \/ pc[p] = "doze" => Zombies(p) = {}

ProcInv ==
    /\ TypeOK /\ LockInv /\ ThreadInv /\ InitInv /\ ForkInv /\ FamilyInv /\ WaitInv

(* Init establishes the invariant. *)
LEMMA InitEstablishes == Init => ProcInv
<1> SUFFICES ASSUME Init PROVE ProcInv
  OBVIOUS
<1> USE SizesAreNat DEF Slots, NoSlot, initproc, Init
<1>1. TypeOK
  BY DEF TypeOK
<1>2. LockInv /\ ThreadInv /\ InitInv
  BY DEF LockInv, HoldsWaitLock, ThreadInv, InitInv, Alive
<1>3. ForkInv /\ FamilyInv
  BY DEF ForkInv, Forking, FamilyInv, Alive
<1>4. WaitInv
  BY DEF WaitInv
<1> QED
  BY <1>1, <1>2, <1>3, <1>4 DEF ProcInv

(* The step of kfork that takes a free slot keeps the invariant. *)
LEMMA ForkAllocStep ==
    ASSUME ProcInv, NEW p \in Slots, ForkAlloc(p)
    PROVE  ProcInv'
<1> USE SizesAreNat DEF ProcInv, ForkAlloc, Syscall, FirstFree, PidAfter
<1>1. TypeOK'
  BY DEF TypeOK
<1>2. LockInv'
  BY DEF LockInv, HoldsWaitLock
<1>3. ThreadInv'
  BY DEF ThreadInv
<1>4. InitInv'
  BY DEF InitInv, Alive
<1>5. ForkInv'
  BY DEF TypeOK, ForkInv, Forking, InitInv, Alive
<1>6. FamilyInv'
  BY DEF FamilyInv, Alive
<1>7. WaitInv'
  BY DEF WaitInv, Zombies, Children
<1> QED
  BY <1>1, <1>2, <1>3, <1>4, <1>5, <1>6, <1>7

(* A fork that fails gives its slot back and keeps the invariant. *)
LEMMA ForkFailStep ==
    ASSUME ProcInv, NEW p \in Slots, ForkFail(p)
    PROVE  ProcInv'
<1> USE SizesAreNat DEF ProcInv, Slots, NoSlot, ForkFail, FirstFree, FreeProc,
        PidAfter
<1>1. TypeOK'
  BY DEF TypeOK
<1>2. LockInv'
  BY DEF LockInv, HoldsWaitLock
<1>3. ThreadInv'
  BY DEF ThreadInv
<1>4. InitInv'
  BY DEF InitInv, Alive
<1>5. ForkInv'
  BY DEF ForkInv, Forking
<1>6. FamilyInv'
  BY DEF FamilyInv, Alive
<1>7. WaitInv'
  BY DEF WaitInv, Zombies, Children
<1> QED
  BY <1>1, <1>2, <1>3, <1>4, <1>5, <1>6, <1>7

(* The step of kfork that sets the parent keeps the invariant. *)
LEMMA ForkParentStep ==
    ASSUME ProcInv, NEW p \in Slots, ForkParent(p)
    PROVE  ProcInv'
<1> USE DEF ProcInv, NoSlot, initproc, ForkParent
<1>1. TypeOK'
  BY DEF TypeOK
<1>2. LockInv'
  BY DEF LockInv, HoldsWaitLock
<1>3. ThreadInv'
  BY DEF ThreadInv
<1>4. InitInv'
  BY DEF InitInv, Alive
<1>5. ForkInv'
  BY DEF TypeOK, ForkInv, Forking
<1>6. FamilyInv'
  BY DEF TypeOK, FamilyInv, Alive, ThreadInv, InitInv, ForkInv, Forking
<1>7. WaitInv'
  BY DEF WaitInv, Zombies, Children, ThreadInv
<1> QED
  BY <1>1, <1>2, <1>3, <1>4, <1>5, <1>6, <1>7

(* The step of kfork that starts the child keeps the invariant. *)
LEMMA ForkRunnableStep ==
    ASSUME ProcInv, NEW p \in Slots, ForkRunnable(p)
    PROVE  ProcInv'
<1> USE SizesAreNat DEF ProcInv, Slots, NoSlot, initproc, ForkRunnable
<1>1. TypeOK'
  BY DEF TypeOK
<1>2. LockInv'
  BY DEF TypeOK, LockInv, HoldsWaitLock, ThreadInv, ForkInv, Forking
<1>3. ThreadInv'
  BY DEF TypeOK, ThreadInv
<1>4. InitInv'
  BY DEF TypeOK, InitInv, Alive
<1>5. ForkInv'
  BY DEF TypeOK, ForkInv, Forking
<1>6. FamilyInv'
  BY DEF TypeOK, FamilyInv, Alive, ForkInv, Forking
<1>7. WaitInv'
  BY DEF TypeOK, WaitInv, Zombies, Children
<1> QED
  BY <1>1, <1>2, <1>3, <1>4, <1>5, <1>6, <1>7

(* Taking wait_lock in kexit keeps the invariant. *)
LEMMA ExitStarts ==
    ASSUME ProcInv, NEW p \in Slots, Exit(p)
    PROVE  ProcInv'
<1> USE DEF ProcInv, Slots, NoSlot, Exit
<1>1. TypeOK'
  BY DEF TypeOK
<1>2. LockInv'
  BY DEF TypeOK, LockInv, HoldsWaitLock
<1>3. ThreadInv'
  BY DEF ThreadInv
<1>4. InitInv'
  BY DEF InitInv, Alive
<1>5. ForkInv'
  BY DEF ForkInv, Forking
<1>6. FamilyInv'
  BY DEF FamilyInv, Alive
<1>7. WaitInv'
  BY DEF WaitInv, Zombies, Children
<1> QED
  BY <1>1, <1>2, <1>3, <1>4, <1>5, <1>6, <1>7

(* reparent hands every child to init, and wakes it. *)
LEMMA ReparentStep ==
    ASSUME ProcInv, NEW p \in Slots, Reparent(p)
    PROVE  ProcInv'
<1> USE SizesAreNat DEF ProcInv, Slots, NoSlot, initproc, Reparent, Adopted, Wakeup
<1>1. TypeOK'
  BY DEF TypeOK
<1>2. LockInv'
  BY DEF LockInv, HoldsWaitLock
<1>3. ThreadInv'
  BY DEF ThreadInv
<1>4. InitInv'
  BY DEF InitInv, Alive
<1>5. ForkInv'
  BY DEF ForkInv, Forking
<1>6. FamilyInv'
  BY DEF FamilyInv, Alive, InitInv
<1>7. WaitInv'
  BY DEF TypeOK, WaitInv, Zombies, Children, LockInv, HoldsWaitLock
<1> QED
  BY <1>1, <1>2, <1>3, <1>4, <1>5, <1>6, <1>7

(* A process that becomes a zombie wakes its parent first. *)
LEMMA BecomeZombieStep ==
    ASSUME ProcInv, NEW p \in Slots, BecomeZombie(p)
    PROVE  ProcInv'
<1> USE SizesAreNat DEF ProcInv, Slots, NoSlot, initproc, BecomeZombie, Wakeup
<1>1. TypeOK'
  BY DEF TypeOK, Forking
<1>2. LockInv'
  BY DEF TypeOK, LockInv, HoldsWaitLock
<1>3. ThreadInv'
  BY DEF TypeOK, ThreadInv
<1>4. InitInv'
  BY DEF TypeOK, InitInv, Alive
<1>5. ForkInv'
  BY DEF TypeOK, ForkInv, Forking, ThreadInv
<1>6. FamilyInv'
  <2>1. \A s \in Slots : parent[s] # p
    BY DEF FamilyInv
  <2>2. \A s \in Slots \ {p} : Alive(s) => Alive(s)'
    BY DEF TypeOK, Alive
  <2>3. \A s \in Slots : parent'[s] # NoSlot => Alive(parent[s])'
    BY <2>2 DEF TypeOK, FamilyInv
  <2>4. \A s \in Slots \ {initproc} :
            Alive(s)' \/ state'[s] = "ZOMBIE" => parent'[s] # NoSlot
    <3> SUFFICES ASSUME NEW s \in Slots \ {initproc},
                        Alive(s)' \/ state'[s] = "ZOMBIE"
                 PROVE  parent[s] # NoSlot
      OBVIOUS
    <3>1. Alive(s) \/ state[s] = "ZOMBIE"
      BY DEF TypeOK, Alive, ThreadInv
    <3> QED
      BY <3>1 DEF FamilyInv
  <2>5. \A q \in Slots : pc'[q] = "exit2" => \A s \in Slots : parent'[s] # q
    BY DEF FamilyInv
  <2> QED
    BY <2>3, <2>4, <2>5 DEF FamilyInv
<1>7. WaitInv'
  BY DEF TypeOK, WaitInv, Zombies, Children, LockInv, HoldsWaitLock
<1> QED
  BY <1>1, <1>2, <1>3, <1>4, <1>5, <1>6, <1>7

(* Leaving the kernel stack for good keeps the invariant. *)
LEMMA GoneStep ==
    ASSUME ProcInv, NEW p \in Slots, Gone(p)
    PROVE  ProcInv'
<1> USE DEF ProcInv, Gone
<1>1. TypeOK'
  BY DEF TypeOK
<1>2. LockInv'
  BY DEF LockInv, HoldsWaitLock
<1>3. ThreadInv'
  BY DEF ThreadInv
<1>4. InitInv'
  BY DEF InitInv, Alive
<1>5. ForkInv'
  BY DEF ForkInv, Forking
<1>6. FamilyInv'
  BY DEF FamilyInv, Alive
<1>7. WaitInv'
  BY DEF WaitInv, Zombies, Children
<1> QED
  BY <1>1, <1>2, <1>3, <1>4, <1>5, <1>6, <1>7

(* Taking wait_lock in kwait keeps the invariant. *)
LEMMA WaitLockStep ==
    ASSUME ProcInv, NEW p \in Slots, WaitLock(p)
    PROVE  ProcInv'
<1> USE DEF ProcInv, Slots, NoSlot, WaitLock, Syscall, Running
<1>1. TypeOK'
  BY DEF TypeOK
<1>2. LockInv'
  BY DEF TypeOK, LockInv, HoldsWaitLock
<1>3. ThreadInv'
  BY DEF ThreadInv
<1>4. InitInv'
  BY DEF InitInv, Alive
<1>5. ForkInv'
  BY DEF ForkInv, Forking
<1>6. FamilyInv'
  BY DEF FamilyInv, Alive
<1>7. WaitInv'
  BY DEF WaitInv, Zombies, Children
<1> QED
  BY <1>1, <1>2, <1>3, <1>4, <1>5, <1>6, <1>7

(* Freeing a zombie keeps the invariant. *)
LEMMA ReapStep ==
    ASSUME ProcInv, NEW p \in Slots, Reap(p)
    PROVE  ProcInv'
<1> USE SizesAreNat DEF ProcInv, Slots, NoSlot, Reap, FirstZombie, FreeProc, LockFree
<1>1. TypeOK'
  BY DEF TypeOK
<1>2. LockInv'
  BY DEF TypeOK, LockInv, HoldsWaitLock
<1>3. ThreadInv'
  BY DEF ThreadInv, Zombies
<1>4. InitInv'
  BY DEF InitInv, Alive, Zombies
<1>5. ForkInv'
  BY DEF ForkInv, Forking, Zombies
<1>6. FamilyInv'
  BY DEF TypeOK, FamilyInv, Alive, Zombies
<1>7. WaitInv'
  BY DEF WaitInv, Zombies, Children
<1> QED
  BY <1>1, <1>2, <1>3, <1>4, <1>5, <1>6, <1>7

(* A wait whose copyout fails keeps the invariant. *)
LEMMA ReapFailStep ==
    ASSUME ProcInv, NEW p \in Slots, ReapFail(p)
    PROVE  ProcInv'
<1> USE DEF ProcInv, Slots, NoSlot, ReapFail
<1>1. TypeOK'
  BY DEF TypeOK
<1>2. LockInv'
  BY DEF TypeOK, LockInv, HoldsWaitLock
<1>3. ThreadInv'
  BY DEF ThreadInv
<1>4. InitInv'
  BY DEF InitInv, Alive
<1>5. ForkInv'
  BY DEF ForkInv, Forking
<1>6. FamilyInv'
  BY DEF FamilyInv, Alive
<1>7. WaitInv'
  BY DEF WaitInv, Zombies, Children
<1> QED
  BY <1>1, <1>2, <1>3, <1>4, <1>5, <1>6, <1>7

(* A wait with nothing to wait for keeps the invariant. *)
LEMMA WaitNoneStep ==
    ASSUME ProcInv, NEW p \in Slots, WaitNone(p)
    PROVE  ProcInv'
<1> USE DEF ProcInv, Slots, NoSlot, WaitNone
<1>1. TypeOK'
  BY DEF TypeOK
<1>2. LockInv'
  BY DEF TypeOK, LockInv, HoldsWaitLock
<1>3. ThreadInv'
  BY DEF ThreadInv
<1>4. InitInv'
  BY DEF InitInv, Alive
<1>5. ForkInv'
  BY DEF ForkInv, Forking
<1>6. FamilyInv'
  BY DEF FamilyInv, Alive
<1>7. WaitInv'
  BY DEF WaitInv, Zombies, Children
<1> QED
  BY <1>1, <1>2, <1>3, <1>4, <1>5, <1>6, <1>7

(* A wait that finds no zombie is about to sleep without one. *)
LEMMA WaitForChildStep ==
    ASSUME ProcInv, NEW p \in Slots, WaitForChild(p)
    PROVE  ProcInv'
<1> USE DEF ProcInv, WaitForChild
<1>1. TypeOK'
  BY DEF TypeOK
<1>2. LockInv'
  BY DEF LockInv, HoldsWaitLock
<1>3. ThreadInv'
  BY DEF ThreadInv
<1>4. InitInv'
  BY DEF InitInv, Alive
<1>5. ForkInv'
  BY DEF ForkInv, Forking
<1>6. FamilyInv'
  BY DEF FamilyInv, Alive
<1>7. WaitInv'
  BY DEF WaitInv, Zombies, Children
<1> QED
  BY <1>1, <1>2, <1>3, <1>4, <1>5, <1>6, <1>7

(* Going to sleep in kwait keeps the invariant. *)
LEMMA SleepStep ==
    ASSUME ProcInv, NEW p \in Slots, Sleep(p)
    PROVE  ProcInv'
<1> USE DEF ProcInv, Slots, NoSlot, initproc, Sleep
<1>1. TypeOK'
  BY DEF TypeOK
<1>2. LockInv'
  BY DEF TypeOK, LockInv, HoldsWaitLock
<1>3. ThreadInv'
  BY DEF TypeOK, ThreadInv
<1>4. InitInv'
  BY DEF InitInv, Alive
<1>5. ForkInv'
  BY DEF ForkInv, Forking, ThreadInv
<1>6. FamilyInv'
  BY DEF TypeOK, FamilyInv, Alive, ThreadInv, ForkInv, Forking
<1>7. WaitInv'
  BY DEF WaitInv, Zombies, Children
<1> QED
  BY <1>1, <1>2, <1>3, <1>4, <1>5, <1>6, <1>7

(* kkill keeps the invariant. *)
LEMMA KillStep ==
    ASSUME ProcInv, NEW p \in Slots, NEW k \in KillPids, Kill(p, k)
    PROVE  ProcInv'
<1> USE DEF ProcInv, Kill, Wakeup
<1>1. TypeOK'
  BY DEF TypeOK
<1>2. LockInv'
  BY DEF LockInv, HoldsWaitLock
<1>3. ThreadInv'
  BY DEF ThreadInv
<1>4. InitInv'
  BY DEF InitInv, Alive
<1>5. ForkInv'
  BY DEF ForkInv, Forking
<1>6. FamilyInv'
  BY DEF FamilyInv, Alive
<1>7. WaitInv'
  BY DEF WaitInv, Zombies, Children
<1> QED
  BY <1>1, <1>2, <1>3, <1>4, <1>5, <1>6, <1>7

(* Steps that change nothing keep the invariant. *)
LEMMA ProcStutter == ProcInv /\ UNCHANGED vars => ProcInv'
BY DEF vars, ProcInv, TypeOK, LockInv, HoldsWaitLock, ThreadInv, InitInv, ForkInv,
   Forking, FamilyInv, WaitInv, Alive, Zombies, Children

(* Every state of the process table satisfies the invariant. *)
THEOREM ProcTableInvariant == Spec => []ProcInv
<1>1. ProcInv /\ [Next]_vars => ProcInv'
  <2> SUFFICES ASSUME ProcInv, Next PROVE ProcInv'
    BY ProcStutter
  <2> PICK p \in Slots :
        \/ ForkAlloc(p) \/ ForkFail(p) \/ ForkStep(p) \/ Exit(p) \/ ExitStep(p)
        \/ WaitStep(p) \/ \E k \in KillPids : Kill(p, k)
    BY DEF Next
  <2>1. CASE ForkAlloc(p) \/ ForkFail(p)
    BY <2>1, ForkAllocStep, ForkFailStep
  <2>2. CASE ForkStep(p)
    BY <2>2, ForkParentStep, ForkRunnableStep DEF ForkStep
  <2>3. CASE Exit(p)
    BY <2>3, ExitStarts
  <2>4. CASE ExitStep(p)
    BY <2>4, ReparentStep, BecomeZombieStep, GoneStep DEF ExitStep
  <2>5. CASE WaitStep(p)
    BY <2>5, WaitLockStep, ReapStep, ReapFailStep, WaitNoneStep, WaitForChildStep,
       SleepStep DEF WaitStep
  <2>6. CASE \E k \in KillPids : Kill(p, k)
    BY <2>6, KillStep
  <2> QED
    BY <2>1, <2>2, <2>3, <2>4, <2>5, <2>6
<1> QED
  BY InitEstablishes, <1>1, PTL DEF Spec

(* Every process but init has a parent that lives, and no parent sleeps in *)
(* wait while one of its children is a zombie: kfork sets the parent       *)
(* before the child runs, and kexit hands its children on and wakes the    *)
(* parents under wait_lock.                                                *)
THEOREM ExitsReachParents == Spec => []ExitReachesParent
<1>1. ProcInv => ExitReachesParent
  BY DEF ProcInv, ExitReachesParent, ParentAlive, NoLostExit, FamilyInv, WaitInv
<1> QED
  BY ProcTableInvariant, <1>1, PTL

(* kwait never frees, and kfork never reuses, the slot of a process whose  *)
(* thread is still on its kernel stack.                                    *)
THEOREM StacksOutliveThreads == Spec => []FreedOffStack
<1>1. ProcInv => FreedOffStack
  BY DEF ProcInv, ThreadInv, FreedOffStack
<1> QED
  BY ProcTableInvariant, <1>1, PTL
=============================================================================
