----------------------------- MODULE Scheduler -----------------------------
(***************************************************************************)
(* Context switching and sleep/wakeup (kernel/proc.c) on several CPUs,     *)
(* with the spin-locks and interrupt nesting they rest on (spinlock.c) and *)
(* the traps that preempt (trap.c).  Every process runs the loop all       *)
(* sleepers in the kernel run: lock lk, wait for cond with sleep, consume  *)
(* it, unlock.  A device interrupt, which may hit any CPU, sets cond and   *)
(* calls wakeup, as virtio_disk_intr, uartintr and clockintr do.           *)
(***************************************************************************)
EXTENDS Naturals

CONSTANTS
    Procs,          \* slots of the process table that hold a process
    Cpus,           \* harts
    None            \* no process, or no CPU

ASSUME NoneFresh == None \notin Procs \cup Cpus

VARIABLES
    state,          \* p->state
    chan,           \* p->chan: 1 for the condition's channel, 0 for none
    pc,             \* where the process's kernel thread is
    ret,            \* where its thread continues after sched()
    savedIntena,    \* the local variable intena of sched(), on p's stack
    plock,          \* the CPU that holds p->lock, or None
    lk,             \* the CPU that holds the condition's lock, or None
    cond,           \* the condition slept for
    cpu,            \* per CPU: loaded context, c->proc, noff, intena, SIE bit
    loop,           \* per CPU: where scheduler() is
    left,           \* per CPU: processes its scan has still to look at
    found,          \* per CPU: the local variable found of scheduler()
    hpc,            \* per CPU: where the device interrupt handler is
    hintr,          \* per CPU: the SIE bit the trap will restore
    hleft           \* per CPU: processes its wakeup() has still to look at

(* The variables of the scheduler loop and of the interrupt handler. *)
loopVars == <<loop, left, found>>
handlerVars == <<hpc, hintr, hleft>>

vars == <<state, chan, pc, ret, savedIntena, plock, lk, cond, cpu, loopVars,
          handlerVars>>

Cpu == [ctx : Procs \cup {None}, proc : Procs \cup {None}, noff : 0..2,
        intena : {0, 1}, intr : {0, 1}]

TypeOK ==
    /\ state \in [Procs -> {"RUNNABLE", "RUNNING", "SLEEPING"}]
    /\ chan \in [Procs -> {0, 1}]
    /\ pc \in [Procs -> {"user", "run", "check", "sleep1", "sleep2", "switch",
                         "saved", "resume", "reacquire", "return"}]
    /\ ret \in [Procs -> {"forkret", "user", "run", "reacquire", "return",
                          "sleep"}]
    /\ savedIntena \in [Procs -> {0, 1}]
    /\ plock \in [Procs -> Cpus \cup {None}]
    /\ lk \in Cpus \cup {None}
    /\ cond \in {0, 1}
    /\ cpu \in [Cpus -> Cpu]
    /\ loop \in [Cpus -> {"open", "scan", "ran", "wfi"}]
    /\ left \in [Cpus -> SUBSET Procs]
    /\ found \in [Cpus -> {0, 1}]
    /\ hpc \in [Cpus -> {"none", "lock", "signal", "wake"}]
    /\ hintr \in [Cpus -> {0, 1}]
    /\ hleft \in [Cpus -> SUBSET Procs]

(* Processes fresh from fork: RUNNABLE, their context set to forkret. *)
Init ==
    /\ state = [p \in Procs |-> "RUNNABLE"]
    /\ chan = [p \in Procs |-> 0]
    /\ pc = [p \in Procs |-> "saved"]
    /\ ret = [p \in Procs |-> "forkret"]
    /\ savedIntena = [p \in Procs |-> 0]
    /\ plock = [p \in Procs |-> None]
    /\ lk = None
    /\ cond = 0
    /\ cpu = [c \in Cpus |-> [ctx |-> None, proc |-> None, noff |-> 0,
                              intena |-> 0, intr |-> 1]]
    /\ loop = [c \in Cpus |-> "open"]
    /\ left = [c \in Cpus |-> {}]
    /\ found = [c \in Cpus |-> 0]
    /\ hpc = [c \in Cpus |-> "none"]
    /\ hintr = [c \in Cpus |-> 0]
    /\ hleft = [c \in Cpus |-> {}]

-----------------------------------------------------------------------------
(* Spin-locks: acquire and release, and what they do to their CPU. *)
IntrOff(k) == [k EXCEPT !.intr = 0]

PushOff(k) == [IntrOff(k) EXCEPT !.noff = @ + 1,
                                 !.intena = IF k.noff = 0 THEN k.intr ELSE @]

PopOff(k) == [k EXCEPT !.noff = @ - 1,
                       !.intr = IF k.noff = 1 /\ k.intena = 1 THEN 1 ELSE @]

NotAwaited(p) == TRUE
Unlocked(p) == plock[p] = None

(* Process p's thread is executing on CPU c. *)
Executes(p, c) == cpu[c].ctx = p /\ hpc[c] = "none"

(* A system call's trap from user space, and prepare_return(), which ends *)
(* every stay in the kernel.                                               *)
Enter(p, c) ==
    /\ Executes(p, c)
    /\ pc[p] = "user"
    /\ pc' = [pc EXCEPT ![p] = "run"]
    /\ cpu' = [cpu EXCEPT ![c].intr = 1]
    /\ UNCHANGED <<state, chan, ret, savedIntena, plock, lk, cond, loopVars,
                   handlerVars>>

PrepareReturn(p, c) ==
    /\ Executes(p, c)
    /\ pc[p] \in {"run", "return"}
    /\ pc' = [pc EXCEPT ![p] = "user"]
    /\ cpu' = [cpu EXCEPT ![c] = IntrOff(@)]
    /\ UNCHANGED <<state, chan, ret, savedIntena, plock, lk, cond, loopVars,
                   handlerVars>>

(* acquire(lk), by a caller about to wait or at the end of sleep(). *)
AcquireLk(p, c) ==
    /\ Executes(p, c)
    /\ pc[p] \in {"run", "reacquire"}
    /\ lk = None
    /\ lk' = c
    /\ cpu' = [cpu EXCEPT ![c] = PushOff(@)]
    /\ pc' = [pc EXCEPT ![p] = "check"]
    /\ UNCHANGED <<state, chan, ret, savedIntena, plock, cond, loopVars,
                   handlerVars>>

(* The condition holds: consume it and release(lk). *)
Proceed(p, c) ==
    /\ Executes(p, c)
    /\ pc[p] = "check"
    /\ cond = 1
    /\ cond' = 0
    /\ lk' = None
    /\ cpu' = [cpu EXCEPT ![c] = PopOff(@)]
    /\ pc' = [pc EXCEPT ![p] = "run"]
    /\ UNCHANGED <<state, chan, ret, savedIntena, plock, loopVars,
                   handlerVars>>

(* The condition does not hold: sleep(chan, lk), in the order of its code. *)
SleepLock(p, c) ==
    /\ Executes(p, c)
    /\ pc[p] = "check"
    /\ cond = 0
    /\ Unlocked(p)
    /\ plock' = [plock EXCEPT ![p] = c]
    /\ cpu' = [cpu EXCEPT ![c] = PushOff(@)]
    /\ pc' = [pc EXCEPT ![p] = "sleep1"]
    /\ UNCHANGED <<state, chan, ret, savedIntena, lk, cond, loopVars,
                   handlerVars>>

SleepRelease(p, c) ==
    /\ Executes(p, c)
    /\ pc[p] = "sleep1"
    /\ lk' = None
    /\ cpu' = [cpu EXCEPT ![c] = PopOff(@)]
    /\ pc' = [pc EXCEPT ![p] = "sleep2"]
    /\ UNCHANGED <<state, chan, ret, savedIntena, plock, cond, loopVars,
                   handlerVars>>

SleepState(p, c) ==
    /\ Executes(p, c)
    /\ pc[p] = "sleep2"
    /\ chan' = [chan EXCEPT ![p] = 1]
    /\ state' = [state EXCEPT ![p] = "SLEEPING"]
    /\ ret' = [ret EXCEPT ![p] = "sleep"]
    /\ pc' = [pc EXCEPT ![p] = "switch"]
    /\ UNCHANGED <<savedIntena, plock, lk, cond, cpu, loopVars, handlerVars>>

(* A timer interrupt: kerneltrap or usertrap calls yield() with interrupts *)
(* off.  In the kernel it is taken only if they were on.                   *)
Yield(p, c) ==
    /\ Executes(p, c)
    /\ pc[p] = "user" \/ (pc[p] \in {"run", "reacquire", "return"} /\ cpu[c].intr = 1)
    /\ Unlocked(p)
    /\ plock' = [plock EXCEPT ![p] = c]
    /\ cpu' = [cpu EXCEPT ![c] = PushOff(IntrOff(@))]
    /\ state' = [state EXCEPT ![p] = "RUNNABLE"]
    /\ ret' = [ret EXCEPT ![p] = pc[p]]
    /\ pc' = [pc EXCEPT ![p] = "switch"]
    /\ UNCHANGED <<chan, savedIntena, lk, cond, loopVars, handlerVars>>

(* sched(): keep intena on the stack and swtch to the CPU's scheduler. *)
Switch(p, c) ==
    /\ Executes(p, c)
    /\ pc[p] = "switch"
    /\ savedIntena' = [savedIntena EXCEPT ![p] = cpu[c].intena]
    /\ cpu' = [cpu EXCEPT ![c].ctx = None]
    /\ loop' = [loop EXCEPT ![c] = "ran"]
    /\ pc' = [pc EXCEPT ![p] = "saved"]
    /\ UNCHANGED <<state, chan, ret, plock, lk, cond, left, found, handlerVars>>

(* sched() restores intena, on whatever CPU the thread is now; a thread    *)
(* that never ran starts at forkret and has nothing to restore.            *)
IntenaNotRestored(p, k) == k
IntenaRestored(p, k) ==
    IF ret[p] = "forkret" THEN k ELSE [k EXCEPT !.intena = savedIntena[p]]

(* After sched(), or in forkret: release p->lock.  A yield from kerneltrap *)
(* then restores the interrupted code's sstatus.                           *)
Resume(p, c) ==
    /\ Executes(p, c)
    /\ pc[p] = "resume"
    /\ chan' = IF ret[p] = "sleep" THEN [chan EXCEPT ![p] = 0] ELSE chan
    /\ plock' = [plock EXCEPT ![p] = None]
    /\ LET k == PopOff(IntenaRestored(p, cpu[c])) IN
       cpu' = [cpu EXCEPT ![c] =
                 IF ret[p] \in {"run", "reacquire", "return"}
                 THEN [k EXCEPT !.intr = 1] ELSE k]
    /\ pc' = [pc EXCEPT ![p] = CASE ret[p] = "sleep" -> "reacquire"
                                 [] ret[p] \in {"forkret", "user"} -> "return"
                                 [] OTHER -> ret[p]]
    /\ UNCHANGED <<state, ret, savedIntena, lk, cond, loopVars, handlerVars>>

-----------------------------------------------------------------------------
(* The scheduler loop of CPU c: a window with interrupts on, then a scan   *)
(* of the table with them off.                                             *)
Schedules(c) == cpu[c].ctx = None /\ hpc[c] = "none"

BeginScan(c) ==
    /\ Schedules(c)
    /\ loop[c] = "open"
    /\ loop' = [loop EXCEPT ![c] = "scan"]
    /\ left' = [left EXCEPT ![c] = Procs]
    /\ found' = [found EXCEPT ![c] = 0]
    /\ cpu' = [cpu EXCEPT ![c] = IntrOff(@)]
    /\ UNCHANGED <<state, chan, pc, ret, savedIntena, plock, lk, cond, handlerVars>>

(* Under its lock, a process that is not RUNNABLE is passed over ...  Its  *)
(* lock is taken and released with no other effect.                        *)
Skip(c, p) ==
    /\ Schedules(c)
    /\ loop[c] = "scan"
    /\ p \in left[c]
    /\ Unlocked(p)
    /\ state[p] # "RUNNABLE"
    /\ left' = [left EXCEPT ![c] = @ \ {p}]
    /\ UNCHANGED <<state, chan, pc, ret, savedIntena, plock, lk, cond, cpu, loop,
                   found, handlerVars>>

(* ... and one that is gets the CPU, with its lock still held. *)
Dispatch(c, p) ==
    /\ Schedules(c)
    /\ loop[c] = "scan"
    /\ p \in left[c]
    /\ Unlocked(p)
    /\ state[p] = "RUNNABLE"
    /\ plock' = [plock EXCEPT ![p] = c]
    /\ state' = [state EXCEPT ![p] = "RUNNING"]
    /\ cpu' = [cpu EXCEPT ![c] = [PushOff(@) EXCEPT !.proc = p, !.ctx = p]]
    /\ left' = [left EXCEPT ![c] = @ \ {p}]
    /\ pc' = [pc EXCEPT ![p] = "resume"]
    /\ UNCHANGED <<chan, ret, savedIntena, lk, cond, loop, found, handlerVars>>

(* Back from swtch: the scheduler releases the lock the process took, and  *)
(* goes on with intena as the process left it.                             *)
NoteFound(c) == [found EXCEPT ![c] = 1]

Switched(c) ==
    /\ Schedules(c)
    /\ loop[c] = "ran"
    /\ plock' = [plock EXCEPT ![cpu[c].proc] = None]
    /\ cpu' = [cpu EXCEPT ![c] = [PopOff(@) EXCEPT !.proc = None]]
    /\ loop' = [loop EXCEPT ![c] = "scan"]
    /\ found' = NoteFound(c)
    /\ UNCHANGED <<state, chan, pc, ret, savedIntena, lk, cond, left, handlerVars>>

(* End of the scan: wfi if it found nothing to run.  A pending interrupt   *)
(* ends wfi even while interrupts are off.                                 *)
Wfi(c) ==
    /\ Schedules(c)
    /\ loop[c] = "scan"
    /\ left[c] = {}
    /\ found[c] = 0
    /\ loop' = [loop EXCEPT ![c] = "wfi"]
    /\ UNCHANGED <<state, chan, pc, ret, savedIntena, plock, lk, cond, cpu, left,
                   found, handlerVars>>

IntrOn(c) ==
    /\ Schedules(c)
    /\ \/ loop[c] = "scan" /\ left[c] = {} /\ found[c] = 1
       \/ loop[c] = "wfi"
    /\ loop' = [loop EXCEPT ![c] = "open"]
    /\ cpu' = [cpu EXCEPT ![c].intr = 1]
    /\ UNCHANGED <<state, chan, pc, ret, savedIntena, plock, lk, cond, left,
                   found, handlerVars>>

-----------------------------------------------------------------------------
(* A device interrupt on CPU c, in user space or with interrupts enabled:  *)
(* the handler takes lk, sets the condition, wakes the channel.            *)
Interrupt(c) ==
    /\ hpc[c] = "none"
    /\ \/ cpu[c].intr = 1
       \/ cpu[c].ctx # None /\ pc[cpu[c].ctx] = "user"
    /\ hpc' = [hpc EXCEPT ![c] = "lock"]
    /\ hintr' = [hintr EXCEPT ![c] = cpu[c].intr]
    /\ cpu' = [cpu EXCEPT ![c] = IntrOff(@)]
    /\ UNCHANGED <<state, chan, pc, ret, savedIntena, plock, lk, cond,
                   loopVars, hleft>>

HandlerLock(c) ==
    /\ hpc[c] = "lock"
    /\ lk = None
    /\ lk' = c
    /\ cpu' = [cpu EXCEPT ![c] = PushOff(@)]
    /\ hpc' = [hpc EXCEPT ![c] = "signal"]
    /\ UNCHANGED <<state, chan, pc, ret, savedIntena, plock, cond, loopVars,
                   hintr, hleft>>

HandlerSignal(c) ==
    /\ hpc[c] = "signal"
    /\ cond' = 1
    /\ hleft' = [hleft EXCEPT ![c] = Procs \ {cpu[c].proc}]
    /\ hpc' = [hpc EXCEPT ![c] = "wake"]
    /\ UNCHANGED <<state, chan, pc, ret, savedIntena, plock, lk, cpu,
                   loopVars, hintr>>

(* wakeup() looks at one process, under its lock. *)
Wake(c, p) ==
    /\ hpc[c] = "wake"
    /\ p \in hleft[c]
    /\ Unlocked(p)
    /\ state' = IF state[p] = "SLEEPING" /\ chan[p] = 1
                THEN [state EXCEPT ![p] = "RUNNABLE"] ELSE state
    /\ hleft' = [hleft EXCEPT ![c] = @ \ {p}]
    /\ UNCHANGED <<chan, pc, ret, savedIntena, plock, lk, cond, cpu, loopVars,
                   hpc, hintr>>

HandlerReturn(c) ==
    /\ hpc[c] = "wake"
    /\ hleft[c] = {}
    /\ lk' = None
    /\ cpu' = [cpu EXCEPT ![c] = [PopOff(@) EXCEPT !.intr = hintr[c]]]
    /\ hpc' = [hpc EXCEPT ![c] = "none"]
    /\ UNCHANGED <<state, chan, pc, ret, savedIntena, plock, cond, loopVars,
                   hintr, hleft>>

(* What a process's thread does of its own accord; a step of the scheduler *)
(* loop; a step of an interrupt handler.                                   *)
ThreadStep(p, c) ==
    \/ Enter(p, c) \/ PrepareReturn(p, c) \/ AcquireLk(p, c) \/ Proceed(p, c)
    \/ SleepLock(p, c) \/ SleepRelease(p, c) \/ SleepState(p, c)
    \/ Switch(p, c) \/ Resume(p, c)

LoopStep(c) ==
    \/ BeginScan(c) \/ Switched(c) \/ Wfi(c) \/ IntrOn(c)
    \/ \E p \in Procs : Skip(c, p) \/ Dispatch(c, p)

HandlerStep(c) ==
    \/ HandlerLock(c) \/ HandlerSignal(c) \/ HandlerReturn(c)
    \/ \E p \in Procs : Wake(c, p)

Next ==
    \E c \in Cpus :
        \/ \E p \in Procs : ThreadStep(p, c) \/ Yield(p, c)
        \/ LoopStep(c)
        \/ Interrupt(c)
        \/ HandlerStep(c)

Spec == Init /\ [][Next]_vars

-----------------------------------------------------------------------------
(* No process runs on two CPUs: p->lock, held across swtch, keeps another  *)
(* CPU's scheduler off a process whose registers are not yet saved.  The   *)
(* thread a CPU runs is mycpu()->proc, which myproc() reads, and it is     *)
(* RUNNING unless it holds its own lock to switch away.                    *)
OneCpuPerProcess ==
    /\ TypeOK
    /\ \A c, d \in Cpus : cpu[c].ctx = cpu[d].ctx /\ c # d => cpu[c].ctx = None
    /\ \A c \in Cpus : cpu[c].ctx # None =>
        /\ cpu[c].proc = cpu[c].ctx
        /\ state[cpu[c].ctx] = "RUNNING" \/ plock[cpu[c].ctx] = c

(* What sched() checks: its caller holds p->lock and nothing else, has     *)
(* changed p->state and runs with interrupts off.                          *)
SchedChecks ==
    \A c \in Cpus : cpu[c].ctx # None /\ pc[cpu[c].ctx] = "switch" =>
        /\ plock[cpu[c].ctx] = c
        /\ cpu[c].noff = 1
        /\ cpu[c].intr = 0
        /\ state[cpu[c].ctx] # "RUNNING"

(* sched(), acquire() and release() do not panic: no CPU asks for a        *)
(* spin-lock it already holds (no handler interrupts the holder of a lock  *)
(* the handler needs, and wakeup() meets no process lock of its own CPU),  *)
(* no CPU releases a lock it does not hold, interrupts stay off under a    *)
(* lock, and nothing else is held or left undone when a thread switches.   *)
SpinlocksDoNotPanic ==
    /\ SchedChecks
    /\ \A c \in Cpus :
        /\ hpc[c] = "lock" => lk # c
        /\ \A p \in Procs : p \in hleft[c] => plock[p] # c
        /\ hpc[c] = "wake" => lk = c
        /\ cpu[c].ctx # None =>
            /\ pc[cpu[c].ctx] = "resume" => plock[cpu[c].ctx] = c
            /\ pc[cpu[c].ctx] \in {"check", "sleep1"} => lk = c
        /\ cpu[c].ctx = None /\ loop[c] = "ran" =>
            cpu[c].proc # None /\ plock[cpu[c].proc] = c
        /\ cpu[c].noff > 0 => cpu[c].intr = 0

(* Interrupts are on where they should be, on whatever CPU the thread      *)
(* wakes up: in system-call code that holds no lock.  A thread left with   *)
(* interrupts off could spin or compute and never be preempted; one that   *)
(* returned to user space with them on would trap through the wrong vector.*)
(* And scheduler() executes wfi only with interrupts off, although a scan  *)
(* may go on with them enabled: an interrupt between the last look at the  *)
(* table and wfi would leave the CPU waiting with a process to run.        *)
InterruptsFollowTheThread ==
    /\ \A c \in Cpus : cpu[c].ctx # None /\ hpc[c] = "none" =>
        /\ pc[cpu[c].ctx] \in {"run", "reacquire"} => cpu[c].intr = 1
        /\ pc[cpu[c].ctx] = "user" => cpu[c].intr = 0 /\ cpu[c].noff = 0
    /\ \A c \in Cpus : Schedules(c) /\ loop[c] = "wfi" => cpu[c].intr = 0

(* No lost wakeup: if a process is asleep while the condition it sleeps    *)
(* for holds, a handler still holds the condition's lock and has yet to    *)
(* look at that process.                                                   *)
NoLostWakeup ==
    \A p \in Procs : state[p] = "SLEEPING" /\ cond = 1 =>
        \E c \in Cpus : lk = c /\ hpc[c] = "wake" /\ p \in hleft[c]

(* Locks and interrupts agree on every CPU, whatever thread it runs and    *)
(* whatever interrupts it: no lock panics, and nobody is left with         *)
(* interrupts off that should be on.                                       *)
LocksAndInterrupts == SpinlocksDoNotPanic /\ InterruptsFollowTheThread
=============================================================================
