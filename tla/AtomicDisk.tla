----------------------------- MODULE AtomicDisk -----------------------------
(***************************************************************************)
(* What the logging layer promises its callers: file-system operations     *)
(* modify blocks between Begin and End, a commit makes everything written  *)
(* so far durable at once and only while no operation is in progress, and  *)
(* a crash takes the blocks back to the last commit.                       *)
(***************************************************************************)
CONSTANTS
    Procs,      \* processes that run file-system operations
    Blocks,     \* home (non-log) disk blocks
    Data        \* possible contents of a block

VARIABLES
    current,    \* what a read of each block returns
    durable,    \* what each block holds after a crash and recovery
    active      \* processes between Begin and End

vars == <<current, durable, active>>

Init ==
    /\ current \in [Blocks -> Data]
    /\ durable = current
    /\ active = {}

\* A new batch of operations starts only once the previous one is durable.
Begin(p) ==
    /\ p \notin active
    /\ active = {} => durable = current
    /\ active' = active \cup {p}
    /\ UNCHANGED <<current, durable>>

Write(p, b, v) ==
    /\ p \in active
    /\ current' = [current EXCEPT ![b] = v]
    /\ UNCHANGED <<durable, active>>

End(p) ==
    /\ p \in active
    /\ active' = active \ {p}
    /\ UNCHANGED <<current, durable>>

Commit ==
    /\ active = {}
    /\ durable' = current
    /\ UNCHANGED <<current, active>>

Crash ==
    /\ current' = durable
    /\ active' = {}
    /\ UNCHANGED durable

Next ==
    \/ \E p \in Procs : Begin(p) \/ End(p)
    \/ \E p \in Procs, b \in Blocks, v \in Data : Write(p, b, v)
    \/ Commit
    \/ Crash

Spec == Init /\ [][Next]_vars
=============================================================================
