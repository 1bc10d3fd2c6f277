----------------------------- MODULE BlockStore -----------------------------
(***************************************************************************)
(* What the buffer cache promises its clients: the disk as an array of     *)
(* blocks, each held by at most one process at a time, that only its       *)
(* holder changes.                                                         *)
(***************************************************************************)
CONSTANTS Procs, Blocks, Data, None

VARIABLES
    content,        \* the current content of each block
    holder          \* the process that holds the block, or None

Init ==
    /\ content \in [Blocks -> Data]
    /\ holder = [b \in Blocks |-> None]

(* bread returns *)
Hold(p, b) ==
    /\ holder[b] = None
    /\ holder' = [holder EXCEPT ![b] = p]
    /\ UNCHANGED content

Change(p, b, d) ==
    /\ holder[b] = p
    /\ content' = [content EXCEPT ![b] = d]
    /\ UNCHANGED holder

(* brelse *)
Release(p, b) ==
    /\ holder[b] = p
    /\ holder' = [holder EXCEPT ![b] = None]
    /\ UNCHANGED content

Next ==
    \E p \in Procs, b \in Blocks :
        \/ Hold(p, b)
        \/ \E d \in Data : Change(p, b, d)
        \/ Release(p, b)

Spec == Init /\ [][Next]_<<content, holder>>
=============================================================================
