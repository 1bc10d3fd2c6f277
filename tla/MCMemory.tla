------------------------------ MODULE MCMemory ------------------------------
(* Memory on both sides of sbrk: the pages of processes in the kernel, and *)
(* the heap of one program.  The two share no state; side says which moves. *)
EXTENDS Memory, Umalloc

VARIABLE side

allVars == <<vars, heap, side>>

MCInit == Init /\ heap = NoHeap /\ side \in {"kernel", "program"}

MCNext ==
    \/ side = "kernel" /\ Next /\ UNCHANGED <<heap, side>>
    \/ side = "program" /\ HeapNext /\ UNCHANGED <<vars, side>>

MCSpec == MCInit /\ [][MCNext]_allVars
=============================================================================
