----------------------------- MODULE MCConsole -----------------------------
(* Both directions of the console: the line discipline of its input, and   *)
(* the serial port below its output.  side says which of them moves.       *)
EXTENDS Console, Uart

VARIABLE side

MCInit == Init /\ UartInit /\ side \in {"input", "output"}

MCNext ==
    \/ side = "input" /\ Next /\ UNCHANGED <<uartVars, side>>
    \/ side = "output" /\ UartNext /\ UNCHANGED <<vars, side>>

MCSpec == MCInit /\ [][MCNext]_<<vars, uartVars, side>> /\ UartFairness
=============================================================================
