---------------------------- MODULE ByteChannel ----------------------------
(***************************************************************************)
(* What a pipe promises: bytes come out in the order they went in, each    *)
(* taken by one reader, never more than Capacity of them in between.       *)
(***************************************************************************)
EXTENDS Naturals, Sequences

CONSTANTS Bytes, Capacity, Readers

VARIABLES
    queue,          \* the bytes in the pipe
    out             \* the last byte each reader took

Init == queue = <<>> /\ out \in [Readers -> Bytes]

Send(b) ==
    /\ Len(queue) < Capacity
    /\ queue' = Append(queue, b)
    /\ UNCHANGED out

Receive(r) ==
    /\ queue # <<>>
    /\ out' = [out EXCEPT ![r] = Head(queue)]
    /\ queue' = Tail(queue)

Next == (\E b \in Bytes : Send(b)) \/ (\E r \in Readers : Receive(r))

Spec == Init /\ [][Next]_<<queue, out>>
=============================================================================
