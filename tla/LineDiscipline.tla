--------------------------- MODULE LineDiscipline ---------------------------
(***************************************************************************)
(* What the console promises about its input.  Characters are edited until *)
(* the line is complete; then readers take them in the order typed.  An    *)
(* end-of-file ends the read it meets: alone it gives a result of 0 bytes, *)
(* after other bytes it stays for the next read.                           *)
(***************************************************************************)
EXTENDS Naturals, Sequences

CONSTANTS
    Readers, Chars, Capacity,
    EndsLine(_),    \* does this character complete a line?
    IsEof(_)        \* is it end-of-file?

VARIABLES
    edit,           \* typed, still being edited
    ready,          \* complete, not yet read
    got             \* bytes the current read of each reader has taken

Init == edit = <<>> /\ ready = <<>> /\ got = [r \in Readers |-> 0]

(* A character is refused when the buffer is full, and ends the line when  *)
(* it is the one that fills it.                                            *)
Type(c) ==
    /\ Len(ready) + Len(edit) < Capacity
    /\ IF EndsLine(c) \/ Len(ready) + Len(edit) + 1 = Capacity
       THEN ready' = ready \o Append(edit, c) /\ edit' = <<>>
       ELSE edit' = Append(edit, c) /\ UNCHANGED ready
    /\ UNCHANGED got

Erase ==
    /\ edit # <<>>
    /\ edit' = SubSeq(edit, 1, Len(edit) - 1)
    /\ UNCHANGED <<ready, got>>

EraseLine == edit # <<>> /\ edit' = <<>> /\ UNCHANGED <<ready, got>>

Take(r) ==
    /\ ready # <<>> /\ ~ IsEof(Head(ready))
    /\ ready' = Tail(ready)
    /\ got' = [got EXCEPT ![r] = @ + 1]
    /\ UNCHANGED edit

TakeEof(r) ==
    /\ ready # <<>> /\ IsEof(Head(ready)) /\ got[r] = 0
    /\ ready' = Tail(ready)
    /\ UNCHANGED <<edit, got>>

Return(r) == got' = [got EXCEPT ![r] = 0] /\ UNCHANGED <<edit, ready>>

(* The copy to user memory fails: the byte is lost, the read returns. *)
Lose(r) ==
    /\ ready # <<>> /\ ~ IsEof(Head(ready))
    /\ ready' = Tail(ready)
    /\ got' = [got EXCEPT ![r] = 0]
    /\ UNCHANGED edit

Next ==
    \/ \E c \in Chars : Type(c)
    \/ Erase \/ EraseLine
    \/ \E r \in Readers : Take(r) \/ TakeEof(r) \/ Return(r) \/ Lose(r)

Spec == Init /\ [][Next]_<<edit, ready, got>>
=============================================================================
