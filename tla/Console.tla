------------------------------- MODULE Console ------------------------------
(***************************************************************************)
(* Console input (kernel/console.c): the interrupt handler consoleintr     *)
(* edits a ring of characters with three free-running indices, and         *)
(* consoleread copies complete lines to user memory.                       *)
(***************************************************************************)
EXTENDS Naturals, Sequences, FiniteSets

CONSTANTS
    Readers,            \* processes that read the console
    INPUT_BUF_SIZE,
    UintMod,            \* r, w and e count modulo this (2^32 in C)
    MaxN                \* largest n of a read

NoProc == "none"
(* An ordinary character, newline, carriage return, ^D, backspace and ^U.  *)
(* "junk" is the content of a buffer cell never written.                   *)
Keys == {"x", "nl", "cr", "eof", "bs", "kill"}
Stored == {"x", "nl", "eof"}

ASSUME SizesAreNat ==
    /\ INPUT_BUF_SIZE \in Nat \ {0} /\ UintMod \in Nat /\ MaxN \in Nat
    /\ UintMod > INPUT_BUF_SIZE /\ UintMod % INPUT_BUF_SIZE = 0
ASSUME NoProcFresh == NoProc \notin Readers

VARIABLES
    buf, r, w, e,       \* struct cons
    lock,               \* the reader that holds cons.lock, or NoProc
    pc, n, target,      \* where each reader is; bytes left, bytes asked for
    killed              \* p->killed

vars == <<buf, r, w, e, lock, pc, n, target, killed>>

TypeOK ==
    /\ buf \in [0 .. INPUT_BUF_SIZE - 1 -> Stored \cup {"junk"}]
    /\ {r, w, e} \subseteq 0 .. UintMod - 1
    /\ lock \in Readers \cup {NoProc}
    /\ pc \in [Readers -> {"user", "call", "loop", "empty", "asleep", "done"}]
    /\ n \in [Readers -> 0 .. MaxN] /\ target \in [Readers -> 0 .. MaxN]
    /\ killed \in [Readers -> {0, 1}]

Init ==
    /\ buf = [i \in 0 .. INPUT_BUF_SIZE - 1 |-> "junk"]
    /\ r = 0 /\ w = 0 /\ e = 0
    /\ lock = NoProc
    /\ pc = [p \in Readers |-> "user"]
    /\ n = [p \in Readers |-> 0] /\ target = [p \in Readers |-> 0]
    /\ killed = [p \in Readers |-> 0]

-----------------------------------------------------------------------------
Add(x, y) == (x + y) % UintMod
Sub(x, y) == (x + UintMod - y) % UintMod
Cell(i) == i % INPUT_BUF_SIZE

WakeupNone(f) == f
Wakeup(f) == [p \in Readers |-> IF f[p] = "asleep" THEN "call" ELSE f[p]]

(* consoleintr, default: store the character; a complete line, or a full   *)
(* buffer, becomes readable.                                               *)
HasRoom(k) == Sub(e, r) < INPUT_BUF_SIZE
Completes(k) == k \in {"nl", "eof"} \/ Sub(Add(e, 1), r) = INPUT_BUF_SIZE

IntrStore(key) ==
    /\ lock = NoProc /\ key \notin {"bs", "kill"}
    /\ LET k == IF key = "cr" THEN "nl" ELSE key IN
       /\ HasRoom(k)
       /\ buf' = [buf EXCEPT ![Cell(e)] = k]
       /\ e' = Add(e, 1)
       /\ IF Completes(k)
          THEN w' = e' /\ pc' = Wakeup(pc)
          ELSE UNCHANGED <<w, pc>>
    /\ UNCHANGED <<r, lock, n, target, killed>>

(* Backspace and Delete *)
MayErase(key) == e # w

IntrErase(key) ==
    /\ lock = NoProc /\ key = "bs" /\ MayErase(key)
    /\ e' = Sub(e, 1)
    /\ UNCHANGED <<buf, r, w, lock, pc, n, target, killed>>

(* ^U: back to the last newline, at most to w. *)
KillLine(key) ==
    /\ lock = NoProc /\ key = "kill" /\ e # w
    /\ \E k \in 1 .. INPUT_BUF_SIZE :
        /\ \A j \in 1 .. k : Sub(e, j - 1) # w /\ buf[Cell(Sub(e, j))] # "nl"
        /\ Sub(e, k) = w \/ buf[Cell(Sub(e, k + 1))] = "nl"
        /\ e' = Sub(e, k)
    /\ UNCHANGED <<buf, r, w, lock, pc, n, target, killed>>

-----------------------------------------------------------------------------
(* consoleread *)
Read(p, k) ==
    /\ pc[p] = "user"
    /\ pc' = [pc EXCEPT ![p] = "call"]
    /\ n' = [n EXCEPT ![p] = k] /\ target' = [target EXCEPT ![p] = k]
    /\ UNCHANGED <<buf, r, w, e, lock, killed>>

(* acquire(&cons.lock), at the start and at the end of sleep() *)
Acquire(p) ==
    /\ pc[p] = "call" /\ lock = NoProc
    /\ lock' = p
    /\ pc' = [pc EXCEPT ![p] = "loop"]
    /\ UNCHANGED <<buf, r, w, e, n, target, killed>>

Leave(p) ==
    /\ lock' = NoProc
    /\ pc' = [pc EXCEPT ![p] = "user"]
    /\ n' = [n EXCEPT ![p] = 0] /\ target' = [target EXCEPT ![p] = 0]

(* Nothing to read: give up when killed, else sleep, which lets go of the  *)
(* lock.  kill may come between the two.                                   *)
Empty(p) ==
    /\ pc[p] = "loop" /\ n[p] > 0 /\ r = w
    /\ IF killed[p] = 1 THEN Leave(p)
       ELSE pc' = [pc EXCEPT ![p] = "empty"] /\ UNCHANGED <<lock, n, target>>
    /\ UNCHANGED <<buf, r, w, e, killed>>

Sleep(p) ==
    /\ pc[p] = "empty"
    /\ pc' = [pc EXCEPT ![p] = "asleep"]
    /\ lock' = NoProc
    /\ UNCHANGED <<buf, r, w, e, n, target, killed>>

(* A byte is copied out; a newline ends the read, and so does n = 0. *)
Take(p) ==
    /\ pc[p] = "loop" /\ n[p] > 0 /\ r # w
    /\ buf[Cell(r)] # "eof"
    /\ r' = Add(r, 1)
    /\ n' = [n EXCEPT ![p] = @ - 1]
    /\ pc' = [pc EXCEPT ![p] = IF buf[Cell(r)] = "nl" THEN "done" ELSE @]
    /\ UNCHANGED <<buf, w, e, lock, target, killed>>

(* either_copyout fails *)
TakeFails(p) ==
    /\ pc[p] = "loop" /\ n[p] > 0 /\ r # w
    /\ buf[Cell(r)] # "eof"
    /\ r' = Add(r, 1)
    /\ Leave(p)
    /\ UNCHANGED <<buf, w, e, killed>>

(* ^D ends the read; it is put back unless the read is still empty. *)
AfterEofAlways(p) == Add(r, 1)
AfterEof(p) == IF n[p] < target[p] THEN r ELSE Add(r, 1)

TakeEof(p) ==
    /\ pc[p] = "loop" /\ n[p] > 0 /\ r # w
    /\ buf[Cell(r)] = "eof"
    /\ r' = AfterEof(p)
    /\ Leave(p)
    /\ UNCHANGED <<buf, w, e, killed>>

Done(p) ==
    /\ pc[p] = "done" \/ (pc[p] = "loop" /\ n[p] = 0)
    /\ Leave(p)
    /\ UNCHANGED <<buf, r, w, e, killed>>

(* kkill sets p->killed and wakes the process; external to this file. *)
Kill(p) ==
    /\ killed[p] = 0 /\ pc[p] # "user"
    /\ killed' = [killed EXCEPT ![p] = 1]
    /\ pc' = [pc EXCEPT ![p] = IF @ = "asleep" THEN "call" ELSE @]
    /\ UNCHANGED <<buf, r, w, e, lock, n, target>>

Next ==
    \/ \E key \in Keys : IntrStore(key) \/ IntrErase(key) \/ KillLine(key)
    \/ \E p \in Readers :
        \/ \E k \in 1 .. MaxN : Read(p, k)
        \/ Acquire(p) \/ Empty(p) \/ Sleep(p) \/ Take(p) \/ TakeFails(p)
        \/ TakeEof(p) \/ Done(p) \/ Kill(p)

Spec == Init /\ [][Next]_vars

-----------------------------------------------------------------------------
(* A reader does not sleep while a complete line waits: the wakeup that    *)
(* comes with the line is not lost.                                        *)
LineWakesReader == r # w => \A p \in Readers : pc[p] # "asleep"

(* The indices stay in order and within one buffer of each other, also     *)
(* when they wrap around: what is readable is never what is being edited,  *)
(* and no unread character is overwritten.                                 *)
IndicesOrdered ==
    /\ TypeOK
    /\ Sub(e, r) <= INPUT_BUF_SIZE
    /\ Sub(w, r) + Sub(e, w) = Sub(e, r)

(* What is readable is whole, in order and announced: no unread character  *)
(* is overwritten, and no reader sleeps on it.                             *)
InputSafe == IndicesOrdered /\ LineWakesReader

(* The len characters of the ring from index from on. *)
Slice(from, len) == [i \in 1 .. len |-> buf[Cell(Add(from, i - 1))]]

(* The indices read as two queues. *)
Discipline ==
    INSTANCE LineDiscipline WITH
        Chars <- Stored, Capacity <- INPUT_BUF_SIZE,
        EndsLine <- LAMBDA c : c \in {"nl", "eof"},
        IsEof <- LAMBDA c : c = "eof",
        edit <- Slice(w, Sub(e, w)), ready <- Slice(r, Sub(w, r)),
        got <- [p \in Readers |-> target[p] - n[p]]

(* Console input implements a line discipline: a reader gets the lines in  *)
(* the order typed, whole or in parts, none twice, and only characters     *)
(* that can no longer be edited.                                           *)
ImplementsLineDiscipline == Discipline!Spec
=============================================================================
