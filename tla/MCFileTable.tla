---------------------------- MODULE MCFileTable ----------------------------
(* Descriptors, on both sides of the system call: the kernel's tables, and *)
(* the shell that arranges them.  The two share no state, so the initial   *)
(* state says which of them moves.                                         *)
EXTENDS FileTable, Shell

CONSTANTS ShortLine, LongLine

(* All short lines; longer ones of words with blocks, or redirections.     *)
LinesOf(chars, lengths) == UNION {[1 .. n -> chars] : n \in lengths}
SmallLines == LinesOf(Chars, 0 .. ShortLine)
              \cup LinesOf({"w", "(", ")", ";", "|"}, ShortLine .. LongLine)
              \cup LinesOf({"w", " ", ">", "<", "&"}, ShortLine .. LongLine)

a == <<"w">>
a_b == <<"w", "|", "w">>
bg == <<"w", "&">>
Typed == {<<a_b \o <<"|", "w">> >>, <<a \o <<";", "w">> >>,
          << <<"(", "w", ";", "w", ")", "|", "w">> >>,
          << <<"w", "<", "w", "|", "w", ">", "w">> >>,
          << <<"w", ">", "w", ">", "w">>, bg \o <<";", "w">> >>,
          << <<"w", "&", "w">>, a>>, <<bg, a_b>>, << <<" ">>, bg>>}

MCInit ==
    /\ Init
    /\ \/ ShellInit
       \/ ShellOff(<<>>)
       \/ \E l \in SmallLines : ShellOff(<<l>>)

MCNext ==
    \/ ~ On /\ script = <<>> /\ Next /\ UNCHANGED shellVars
    \/ ~ On /\ script # <<>> /\ UNCHANGED <<vars, shellVars>>
    \/ ShellNext /\ UNCHANGED vars

MCSpec == MCInit /\ [][MCNext]_<<vars, shellVars>> /\ ShellFairness
=============================================================================
