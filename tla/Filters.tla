------------------------------- MODULE Filters ------------------------------
(***************************************************************************)
(* Two programs that read a stream in pieces of any size, as a pipe hands  *)
(* it out: grep (user/grep.c), with its matcher and its line buffer, and   *)
(* wc (user/wc.c).                                                         *)
(***************************************************************************)
EXTENDS Naturals, FiniteSets, SequencesExt

CONSTANTS
    GREPBUF, WCBUF,     \* sizes of the buffers
    Patterns,           \* records: start, end (anchored?), atoms (char, star)
    Texts               \* what may be read: sequences of characters

ASSUME BuffersHoldSome == GREPBUF \in Nat /\ GREPBUF > 1 /\ WCBUF \in Nat \ {0}

VARIABLE
    flt                 \* the program that runs, and its variables

(* text: all of the input; in: what is not read yet; line: the buffer.     *)
Started(prog, pattern, text) ==
    [prog |-> prog, pattern |-> pattern, text |-> text, in |-> text, line |-> <<>>,
     out |-> <<>>, l |-> 0, w |-> 0, c |-> 0, inword |-> FALSE, ended |-> FALSE]

From(s, k) == SubSeq(s, k, Len(s))

-----------------------------------------------------------------------------
(* The matcher: re and t are what is left of pattern and text. *)
RECURSIVE matchhere(_, _), matchstar(_, _, _)
matchhere(re, t) ==
    IF re = <<>> THEN TRUE
    ELSE IF Len(re) > 1 /\ re[2] = "*" THEN matchstar(re[1], From(re, 3), t)
    ELSE IF re = <<"$">> THEN t = <<>>
    ELSE t # <<>> /\ re[1] \in {".", t[1]} /\ matchhere(Tail(re), Tail(t))

matchstar(c, re, t) ==
    \/ matchhere(re, t)
    \/ t # <<>> /\ c \in {".", t[1]} /\ matchstar(c, re, Tail(t))

match(re, t) ==
    IF re # <<>> /\ re[1] = "^" THEN matchhere(Tail(re), t)
    ELSE \E k \in 1 .. Len(t) + 1 : matchhere(re, From(t, k))

(* A pattern as it is typed. *)
Typed(p) ==
    (IF p.start THEN <<"^">> ELSE <<>>)
    \o FlattenSeq([k \in DOMAIN p.atoms |->
                     IF p.atoms[k].star THEN <<p.atoms[k].char, "*">>
                     ELSE <<p.atoms[k].char>>])
    \o (IF p.end THEN <<"$">> ELSE <<>>)

-----------------------------------------------------------------------------
(* grep: the complete lines of the buffer are tried and printed in order;  *)
(* what follows the last of them stays.                                    *)
KeptNothing(b) == <<>>
Kept(b) == b

RECURSIVE Scan(_, _, _)
Scan(re, b, out) ==
    IF ~ Contains(b, "nl") THEN [line |-> Kept(b), out |-> out]
    ELSE Scan(re, From(b, SelectInSeq(b, LAMBDA x : x = "nl") + 1),
              IF match(re, SubSeq(b, 1, SelectInSeq(b, LAMBDA x : x = "nl") - 1))
              THEN out \o SubSeq(b, 1, SelectInSeq(b, LAMBDA x : x = "nl"))
              ELSE out)

Scanned(f, s) == [f EXCEPT !.line = s.line, !.out = s.out]

GrepRoom == GREPBUF - Len(flt.line) - 1

GrepReads(n) ==
    /\ flt.prog = "grep" /\ ~ flt.ended
    /\ n <= Len(flt.in) /\ n <= GrepRoom
    /\ flt' = Scanned([flt EXCEPT !.in = From(@, n + 1)],
                      Scan(Typed(flt.pattern), flt.line \o SubSeq(flt.in, 1, n), flt.out))

(* read returns 0: at the end, or for lack of room. *)
GrepEnds ==
    /\ flt.prog = "grep" /\ ~ flt.ended
    /\ flt.in = <<>> \/ GrepRoom = 0
    /\ flt' = [flt EXCEPT !.ended = TRUE]

(* wc: one character, and the characters of one read. *)
Blank == {"sp", "nl"}
InWordAfresh(f) == FALSE
InWord(f) == f.inword

Counted(f, x) ==
    [f EXCEPT !.c = @ + 1, !.l = IF x = "nl" THEN @ + 1 ELSE @,
              !.w = IF x \notin Blank /\ ~ f.inword THEN @ + 1 ELSE @,
              !.inword = x \notin Blank]

WcReads(n) ==
    /\ flt.prog = "wc" /\ n <= Len(flt.in) /\ n <= WCBUF
    /\ flt' = FoldLeft(Counted, [flt EXCEPT !.in = From(@, n + 1), !.inword = InWord(flt)],
                       SubSeq(flt.in, 1, n))

WcEnds ==
    /\ flt.prog = "wc" /\ ~ flt.ended /\ flt.in = <<>>
    /\ flt' = [flt EXCEPT !.ended = TRUE]

FiltersInit ==
    \E text \in Texts :
        \/ \E p \in Patterns : flt = Started("grep", p, text)
        \/ flt = Started("wc", <<>>, text)

FiltersNext ==
    \/ \E n \in 1 .. GREPBUF : GrepReads(n)
    \/ \E n \in 1 .. WCBUF : WcReads(n)
    \/ GrepEnds \/ WcEnds

-----------------------------------------------------------------------------
(* What a pattern denotes: some part of the line falls into consecutive    *)
(* pieces, one for each atom, and touches the ends it is anchored to.      *)
Fits(atom, piece) ==
    /\ atom.star \/ Len(piece) = 1
    /\ \A k \in DOMAIN piece : atom.char \in {".", piece[k]}

Denotes(p, t) ==
    LET m == Len(p.atoms) IN
    \E cut \in [0 .. m -> 0 .. Len(t)] :
        /\ p.start => cut[0] = 0
        /\ p.end => cut[m] = Len(t)
        /\ \A k \in 1 .. m :
              cut[k - 1] <= cut[k] /\ Fits(p.atoms[k], SubSeq(t, cut[k - 1] + 1, cut[k]))

(* The position of the newline that ends the line with character k. *)
Newlines(t) == {k \in DOMAIN t : t[k] = "nl"}
LineStart(t, e) == CHOOSE s \in 1 .. e : /\ s = 1 \/ t[s - 1] = "nl"
                                         /\ \A k \in s .. e - 1 : t[k] # "nl"
FitsBuffer(t, e) == e - LineStart(t, e) + 1 < GREPBUF
Reached(t) == {e \in Newlines(t) : \A d \in Newlines(t) : d <= e => FitsBuffer(t, d)}

(* The characters of the lines that match, in the order of the text. *)
Expected(p, t) ==
    LET Shown == {e \in Reached(t) : Denotes(p, SubSeq(t, LineStart(t, e), e - 1))}
        Chars == {k \in DOMAIN t : \E e \in Shown : k \in LineStart(t, e) .. e}
    IN [j \in 1 .. Cardinality(Chars) |->
          t[CHOOSE k \in Chars : Cardinality({d \in Chars : d <= k}) = j]]

(* However the input is cut into reads, also inside a line or just before  *)
(* its newline, grep prints the lines that match, whole and in order: all  *)
(* that end in a newline and come before the first that the buffer cannot  *)
(* hold, with which grep stops.                                            *)
GrepPrintsMatches ==
    flt.prog = "grep" /\ flt.ended => flt.out = Expected(flt.pattern, flt.text)

(* However the input is cut, wc counts each word once, also one that       *)
(* spans two reads.                                                        *)
WcCounts ==
    flt.prog = "wc" /\ flt.ended =>
        /\ flt.c = Len(flt.text)
        /\ flt.l = Cardinality(Newlines(flt.text))
        /\ flt.w = Cardinality({k \in DOMAIN flt.text :
                                  /\ flt.text[k] \notin Blank
                                  /\ k = 1 \/ flt.text[k - 1] \in Blank})
=============================================================================
