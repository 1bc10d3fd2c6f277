---------------------------- MODULE ShellGrammar ----------------------------
(***************************************************************************)
(* What a command line means, stated without a parser: the line is cut at  *)
(* its operators outside parentheses, the loosest first (";", "&", "|").   *)
(***************************************************************************)
EXTENDS Naturals, Sequences, FiniteSets, FiniteSetsExt, SequencesExt

CONSTANTS
    Args,           \* how many arguments a command may have
    Redirect(_, _, _),  \* the command, redirected: command, operator, word
    Exec(_), Pipe(_, _), List(_, _), Back(_),   \* the other commands
    NoMeaning       \* of a line that is no command

Blank == " "
Single == {"<", "|", "&", ";", "(", ")"}

-----------------------------------------------------------------------------
(* The tokens of a line: single symbols, ">" and ">>" (a run of ">" pairs  *)
(* up from its left), and words, which are maximal.                        *)
RunStart(l, i) == Min({j \in 1 .. i : \A k \in j .. i : l[k] = l[i]})
StartsToken(l, i) ==
    \/ l[i] \in Single
    \/ l[i] = ">" /\ (i - RunStart(l, i)) % 2 = 0
    \/ l[i] = "w" /\ RunStart(l, i) = i
RunEnd(l, i) == Max({j \in i .. Len(l) : \A k \in i .. j : l[k] = l[i]})
TokenAt(l, i) ==
    IF l[i] = "w" THEN [tok |-> "word", word |-> <<i, RunEnd(l, i) + 1>>]
    ELSE [tok |-> IF l[i] = ">" /\ i < RunEnd(l, i) THEN ">>" ELSE l[i],
          word |-> <<>>]
Tokens(l) ==
    LET starts == SetToSortSeq({i \in DOMAIN l : StartsToken(l, i)}, <)
    IN [k \in DOMAIN starts |-> TokenAt(l, starts[k])]

-----------------------------------------------------------------------------
Positions(t, tok) == {i \in DOMAIN t : t[i].tok = tok}
Depth(t, i) == Cardinality({j \in Positions(t, "(") : j < i})
               - Cardinality({j \in Positions(t, ")") : j < i})
Outside(t, tok) == {i \in Positions(t, tok) : Depth(t, i) = 0}
Before(t, i) == SubSeq(t, 1, i - 1)
After(t, i) == SubSeq(t, i + 1, Len(t))
Operators == {"<", ">", ">>"}

(* Words and redirections in any order: the words that are arguments, and  *)
(* the redirections, of which the first one written is innermost.          *)
Files(t) == {i \in DOMAIN t : i > 1 /\ t[i - 1].tok \in Operators}
WellFormed(t) ==
    /\ \A i \in DOMAIN t : t[i].tok \in Operators \cup {"word"}
    /\ \A i \in DOMAIN t : t[i].tok \in Operators =>
           i < Len(t) /\ t[i + 1].tok = "word"
Redirected(cmd, t) ==
    LET files == SetToSortSeq(Files(t), <)
    IN FoldLeft(LAMBDA c, i : Redirect(c, t[i - 1].tok, t[i].word), cmd, files)
Arguments(t) ==
    LET args == SetToSortSeq(Positions(t, "word") \ Files(t), <)
    IN [k \in DOMAIN args |-> t[args[k]].word]

(* The parenthesis that closes the one at 1. *)
Closing(t) == {i \in Positions(t, ")") : Depth(t, i) = 1 /\ \A j \in 2 .. i : Depth(t, j) > 0}

RECURSIVE Meaning(_)
Simple(t) ==
    IF t # <<>> /\ t[1].tok = "("
    THEN IF Closing(t) = {} THEN NoMeaning
         ELSE LET m == Min(Closing(t))
                  inner == Meaning(SubSeq(t, 2, m - 1))
                  rest == After(t, m)
              IN IF inner = NoMeaning \/ ~ WellFormed(rest) \/ Arguments(rest) # <<>>
                 THEN NoMeaning ELSE Redirected(inner, rest)
    ELSE IF WellFormed(t) /\ Len(Arguments(t)) <= Args
    THEN Redirected(Exec(Arguments(t)), t)
    ELSE NoMeaning

RECURSIVE Pipeline(_)
Pipeline(t) ==
    IF Outside(t, "|") = {} THEN Simple(t)
    ELSE LET i == Min(Outside(t, "|"))
             left == Simple(Before(t, i))
             right == Pipeline(After(t, i))
         IN IF NoMeaning \in {left, right} THEN NoMeaning ELSE Pipe(left, right)

RECURSIVE Job(_)
Job(t) ==
    IF t # <<>> /\ Last(t).tok = "&"
    THEN LET c == Job(Front(t)) IN IF c = NoMeaning THEN NoMeaning ELSE Back(c)
    ELSE Pipeline(t)

Meaning(t) ==
    IF Outside(t, ";") = {} THEN Job(t)
    ELSE LET i == Min(Outside(t, ";"))
             left == Job(Before(t, i))
             right == Meaning(After(t, i))
         IN IF NoMeaning \in {left, right} THEN NoMeaning ELSE List(left, right)
=============================================================================
