----------------------------- MODULE ShellParser -----------------------------
(***************************************************************************)
(* The shell's recursive-descent parser (user/sh.c).  A line is a sequence *)
(* of characters: a word character, a blank or one of the symbols.  A      *)
(* pointer into it is a position; the position after the last character    *)
(* holds the terminating NUL.  A parser takes a line and a position, and   *)
(* returns the command and the position it stopped at.  A panic ends the   *)
(* process, so it is a result that every caller passes on.                 *)
(***************************************************************************)
EXTENDS Naturals, Sequences, FiniteSets, FiniteSetsExt, SequencesExt

CONSTANT MAXARGS        \* room for arguments in an execcmd, the final 0 included

ASSUME MaxArgsIsNat == MAXARGS \in Nat \ {0}

NUL == "nul"
whitespace == {" "}
symbols == {"<", "|", ">", "&", ";", "(", ")"}
Chars == {"w"} \cup whitespace \cup symbols

At(l, s) == IF s <= Len(l) THEN l[s] ELSE NUL
EndOf(l) == Len(l) + 1

-----------------------------------------------------------------------------
(* Constructors of commands *)
execcmd(argv) == [type |-> "EXEC", argv |-> argv]
redircmd(cmd, r) == [type |-> "REDIR", cmd |-> cmd, file |-> r.file,
                     mode |-> r.mode, fd |-> r.fd]
pipecmd(left, right) == [type |-> "PIPE", left |-> left, right |-> right]
listcmd(left, right) == [type |-> "LIST", left |-> left, right |-> right]
backcmd(cmd) == [type |-> "BACK", cmd |-> cmd]

Panic == [type |-> "PANIC"]
Panics(r) == r.cmd = Panic
Fail(s) == [cmd |-> Panic, pos |-> s]

-----------------------------------------------------------------------------
(* Tokens *)
SkipSpace(l, s) == Min({t \in s .. EndOf(l) : At(l, t) \notin whitespace})

WordEnd(l, s) == Min({t \in s .. EndOf(l) : At(l, t) \in whitespace \cup symbols \cup {NUL}})

(* The token at q, the first position that is not a blank. *)
TokenAt(l, q, c) ==
    IF c = ">" /\ At(l, q + 1) = ">" THEN [tok |-> "+", word |-> <<q, q + 2>>]
    ELSE IF c = NUL THEN [tok |-> NUL, word |-> <<q, q>>]
    ELSE IF c \in symbols THEN [tok |-> c, word |-> <<q, q + 1>>]
    ELSE [tok |-> "a", word |-> <<q, WordEnd(l, q)>>]

(* gettoken: what the token at s is, where it is, and where to go on. *)
After(l, t) == [tok |-> t.tok, word |-> t.word, pos |-> SkipSpace(l, t.word[2])]
Token(l, q) == After(l, TokenAt(l, q, At(l, q)))
gettoken(l, s) == Token(l, SkipSpace(l, s))

(* peek also moves past blanks; every caller goes on from there. *)
peek(l, s, toks) == At(l, SkipSpace(l, s)) \in toks

-----------------------------------------------------------------------------
(* parseredirs: the redirections at s, in the order written; each wraps    *)
(* the command once more, so the last one written is outermost.            *)
RedirTo(tok, word) ==
    CASE tok = "<" -> [file |-> word, mode |-> "read", fd |-> 0]
      [] tok = ">" -> [file |-> word, mode |-> "truncate", fd |-> 1]
      [] tok = "+" -> [file |-> word, mode |-> "write", fd |-> 1]

Wrap(cmd, redirs) == FoldLeft(redircmd, cmd, redirs)

RECURSIVE parseredirs(_, _, _)
RedirFile(redirs, l, tok, f) ==
    IF f.tok # "a" THEN [ok |-> FALSE, redirs |-> redirs, pos |-> f.pos]
    ELSE parseredirs(Append(redirs, RedirTo(tok, f.word)), l, f.pos)
RedirOf(redirs, l, t) == RedirFile(redirs, l, t.tok, gettoken(l, t.pos))
parseredirs(redirs, l, s) ==
    IF peek(l, s, {"<", ">"}) THEN RedirOf(redirs, l, gettoken(l, s))
    ELSE [ok |-> TRUE, redirs |-> redirs, pos |-> s]

Redirected(cmd, r) ==
    IF r.ok THEN [cmd |-> Wrap(cmd, r.redirs), pos |-> r.pos] ELSE Fail(r.pos)

(* parseexec's loop: arguments, with redirections r among them. *)
TooManyOffByOne(argc) == argc > MAXARGS
TooMany(argc) == argc >= MAXARGS

RECURSIVE parseargs(_, _, _)
NextArg(argv, r, l, t) ==
    IF t.tok = NUL THEN Redirected(execcmd(argv), r)
    ELSE IF t.tok # "a" \/ TooMany(Len(argv) + 1) THEN Fail(t.pos)
    ELSE parseargs(Append(argv, t.word), parseredirs(r.redirs, l, t.pos), l)
parseargs(argv, r, l) ==
    IF ~ r.ok \/ peek(l, r.pos, {"|", ")", "&", ";"}) THEN Redirected(execcmd(argv), r)
    ELSE NextArg(argv, r, l, gettoken(l, r.pos))

RECURSIVE parseline(_, _)
BlockEnd(l, b) ==
    IF Panics(b) \/ ~ peek(l, b.pos, {")"}) THEN Fail(b.pos)
    ELSE Redirected(b.cmd, parseredirs(<<>>, l, gettoken(l, b.pos).pos))
parseblock(l, s) == BlockEnd(l, parseline(l, gettoken(l, s).pos))

parseexec(l, s) ==
    IF peek(l, s, {"("}) THEN parseblock(l, s)
    ELSE parseargs(<<>>, parseredirs(<<>>, l, s), l)

(* Two commands joined by an operator *)
Joined(make(_, _), left, rest) ==
    IF Panics(rest) THEN rest ELSE [cmd |-> make(left.cmd, rest.cmd), pos |-> rest.pos]

RECURSIVE parsepipe(_, _)
PipeRest(l, e) ==
    IF Panics(e) \/ ~ peek(l, e.pos, {"|"}) THEN e
    ELSE Joined(pipecmd, e, parsepipe(l, gettoken(l, e.pos).pos))
parsepipe(l, s) == PipeRest(l, parseexec(l, s))

(* Trailing ampersands, then perhaps ";" and more *)
RECURSIVE parsebacks(_, _)
parsebacks(l, p) ==
    IF Panics(p) \/ ~ peek(l, p.pos, {"&"}) THEN p
    ELSE parsebacks(l, [cmd |-> backcmd(p.cmd), pos |-> gettoken(l, p.pos).pos])
ListRest(l, b) ==
    IF Panics(b) \/ ~ peek(l, b.pos, {";"}) THEN b
    ELSE Joined(listcmd, b, parseline(l, gettoken(l, b.pos).pos))
parseline(l, s) == ListRest(l, parsebacks(l, parsepipe(l, s)))

(* nulterminate: the ends of all words, where it stores a NUL. *)
RECURSIVE WordEnds(_)
WordEnds(cmd) ==
    CASE cmd.type = "EXEC" -> {cmd.argv[i][2] : i \in DOMAIN cmd.argv}
      [] cmd.type = "REDIR" -> WordEnds(cmd.cmd) \cup {cmd.file[2]}
      [] cmd.type \in {"PIPE", "LIST"} -> WordEnds(cmd.left) \cup WordEnds(cmd.right)
      [] cmd.type = "BACK" -> WordEnds(cmd.cmd)
      [] OTHER -> {}

nulterminate(l, cmd) == [i \in DOMAIN l |-> IF i \in WordEnds(cmd) THEN NUL ELSE l[i]]

(* parsecmd: the command, if nothing is left over. *)
Whole(l, r) == IF Panics(r) \/ SkipSpace(l, r.pos) # EndOf(l) THEN Panic ELSE r.cmd
parsecmd(l) == Whole(l, parseline(l, 1))
=============================================================================
