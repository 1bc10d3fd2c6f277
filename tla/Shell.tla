-------------------------------- MODULE Shell --------------------------------
(***************************************************************************)
(* The shell at work (user/sh.c) under init (user/init.c): command lines   *)
(* become trees of processes joined by pipes, in which cat (user/cat.c)    *)
(* and echo (user/echo.c) stand for the programs.  Processes interleave at *)
(* system calls; fork, exit, wait, pipe and the descriptor table are used  *)
(* through what they promise (modules ProcTable, FileTable, Pipe).         *)
(***************************************************************************)
EXTENDS ShellParser

CONSTANTS
    NPROC,          \* process slots; slot 0 is init
    NDESC,         \* descriptors of a process
    PIPESIZE,
    Sessions,       \* what may be typed: sequences of command lines
    MaxLines,       \* longest of them
    MaxInput        \* units of input typed for programs

ASSUME ShellSizes ==
    /\ {NPROC, NDESC, PIPESIZE, MaxLines, MaxInput} \subseteq Nat
    /\ NPROC > 1 /\ NDESC > 3
ASSUME SessionsAreText ==
    \A t \in Sessions : /\ Len(t) <= MaxLines
                        /\ \A k \in DOMAIN t : Range(t[k]) \subseteq Chars

Slots == 0 .. NPROC - 1
initproc == 0
NoSlot == NPROC
Descriptors == 0 .. NDESC - 1
Jobs == 1 .. MaxLines
None == <<"none">>
Console == <<"console">>
File == <<"file">>
NoCmd == [type |-> "NONE"]

VARIABLES
    st, parent,     \* where each process is; its parent
    fds,            \* its descriptors
    cmd,            \* the command it runs
    job, at,        \* the command line it works for, and the path of cmd in its tree
    holds,          \* cat: bytes read and not yet written
    chan,           \* bytes in each open pipe; a pipe is named by job and path
    shell,          \* init: pid of the shell
    script, trees,  \* the session: its lines, and the command of each
    typed,          \* how many of them the shell has read
    input,          \* what programs may still read from the console
    failed          \* the command lines of which a fork has failed

shellVars == <<st, parent, fds, cmd, job, at, holds, chan, shell, script, trees, typed,
               input, failed>>
session == <<script, trees>>

NoFds == [f \in Descriptors |-> None]
Stdio == [f \in Descriptors |-> IF f <= 2 THEN Console ELSE None]

States == {"unused", "zombie", "initfork", "initwait", "prompt", "shwait", "parse",
           "run", "listwait", "list", "pipe1", "pipe2", "pipe3", "pipewait", "lastwait",
           "left", "right", "exit", "cat", "echo"}

ShellTypeOK ==
    /\ st \in [Slots -> States]
    /\ parent \in [Slots -> Slots \cup {NoSlot}]
    /\ \A p \in Slots : DOMAIN fds[p] = Descriptors
    /\ job \in [Slots -> Jobs \cup {0}]
    /\ holds \in [Slots -> {0, 1}]
    /\ Range(chan) \subseteq 0 .. PIPESIZE
    /\ shell \in Slots \cup {NoSlot}
    /\ typed \in 0 .. Len(trees) /\ input \in 0 .. MaxInput
    /\ failed \subseteq Jobs

(* The machine is off, or init has opened the console.  on: is it on?      *)
ShellStart(on, lines) ==
    /\ script = lines /\ trees = [k \in DOMAIN lines |-> parsecmd(lines[k])]
    /\ st = [p \in Slots |-> IF p = initproc /\ on THEN "initfork" ELSE "unused"]
    /\ parent = [p \in Slots |-> NoSlot]
    /\ fds = [p \in Slots |-> IF p = initproc THEN Stdio ELSE NoFds]
    /\ cmd = [p \in Slots |-> NoCmd]
    /\ job = [p \in Slots |-> 0] /\ at = [p \in Slots |-> <<>>]
    /\ holds = [p \in Slots |-> 0]
    /\ chan = [k \in {} |-> 0]
    /\ shell = NoSlot /\ typed = 0 /\ input = MaxInput /\ failed = {}

ShellInit == \E lines \in Sessions : ShellStart(TRUE, lines)
ShellOff(lines) == ShellStart(FALSE, lines)

-----------------------------------------------------------------------------
(* System calls.  d is a descriptor table; a new descriptor is the lowest  *)
(* that is free.  reopen: close(fd), then open or dup of o.                *)
Lowest(d) == Min({f \in Descriptors : d[f] = None})
open(d, o) == [d EXCEPT ![Lowest(d)] = o]
reopen(d, fd, o) ==
    LET low == Min({f \in Descriptors : f = fd \/ d[f] = None})
    IN [d EXCEPT ![fd] = None, ![low] = o]

Holders(k, end) == {p \in Slots : <<end, k>> \in Range(fds[p])}

(* A pipe goes when its last end is closed; t is the new descriptor tables. *)
StillOpen(t) == {k \in DOMAIN chan : \E p \in Slots, end \in {"read", "write"} :
                                        <<end, k>> \in Range(t[p])}
Closing(t) == fds' = t /\ chan' = Restrict(chan, StillOpen(t))

(* fork: the child c starts at child, the parent goes on at next. *)
ForkTo(p, next, c, child, command, where, j) ==
    /\ st[c] = "unused" /\ \A s \in Slots : s < c => st[s] # "unused"
    /\ st' = [st EXCEPT ![p] = next, ![c] = child]
    /\ parent' = [parent EXCEPT ![c] = p]
    /\ fds' = [fds EXCEPT ![c] = fds[p]]
    /\ cmd' = [cmd EXCEPT ![c] = command]
    /\ job' = [job EXCEPT ![c] = j]
    /\ at' = [at EXCEPT ![c] = where]
    /\ UNCHANGED <<holds, chan, input>>

(* exit: descriptors are closed, children go to init. *)
ExitNow(p) ==
    /\ st' = [st EXCEPT ![p] = "zombie"]
    /\ Closing([fds EXCEPT ![p] = NoFds])
    /\ parent' = [s \in Slots |-> IF parent[s] = p THEN initproc ELSE parent[s]]
    /\ cmd' = [cmd EXCEPT ![p] = NoCmd]
    /\ holds' = [holds EXCEPT ![p] = 0]
    /\ UNCHANGED <<job, at, shell, session, typed, input>>

(* wait(0): reap a zombie child.  It would return at once without          *)
(* children, but the shell never waits more often than it has forked.      *)
Reap(p, z, next) ==
    /\ st' = [st EXCEPT ![p] = next, ![z] = "unused"]
    /\ parent' = [parent EXCEPT ![z] = NoSlot]
    /\ job' = [job EXCEPT ![z] = 0] /\ at' = [at EXCEPT ![z] = <<>>]
    /\ UNCHANGED <<fds, cmd, holds, chan, shell, session, typed, input, failed>>

Zombies(p) == {s \in Slots : parent[s] = p /\ st[s] = "zombie"}

Wait(p, next) == \E z \in Zombies(p) : Reap(p, z, next)

(* fork1 panics when fork fails: the process exits. *)
ForkFails(p) ==
    /\ ExitNow(p)
    /\ failed' = failed \cup ({job[p]} \ {0})

-----------------------------------------------------------------------------
(* init: start a shell, then wait until that one exits. *)
InitForks ==
    /\ st[initproc] = "initfork"
    /\ \E c \in Slots : /\ ForkTo(initproc, "initwait", c, "prompt", NoCmd, <<>>, 0)
                        /\ shell' = c
    /\ UNCHANGED <<session, typed, failed>>

InitWaits ==
    /\ st[initproc] = "initwait"
    /\ \E z \in Zombies(initproc) :
        Reap(initproc, z, IF z = shell THEN "initfork" ELSE "initwait")

(* main: a line is read.  A blank one is skipped, and one that begins with *)
(* a word may be cd, which the shell runs itself; it goes on in the same   *)
(* loop ...                                                                *)
FirstChar(l) == At(l, SkipSpace(l, 1))

NoChild(p) ==
    /\ st[p] = "prompt" /\ typed < Len(script)
    /\ FirstChar(script[typed + 1]) \in {NUL, "w"}
    /\ typed' = typed + 1
    /\ UNCHANGED <<st, parent, fds, cmd, job, at, holds, chan, shell, session, input, failed>>

(* ... a child parses and runs any other ... *)
GetCmd(p) ==
    /\ st[p] = "prompt" /\ typed < Len(script)
    /\ FirstChar(script[typed + 1]) # NUL
    /\ typed' = typed + 1
    /\ \E c \in Slots : ForkTo(p, "shwait", c, "parse", NoCmd, <<>>, typed')
    /\ UNCHANGED <<shell, session, failed>>

(* ... or fork fails, or the input is at its end: the shell exits. *)
GetCmdEnds(p) ==
    /\ st[p] = "prompt"
    /\ ExitNow(p)
    /\ UNCHANGED failed

ShellWaits(p) == st[p] = "shwait" /\ Wait(p, "prompt")

(* The child: a panic of the parser is an exit. *)
Parse(p) ==
    /\ st[p] = "parse"
    /\ IF trees[job[p]] = Panic
       THEN ExitNow(p)
       ELSE /\ st' = [st EXCEPT ![p] = "run"]
            /\ cmd' = [cmd EXCEPT ![p] = trees[job[p]]]
            /\ UNCHANGED <<parent, fds, job, at, holds, chan, shell, session, typed, input>>
    /\ UNCHANGED failed

-----------------------------------------------------------------------------
(* runcmd *)
Runs(p, type) == st[p] = "run" /\ cmd[p].type = type

(* EXEC: no program, or exec fails, or the program takes over. *)
RunExec(p) ==
    /\ Runs(p, "EXEC")
    /\ \/ ExitNow(p)
       \/ /\ cmd[p].argv # <<>>
          /\ \E prog \in {"cat", "echo"} : st' = [st EXCEPT ![p] = prog]
          /\ UNCHANGED <<parent, fds, cmd, job, at, holds, chan, shell, session, typed, input>>
    /\ UNCHANGED failed

(* REDIR: close, then open, which returns the lowest descriptor. *)
RunRedir(p) ==
    /\ Runs(p, "REDIR")
    /\ \/ ExitNow(p)
       \/ /\ Closing([fds EXCEPT ![p] = reopen(@, cmd[p].fd, File)])
          /\ cmd' = [cmd EXCEPT ![p] = @.cmd]
          /\ at' = [at EXCEPT ![p] = Append(@, "sub")]
          /\ UNCHANGED <<st, parent, job, holds, shell, session, typed, input>>
    /\ UNCHANGED failed

(* LIST: run the left command, wait, go on with the right one. *)
Forks(p, next, child, command, side) ==
    \/ /\ \E c \in Slots : ForkTo(p, next, c, child, command, Append(at[p], side), job[p])
       /\ UNCHANGED <<shell, session, typed, failed>>
    \/ ForkFails(p)

RunList(p) == Runs(p, "LIST") /\ Forks(p, "listwait", "run", cmd[p].left, "left")

ListWaits(p) ==
    /\ st[p] = "listwait"
    /\ Wait(p, "list")

ListGoesOn(p) ==
    /\ st[p] = "list"
    /\ st' = [st EXCEPT ![p] = "run"]
    /\ cmd' = [cmd EXCEPT ![p] = @.right]
    /\ at' = [at EXCEPT ![p] = Append(@, "right")]
    /\ UNCHANGED <<parent, fds, job, holds, chan, shell, session, typed, input, failed>>

(* BACK: run the command and do not wait. *)
RunBack(p) == Runs(p, "BACK") /\ Forks(p, "exit", "run", cmd[p].cmd, "sub")

Exits(p) == st[p] = "exit" /\ ExitNow(p) /\ UNCHANGED failed

(* PIPE: p[0] and p[1] are the lowest free descriptors. *)
RunPipe(p) ==
    /\ Runs(p, "PIPE")
    /\ LET k == <<job[p], at[p]>> IN
       \/ ExitNow(p)
       \/ /\ fds' = [fds EXCEPT ![p] = open(open(@, <<"read", k>>), <<"write", k>>)]
          /\ chan' = chan @@ (k :> 0)
          /\ st' = [st EXCEPT ![p] = "pipe1"]
          /\ UNCHANGED <<parent, cmd, job, at, holds, shell, session, typed, input>>
    /\ UNCHANGED failed

ForkLeft(p) == st[p] = "pipe1" /\ Forks(p, "pipe2", "left", cmd[p].left, "left")
ForkRight(p) == st[p] = "pipe2" /\ Forks(p, "pipe3", "right", cmd[p].right, "right")

(* The children put their end in place of standard output or input. *)
CloseEnds(d, k) ==
    [f \in Descriptors |-> IF d[f] \in {"read", "write"} \X {k} THEN None ELSE d[f]]
ToPipeOnly(d, k, fd, end) == reopen(d, fd, <<end, k>>)
ToPipe(d, k, fd, end) ==
    [f \in Descriptors |-> IF d[f] \in {"read", "write"} \X {k} THEN None
                   ELSE reopen(d, fd, <<end, k>>)[f]]

ChildStarts(p) ==
    /\ st[p] \in {"left", "right"}
    /\ LET k == <<job[p], Front(at[p])>> IN
       Closing([fds EXCEPT ![p] = IF st[p] = "left" THEN ToPipe(@, k, 1, "write")
                                  ELSE ToPipe(@, k, 0, "read")])
    /\ st' = [st EXCEPT ![p] = "run"]
    /\ UNCHANGED <<parent, cmd, job, at, holds, shell, session, typed, input, failed>>

(* The parent keeps neither end, and waits for both. *)
PipeCloses(p) ==
    /\ st[p] = "pipe3"
    /\ Closing([fds EXCEPT ![p] = CloseEnds(@, <<job[p], at[p]>>)])
    /\ st' = [st EXCEPT ![p] = "pipewait"]
    /\ UNCHANGED <<parent, cmd, job, at, holds, shell, session, typed, input, failed>>

PipeWaitsOnce(p) == st[p] = "pipewait" /\ Wait(p, "exit")
PipeWaits(p) ==
    \/ st[p] = "pipewait" /\ Wait(p, "lastwait")
    \/ st[p] = "lastwait" /\ Wait(p, "exit")

RunStep(p) ==
    \/ Parse(p) \/ RunExec(p) \/ RunRedir(p) \/ RunList(p) \/ ListWaits(p)
    \/ ListGoesOn(p) \/ RunBack(p) \/ Exits(p) \/ RunPipe(p) \/ ForkLeft(p)
    \/ ForkRight(p) \/ ChildStarts(p) \/ PipeCloses(p) \/ PipeWaits(p)

-----------------------------------------------------------------------------
(* Programs.  read: bytes, or 0 at the end of the file; a pipe is at its   *)
(* end when it is empty and nobody holds its write end.                    *)
AtEof(o) ==
    \/ o = Console /\ input = 0
    \/ o = File
    \/ o[1] = "read" /\ chan[o[2]] = 0 /\ Holders(o[2], "write") = {}

CatReads(p) ==
    /\ st[p] = "cat" /\ holds[p] = 0
    /\ LET o == fds[p][0] IN
       \/ /\ o = Console /\ input > 0
          /\ input' = input - 1
          /\ UNCHANGED chan
       \/ /\ o[1] = "read" /\ chan[o[2]] > 0
          /\ chan' = [chan EXCEPT ![o[2]] = @ - 1]
          /\ UNCHANGED input
    /\ holds' = [holds EXCEPT ![p] = 1]
    /\ UNCHANGED <<st, parent, fds, cmd, job, at, shell, session, typed, failed>>

CatReadsOn(p) == st[p] = "cat" /\ holds[p] = 0 /\ AtEof(fds[p][0]) /\ UNCHANGED shellVars
CatEnds(p) == st[p] = "cat" /\ holds[p] = 0 /\ AtEof(fds[p][0]) /\ ExitNow(p) /\ UNCHANGED failed

(* write(1, ...), which fails on a pipe that nobody reads. *)
Broken(o) == o[1] = "write" /\ Holders(o[2], "read") = {}
Written(o) ==
    IF o[1] # "write" THEN UNCHANGED chan
    ELSE chan[o[2]] < PIPESIZE /\ chan' = [chan EXCEPT ![o[2]] = @ + 1]

CatWrites(p) ==
    /\ st[p] = "cat" /\ holds[p] = 1 /\ ~ Broken(fds[p][1])
    /\ Written(fds[p][1])
    /\ holds' = [holds EXCEPT ![p] = 0]
    /\ UNCHANGED <<st, parent, fds, cmd, job, at, shell, session, typed, input, failed>>

CatFails(p) ==
    st[p] = "cat" /\ holds[p] = 1 /\ Broken(fds[p][1]) /\ ExitNow(p) /\ UNCHANGED failed

EchoWrites(p) ==
    /\ st[p] = "echo"
    /\ \/ Broken(fds[p][1]) /\ UNCHANGED chan
       \/ ~ Broken(fds[p][1]) /\ Written(fds[p][1])
    /\ st' = [st EXCEPT ![p] = "exit"]
    /\ UNCHANGED <<parent, fds, cmd, job, at, holds, shell, session, typed, input, failed>>

ProgramStep(p) ==
    CatReads(p) \/ CatEnds(p) \/ CatWrites(p) \/ CatFails(p) \/ EchoWrites(p)

Step(p) == RunStep(p) \/ ProgramStep(p) \/ ShellWaits(p)

On == st[initproc] # "unused"

Goes == On /\ (InitForks \/ InitWaits \/ \E p \in Slots : Step(p))

ShellNext == Goes \/ (On /\ \E p \in Slots : NoChild(p) \/ GetCmd(p) \/ GetCmdEnds(p))

(* The scheduler runs some process that can take a step. *)
ShellFairness == WF_shellVars(Goes)

-----------------------------------------------------------------------------
(* What descriptor f of the command at path q of line j is: the innermost  *)
(* redirection or pipe around it decides.                                  *)
RECURSIVE Node(_, _)
Node(c, q) ==
    IF q = <<>> THEN c
    ELSE Node(CASE Head(q) = "left" -> c.left
                [] Head(q) = "right" -> c.right
                [] OTHER -> c.cmd, Tail(q))

Binds(c, side, f) ==
    \/ c.type = "REDIR" /\ c.fd = f
    \/ c.type = "PIPE" /\ f = (IF side = "left" THEN 1 ELSE 0)

Binders(j, q, f) ==
    {i \in DOMAIN q : Binds(Node(trees[j], SubSeq(q, 1, i - 1)), q[i], f)}

Expected(j, q, f) ==
    IF f > 2 THEN None
    ELSE IF Binders(j, q, f) = {} THEN Console
    ELSE LET up == SubSeq(q, 1, Max(Binders(j, q, f)) - 1)
         IN IF Node(trees[j], up).type = "REDIR" THEN File
            ELSE <<IF f = 0 THEN "read" ELSE "write", <<j, up>>>>

(* A program starts with the descriptors its command line describes and no *)
(* others: its standard input and output are the pipe, file or console     *)
(* that the innermost operator names, and no end of a pipe leaks to it.    *)
StdioAsWritten ==
    \A p \in Slots : st[p] \in {"cat", "echo"} =>
        \A f \in Descriptors : fds[p][f] = Expected(job[p], at[p], f)

(* A process works in the background of its line if "&" stands above it.   *)
InBackground(p) ==
    \E i \in 0 .. Len(at[p]) - 1 : Node(trees[job[p]], SubSeq(at[p], 1, i)).type = "BACK"

Live(p) == st[p] \notin {"unused", "zombie"}

(* The shell prompts again only when every process of the earlier lines    *)
(* that is not in the background has ended, and the right side of ";"      *)
(* starts only after the left side has; a fork that failed is the only     *)
(* excuse.                                                                 *)
Under(p, j, q) == Live(p) /\ job[p] = j /\ IsPrefix(q, at[p]) /\ ~ InBackground(p)

SequencedAsWritten ==
    /\ ShellTypeOK
    /\ \A s \in Slots : st[s] = "prompt" =>
          \A p \in Slots : Live(p) /\ job[p] \notin failed \cup {0} => InBackground(p)
    /\ \A p \in Slots : Live(p) /\ job[p] # 0 =>
          \A i \in DOMAIN at[p] :
             LET up == SubSeq(at[p], 1, i - 1) IN
             at[p][i] = "right" /\ Node(trees[job[p]], up).type = "LIST" =>
                 job[p] \in failed \/ \A s \in Slots : ~ Under(s, job[p], Append(up, "left"))

(* Every command line ends: the programs of a pipeline see the end of      *)
(* their input, because nobody keeps a write end open, and the shell's     *)
(* wait returns.                                                           *)
PromptReturns == (\E p \in Slots : st[p] = "shwait") ~> (\A p \in Slots : st[p] # "shwait")

-----------------------------------------------------------------------------
(* What the lines mean, and where their words are. *)
Grammar == INSTANCE ShellGrammar WITH
    Args <- MAXARGS - 1, Exec <- execcmd, Pipe <- pipecmd, List <- listcmd,
    Back <- backcmd, NoMeaning <- Panic,
    Redirect <- LAMBDA c, op, w : redircmd(c, RedirTo(IF op = ">>" THEN "+" ELSE op, w))

RECURSIVE WordsIn(_)
WordsIn(c) ==
    CASE c.type = "EXEC" -> Range(c.argv)
      [] c.type = "REDIR" -> WordsIn(c.cmd) \cup {c.file}
      [] c.type \in {"PIPE", "LIST"} -> WordsIn(c.left) \cup WordsIn(c.right)
      [] c.type = "BACK" -> WordsIn(c.cmd)
      [] OTHER -> {}

CString(text, s) == SubSeq(text, s, Min({t \in s .. EndOf(text) : At(text, t) = NUL}) - 1)

(* The recursive-descent parser finds the command that the grammar gives   *)
(* the line, or refuses a line the grammar has no meaning for; and the     *)
(* NULs it writes over the line end every word of the command where the    *)
(* word ends, and destroy none.  A session does not change, so it is       *)
(* looked at once, before its first line is read.                          *)
ParsedAsMeant ==
    typed = 0 => \A k \in DOMAIN script :
        /\ trees[k] = Grammar!Meaning(Grammar!Tokens(script[k]))
        /\ \A w \in WordsIn(trees[k]) :
              CString(nulterminate(script[k], trees[k]), w[1])
                  = SubSeq(script[k], w[1], w[2] - 1)
=============================================================================
