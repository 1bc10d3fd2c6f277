# A TLA+ verification of the xv6 system in this repository

This directory models the kernel under `src/kernel`, the user programs that have
interesting state and the image builder in TLA+, model-checks the models with TLC
on small instances and proves the results that matter most with TLAPS, for every
value of the constants.  Each definition is translated from the
source; `PROJECT.json` maps it to its lines.

## The system

The repository is xv6 for RISC-V: a small multiprocessor Unix kernel
(`src/kernel`), its user programs (`src/user`) and the tool that makes the disk
image (`src/mkfs`).  Its parts, the state they keep and how they interact:

| part | source | state | operations | used by |
|------|--------|-------|------------|---------|
| spin-locks, interrupt nesting | `spinlock.c` | `locked`, owner, `noff`, `intena` per CPU | `acquire`, `release`, `push_off`, `pop_off` | everything |
| sleep-locks | `sleeplock.c` | `locked`, `pid`, an inner spin-lock | `acquiresleep`, `releasesleep` | buffers, inodes |
| processes, scheduler | `proc.c`, `swtch.S`, `trap.c` | process table, states, parents, channels, `pid_lock`, `wait_lock` | `allocproc`, `freeproc`, `kfork`, `kexit`, `kwait`, `kkill`, `scheduler`, `sched`, `yield`, `sleep`, `wakeup` | everything |
| clock, pause | `trap.c`, `sysproc.c` | `ticks` | `clockintr`, `sys_pause` | processes |
| disk driver | `virtio_disk.c` | descriptor table, available and used rings, `free[]`, `info[]`, `used_idx` | `virtio_disk_rw`, `virtio_disk_intr` | buffer cache |
| buffer cache | `bio.c` | buffers, reference counts, LRU list | `bread`, `bwrite`, `brelse`, `bpin`, `bunpin` | log, file system |
| write-ahead log | `log.c` | in-memory and on-disk header, log blocks, `outstanding`, `committing` | `begin_op`, `log_write`, `end_op`, `commit`, recovery | file system |
| block and inode allocation | `fs.c` | bitmap, inodes on disk, inode table | `balloc`, `bfree`, `ialloc`, `iget`, `ilock`, `iput`, `itrunc`, `ireclaim` | system calls |
| directories, path names | `fs.c`, `sysfile.c` | directory entries, link counts | `dirlookup`, `dirlink`, `namex`, `create`, `sys_link`, `sys_unlink` | system calls |
| open files | `file.c`, `sysfile.c` | file table, per-process descriptors | `filealloc`, `filedup`, `fileclose`, `fileread`, `filewrite` | system calls |
| pipes | `pipe.c` | ring buffer, `nread`, `nwrite`, open ends | `pipealloc`, `pipeclose`, `pipewrite`, `piperead` | open files |
| memory | `kalloc.c`, `vm.c` | free list, page tables | `kalloc`, `kfree`, `uvmalloc`, `uvmcopy`, `vmfault`, `copyin`, `copyout` | processes, exec |
| exec | `exec.c` | the image being built | `kexec` | processes |
| console | `console.c`, `uart.c`, `printf.c` | input ring `r`/`w`/`e`, transmit state | `consoleread`, `consolewrite`, `consoleintr`, `uartintr` | open files |
| boot, traps, PLIC, syscall dispatch | `main.c`, `start.c`, `trap.c`, `plic.c`, `syscall.c` | trapframe, CSRs | dispatch | all |
| user allocator | `user/umalloc.c` | circular free list | `malloc`, `free` | user programs |
| shell, init | `user/sh.c`, `user/init.c` | the command tree, child processes, descriptors | `parsecmd`, `runcmd`, `getcmd`, the loops of `main` | |
| filters | `user/cat.c`, `echo.c`, `grep.c`, `wc.c` | a buffer filled by reads of any size | | run by the shell |
| other user programs | `user/*.c` | | one system call each | |
| image builder | `mkfs/mkfs.c` | disk image | runs once, on the host | the kernel's file system |

### What makes them hard

* Every operation that can wait releases its lock in `sleep` and looks again
  after it: lost wakeups, stale state and killed sleepers.
* The log writes many blocks, one at a time; the machine may stop between any two
  of them, and again while recovering.
* Reference counts (buffers, inodes, files, pages) are shared by processes that
  hold different locks, and a last reference triggers work done after unlocking.
* A process frees itself in two halves: `kexit` in its own context, `kwait` in
  its parent's, with the scheduler switching away from a dead process's stack.
* Interrupt handlers run on the CPU of the code that shares their data.
* Ring indices are unsigned and wrap.
* CPUs that print and the handler that echoes write to the serial port without
  the lock that the writers use.
* A pipeline ends only if every process closes the pipe ends it does not use, and
  a filter sees a stream cut anywhere.

## How the project is built

Each component has a module: its state as variables, one action per step that
other processes, CPUs, devices or a crash can come between, its properties at the
end.  What runs under a spin-lock without giving it up is one action; a lock that
is released and taken again, a `sleep`, a disk write, an allocation that may fail
and a step of a device each start a new one.  Abstract specifications
(`AtomicDisk`, `BlockStore`, `ByteChannel`, `LineDiscipline`) say what four of the
components promise, and `ShellGrammar` says what a command line means without
saying how it is parsed.  An operator that stands directly before another and has
its parameters, such as `LastBlockOffByOne` before `LastBlock`, is a faulty variant
of it that makes a property fail; the specifications do not use it.

The `MC*` modules add symmetry sets and the inputs to enumerate.  Four of them also
put two parts side by side that share no state and ask related questions:
`MCFileTable` (the kernel's descriptors and the shell that arranges them),
`MCMemory` (pages and a program's heap), `MCConsole` (input and output) and `MCPipe`
(a pipe and programs that read from one).  The initial state decides which of the
two moves, so their state spaces add and do not multiply.  `MCMkfs` is a real
composition: the kernel's block map starts on the image that `Mkfs` has built.

| module | models | state in the code |
|--------|--------|-------------------|
| `Log` | `log.c` and the use it makes of buffers | `outstanding`, `committing`, `lh` are `struct log`; `head`, `logarea`, `disk` are the blocks on disk; `step` and `tail` the position in commit or recovery |
| `AtomicDisk` | what the log promises | current contents, contents after a crash, open operations |
| `Scheduler` | `scheduler`, `sched`, `yield`, `sleep`, `wakeup`, spin-locks, interrupts | `cpu[c]` is `struct cpu` with `noff`, `intena`; `state`, `chan` as in `struct proc` |
| `ProcTable` | `kfork`, `kexit`, `kwait`, `kkill` | `state`, `pid`, `parent`, `killed` as in `struct proc`; owners of `wait_lock` and `p->lock` |
| `BufCache` | `bio.c`, `sleeplock.c` | `refcnt`, `blockno`, `valid`, `prev`, `next` as in `struct buf` |
| `BlockStore` | what the cache promises | one owner and one content per block |
| `VirtioDisk` | `virtio_disk_rw`, `virtio_disk_intr`, the device | descriptor chains, `free`, `info`, both rings and their indices |
| `Pipe` | `pipewrite`, `piperead`, `pipeclose` | `nread`, `nwrite`, `data`, `readopen`, `writeopen` |
| `ByteChannel` | what a pipe promises | a bounded queue of bytes |
| `FileTable` | `file.c`, descriptors, `open`, `pipe`, `dup`, `close`, fork, exit | `ref` and object of each `struct file`, `ofile` of each process |
| `FileSystem` | inodes, directories, names and the calls on them | each inode's `type`, `nlink`, `ref`, `valid`, entries and `..`; current directories; inode locks |
| `Mkfs` | `mkfs.c`: `ialloc`, `iappend`, `balloc`, `main`; then the start of `BlockMap` on the result | the image and `freeinode`, `freeblock` |
| `BlockMap` | `balloc`, `bfree`, `bmap`, `itrunc`, `writei`, `filewrite` | bitmap, `addrs`, the indirect block, `size`, blocks logged by the transaction |
| `Memory` | `kalloc.c`, user page tables, `exec.c`, `sbrk` | number of free pages; for each address space its tables, mappings and size |
| `Umalloc` | `malloc`, `free`, `morecore` of `umalloc.c` | size of each block, `next` of the free ones, `freep`, the break |
| `Console` | `consoleread`, `consoleintr` | `buf`, `r`, `w`, `e` |
| `LineDiscipline` | what console input promises | committed input, the line being edited |
| `Uart` | `consolewrite`, `uartwrite`, `uartputc_sync`, `uartintr`, the device | `tx_busy`, owner of `tx_lock`; bytes in the device, its interrupt, received characters; where each writer, printing CPU and the handler is |
| `ShellParser` | `gettoken` to `nulterminate` of `sh.c`, as functions on lines | |
| `ShellGrammar` | what a line means: cut at its operators, the loosest first | |
| `Shell` | `main`, `getcmd`, `runcmd` of `sh.c`, `init.c`, `cat.c`, `echo.c` | processes with parent, descriptors and command; bytes in each pipe |
| `Filters` | `grep.c` with its matcher, `wc.c` | the buffer, the counters, what was printed |
| `LogProofs`, `LogSpaceProofs`, `ProcTableProofs`, `PipeProofs`, `UartProofs`, `ConsoleProofs` | theorems about the module they are named after | |
| `RingLemmas` | lemmas on remainders, for counters that wrap | |

How the modules fit together:

* `Pipe`, `Console`, `Log`, `BufCache`, `VirtioDisk` and `ProcTable` take
  `sleep(chan, lk)` as one atomic step that releases the lock and sleeps, and
  `wakeup` as one that makes the sleepers runnable.  `Scheduler` is the detailed
  model that supports this: `NoLostWakeup` checks it at the grain of single lock
  operations.
* `FileSystem` and `BlockMap` take a system call's changes as durable together.
  `Log` supports this: `ImplementsAtomicDisk` is what they rely on.
* `Log` uses the cache as a map from blocks to buffers that may forget unpinned
  ones; `BufCache` supports it with `ImplementsBlockStore` and `CacheIntact`.
* `FileSystem` relies on `FileTable` only to give back one reference per open
  file, which `ReferencesExact` checks.
* `Shell` uses fork, exit and wait as `ExitReachesParent` and `OrphansReaped`
  promise them, pipes as `ByteChannel` does, and descriptors as `FileTable` does.
* `Filters` takes what it reads in any pieces, which is all that `ByteChannel` and
  `LineDiscipline` leave open.
* `Umalloc` takes from `sbrk` that it returns the old break or fails, as `Memory`
  does.

Except for `Mkfs` and `BlockMap`, these links are stated here and are not composed
modules: a product of two of these state spaces is out of TLC's reach at bounds
at which both halves are interesting.

## What the runs check

A property is described in the comment above its definition.  Type correctness
(`TypeOK`) is a conjunct of one invariant of each run.  The bounds are
chosen so that the case the property is about happens; every action of every
module fires in a passing run.

| run | bounds and why | what it shows |
|-----|----------------|---------------|
| `log` | 2 processes, 2 blocks, 2 values, a log of 6 blocks for operations that reserve 3, crashes everywhere | operations overlap, wait for space, are absorbed into one batch, and crash at each write, also during recovery; the log refines `AtomicDisk`, the inductive invariant of the proofs holds, waiters are woken and batches commit |
| `scheduler` | 2 CPUs, 2 processes, interrupts wherever enabled | no process on two CPUs, no lost wakeup, no lock panic, the right interrupt state after migration, no missed wakeup before `wfi` |
| `processes` | 4 slots, 4 pids, kills of pids 0, 2 and 3 | grandchildren, reuse of slots, parents that exit first: exits reach a living parent, stacks are not freed in use, init reaps its zombies |
| `buffer_cache` | 3 processes, 3 blocks, 2 buffers, 1 pin | misses, hits, evictions and pins; the cache refines `BlockStore`, the LRU ring is intact.  With fewer buffers than users the panic in `bget` is reachable, so the system may stop; `CacheIntact` shows that every buffer is then really in use |
| `disk_driver` | 3 processes, 8 descriptors, indices modulo 16 | two requests fit and a third waits; indices wrap; completions in any order; sleepers always have a request or a descriptor chain that will wake them |
| `pipe` | 2 writers, 1 reader, one of each killable, 2 byte values, size 2, counters modulo 4 | writes longer than the buffer, wraps, kills, closes; the pipe refines `ByteChannel` and a close ends the calls at the other end.  All ends may be closed, so the system may stop |
| | patterns of up to 2 atoms with `*`, `.`, `^`, `$`; 4 texts of 5 to 7 characters, buffers of 5 and 3 | `grep` prints exactly the lines that match by a definition without recursion on the pattern's text, as far as its buffer goes, and `wc` counts as on the whole text, for every division of the text into reads |
| `open_files` | 2 processes, 3 files, 2 descriptors, 1 pipe page | every allocation fails in some behaviour; references are exact |
| | all lines of up to 4 characters; of 4 and 5 over words with blocks, or with redirections; 3 arguments | the parser accepts what `ShellGrammar` gives a meaning, and builds that command |
| | 8 sessions of 1 or 2 lines with pipes of 2 and 3, lists, blocks, redirections, background commands, errors and blank lines; 7 processes, 6 descriptors, pipes of 1 byte, forks, pipes, opens and execs that fail | each program's standard input and output is what the innermost redirection or pipe says, commands of a list do not overlap and a pipeline is waited for, the prompt comes back |
| `file_system` | 3 inodes, 2 names; one process makes, enters and removes directories and creates files, the other opens, creates, links and unlinks | names race, files and directories are removed in use, crashes leave orphans that are reclaimed |
| `dotdot` | 1 process, 3 inodes, paths with `..` | violated: see below |
| `memory` | 2 processes, 10 or 13 pages of 2 units, 6 virtual pages, 2 entries per table | fork, exec, sbrk and faults of both run out of pages at every allocation, and sizes are not multiples of a page |
| | requests of 0, 1 and 5 bytes with headers of 2, `morecore` of 3 units, 8 units in all | the free list is in address order, blocks neither overlap nor get lost, neighbours are joined, and `malloc` asks for memory only when no free block fits |
| `console` | 2 readers, ring of 3, indices modulo 6 | full buffer without newline, editing, `^D`; refines `LineDiscipline` |
| | 2 writers of 3 bytes in chunks of 2, 1 printing CPU, 1 character received | no transmit interrupt is missed, no byte overruns the device, no writer sleeps for good once printing stops |
| `blocks` | 2 inodes, one file of up to a block given to `mkfs`, 4 data blocks, 1 direct and 2 indirect per file, blocks of 2 units, 3 bits per bitmap block, writes of 1 and 5 units | what `mkfs` appends is found where the kernel looks for it; then the disk fills up at every allocation: nothing leaks, nothing is shared, there are no holes, no transaction exceeds MAXOPBLOCKS |

Bounds that are part of a guard are named constants: `OpBlocks` (blocks an
operation writes), `MaxPid`, `KillPids`, `MaxPins`, `MaxN` and `Lengths` (length
of a call), `Writes`, `Requests`, `OwnUnits`, `Deltas`, `Images` (arguments of
calls), `MaxSize` (largest process), `MaxBreak` (largest heap), `MemorySizes`,
`MaxRx` (characters the device holds for the handler), `MaxLines`, `MaxInput`,
`Sessions`, `Patterns`, `Texts`, `FileLists` (what is typed, read or built from),
`Paths` and `Calls` (what a process asks for), and the moduli `UintMod` and `IdxMod` that stand for 2^32 and 2^16 and
are kept multiples of the ring size, as those are.

### Fairness

Safety runs use no fairness.  The liveness properties use:

* `Log` (`LogProgress`): a process inside `begin_op`, `log_write`,
  `end_op` or `commit` goes on, because the scheduler visits every RUNNABLE
  process and the disk completes requests.  `EndOp` is strongly fair: it is
  disabled while the operation modifies a buffer, and every operation of `fs.c`
  makes a bounded number of writes.  Crashes need not happen and may happen
  forever.
* `ProcTable` (`OrphansReaped`): a call that has begun goes on; `wait_lock` is
  taken in the end although others take it before; init calls `wait` in a loop
  (`user/init.c`).  No process has to exit.
* `Pipe` (`CloseEndsCalls`): a process inside the pipe goes on and gets
  `pi->lock`.  Nobody has to call, close or kill.
* `Shell` (`PromptReturns`): some process goes on as long as one can; the user
  need not type.  This is weaker than fairness to each process: programs that
  wait for each other cannot go on, and others that run for ever are not in the
  session.
* `Uart` (`SleeperIsWoken`): writers and the handler go on, `tx_lock` is obtained
  in the end, the device goes on sending.  A CPU that prints for ever may keep
  the device from being idle whenever the handler looks, so the property is
  stated for runs in which printing stops in the end.

The strong fairness on locks is an assumption about `__sync_lock_test_and_set` in
a spinning `acquire`: a lock that is released again and again is obtained.

## What is proved

No proof uses an assumption but those named in the modules on their constants; TLC
evaluates them in the runs.  Each proof has one lemma per action, and under it one
step per conjunct of the invariant.

### The log

`LogProofs` and `LogSpaceProofs` prove, from the assumptions named in `Log` (`LOGBLOCKS`,
`MAXOPBLOCKS` and `OpBlocks` are natural numbers, `OpBlocks < MAXOPBLOCKS`, the
set of processes is finite, `NotCached` is no data and `NoProc` no process), for any
processes, blocks, data and log size, with crashes at any step:

| theorem | statement |
|---------|-----------|
| `LogInvariant` | `Spec => []IInv` |
| `LogTypeCorrect` | `Spec => []TypeOK` |
| `PinsProtectDirtyBuffers` | `Spec => []PinnedWhileDirty` |
| `HeaderWriteIsCommitPoint` | `Spec => CommitPoint` |
| `LogImplementsAtomicDisk` | `Spec => ImplementsAtomicDisk` |
| `ReservationSuffices` | `Spec => []NoPanic` |

Neither refinement nor the pinning of dirty buffers is inductive by itself.
`IInv` adds what links the stages of a commit:

* `HeaderInv`: which of the two headers is empty at which step, and that a
  header lists no block twice; without it a header written over another could
  lose an installation.
* `OpInv`: `outstanding` counts the operations in progress and none is in
  progress during a commit, so no buffer changes while it is copied to the log.
* `BufferInv`: a buffer being modified is cached and held by one process, which
  holds no other; a logged block stays cached until it is installed.
* `PinnedWhileDirty`: a buffer is pinned exactly while it is logged and not
  installed, and any other idle buffer equals its block on disk; without it the
  cache could forget contents that are nowhere else.
* `CopiesInv`: the log blocks written so far hold what the buffers hold, and the
  blocks installed so far what the log holds; so the header write changes what
  recovery would produce from the old contents to the new, and installation and
  recovery change nothing.

The proof of the refinement shows that `Init` maps to the abstract `Init` and
that each action maps to one abstract step or a stutter: `BeginOp` and `EndOp` to
their abstract counterparts, `Modify` to a write, `WriteHead` to the commit, a crash to the
abstract crash, and all other steps to stutters.

`ReservationSuffices` needs a second invariant, `SpaceInv`, inductive relative to
`IInv`.  Each operation in progress holds one ticket for every block it has
reserved and not used; the length of the header and the number of tickets
together never exceed `LOGBLOCKS`.  `begin_op`'s test gives the newcomer
`MAXOPBLOCKS` tickets, a block new to the log uses one of its writer's, and
absorption uses none.  The assumption `OpBlocks < MAXOPBLOCKS` is strict because
`log_write` tests for a full log before it looks whether the block is already
there: an operation that had filled its reservation could not log a block twice.
The run `log` does not fill its log, so this theorem, and not the run, is what
covers the limit.

### Processes

`ProcTableProofs` proves, for any size of the process table, number of pids and
interleaving of fork, exit, wait and kill:

| theorem | statement |
|---------|-----------|
| `ProcTableInvariant` | `Spec => []ProcInv` |
| `ExitsReachParents` | `Spec => []ExitReachesParent` |
| `StacksOutliveThreads` | `Spec => []FreedOffStack` |

That parents live is not inductive: a child could be between two steps of a fork
whose parent exits.  `ProcInv` adds `LockInv` (the steps of `kexit` and `kwait`
between which `wait_lock` is held have one owner), `ThreadInv` (which thread a
process in each state has), `InitInv` (init never exits), `ForkInv` (a child in the
making is USED and belongs to one fork, so it is not adopted, reaped or allocated
meanwhile), `FamilyInv` (parents live; a process in the second half of `kexit` has no
children left) and `WaitInv` (a process asleep in `kwait`, or about to be, has no
zombie child).  `WaitInv` is what the wakeup under `wait_lock` establishes.

### Pipes

`PipeProofs` proves, for any readers, writers and bytes, any buffer size and any
modulus of the counters that is a multiple of it:

| theorem | statement |
|---------|-----------|
| `PipeInvariant` | `Spec => []PipeInv` |
| `PipeIsSafe` | `Spec => []PipeSafe` |
| `PipeImplementsByteChannel` | `Spec => ImplementsByteChannel` |

`PipeInv` adds to the property who holds `pi->lock`, that what a process about to
sleep has seen is still so, and that a closed end has no user.  The refinement maps
the ring to the sequence of the bytes between `nread` and `nwrite`.  That a write
appends to it and a read removes its head, although counters and cells wrap at
different moduli, rests on `RingLemmas`: a whole turn of a counter does not change
the cell, and counters less than a buffer apart have different cells.  This is
where the assumption that `PIPESIZE` divides the modulus is used.

### Console

`UartProofs` proves `TransmitterIsSafe`, `UartSpec => []TransmitterSafe`, for any
number of writers, printing CPUs and lengths of writes.  The bound on the bytes in
the device needs `FifoInv`: a writer with `tx_busy` clear, a printing CPU or the echo
that has seen the device idle each have a claim to one byte; the bytes in the
device and the claims together stay within the bound, because a claim is only made
while the device is empty.  That an interrupt is still to come needs `ChunkInv`: who
sleeps does so with `tx_busy` set.

`ConsoleProofs` proves `InputIsSafe`, `Spec => []InputSafe`, for any number of
readers, any size of the ring and any larger modulus that is a multiple of it.  The
three indices are in order when the distances from `r` to `w` and from `w` to `e` add
up to that from `r` to `e`; three lemmas show that taking, storing and erasing keep
that, with the wrap in each of the places it can happen.  `ReaderInv` says who holds
`cons.lock` and that who sleeps has nothing to read.  The refinement of
`LineDiscipline` is model-checked only.

### What is only model-checked

All other properties of the runs: `Scheduler`, `BufCache`, `VirtioDisk`, `FileTable`,
`FileSystem`, `BlockMap`, `Memory`, `Umalloc`, `Mkfs`, the shell and the filters.
Liveness is out of the proof system's reach.  So is induction over data, which the
parser, the matcher of `grep` and the free lists would need.

## Where the code and its comments disagree

* Run `dotdot`: `sys_unlink` lets the parent of a removed directory be removed and
  freed while a process is still in the child.  The child's `..` then names a free
  inode, which `ilock` asserts never to happen (`fs.c:316`).

Other observations made while modelling.  No run asserts the opposite, and the
models take these steps unless a bound named here excludes them:

* `kkill(0)` matches a free slot (`proc.c:596`); `killed` is not reset by
  `allocproc`, so the next process in the slot starts killed.  `ProcTable` takes
  this step.
* A kill between the `killed` test and the `sleep` of `kwait` (`proc.c:404`) finds
  nothing to wake, and the victim sleeps until a child exits.  `ProcTable` takes
  this step.
* A killed writer returns from `pipewrite` without waking the readers
  (`pipe.c:85`), so bytes it wrote may wait until the next write or close.
  `NobodyStranded` excepts this case.
* `create` and `sys_link` do not look whether the directory they add to was
  removed meanwhile; the new inode then keeps a link count that no reachable
  entry accounts for (`fs.h:36` calls it "Number of links to inode in file
  system").  `LinksCoverEntries` states what does hold: the count is at
  least the number of entries.
* `parseline` starts another command after `;` only: `a & b` is a syntax error
  (`sh.c:358`).  Of two redirections of one descriptor the first written is opened
  last and wins.  `ParsedAsMeant` and `StdioAsWritten` are stated for this language.
* `grep` stops at the first line that its buffer cannot hold, and ignores a last
  line without a newline (`grep.c:18`).  `GrepPrintsMatches` says so.
* `mkfs` rounds the size of the root directory up to the next block even when its
  entries fill their blocks exactly; the hole this leaves is filled by the first
  lookup that reads past the entries (`bmap` allocates in `readi`).
* Lazy `sbrk` bounds the size only by overflow (`sysproc.c:58`).  `MaxSize`
  keeps `Memory` below the trapframe.

## What is not modelled

`PROJECT.json` lists every part with its reason.

* `clockintr` and `sys_pause` are one more user of sleep and wakeup, whose protocol
  `Scheduler` checks for any condition.
* Boot, the kernel's own page table, the interrupt controller, `virtio_disk_init`
  and `uartinit` run once before anything is concurrent, or only write device
  registers.
* The dispatch of system calls, printing and the routines on strings keep no state.
* Page permissions, the copying of bytes, the assembly of traps, and weak memory:
  the fences in `acquire` and `release` are taken to work.
* The limit of the inode table (`iget` panics when it is full), device files, and
  the contents of files beyond their blocks.
* The other user programs make one system call and print.  `find.c` and `sixfive.c` do not
  compile as they stand, and `sleep.c` calls a function that the library does not
  have, so there is no behaviour to model.
* The test programs; they were read for what the kernel promises.

Between two sleeps a handler that holds its lock is one step, except in
`Scheduler`, where each lock operation is one.
