------------------------------- MODULE Memory -------------------------------
(***************************************************************************)
(* Physical pages and user address spaces: kalloc and kfree                *)
(* (kernel/kalloc.c), user page tables (kernel/vm.c) and the calls that    *)
(* build and free them: fork, exec, exit and sbrk, eager and lazy.  Every  *)
(* kalloc is a step, so calls of several processes compete for the last    *)
(* pages.  Pages are counted, not named.  Sizes are in units of which      *)
(* PGSIZE make a page; a page table is a root and two levels of tables,    *)
(* each with FANOUT entries.                                               *)
(***************************************************************************)
EXTENDS Naturals, FiniteSets, FiniteSetsExt

CONSTANTS
    Procs, First,   \* process slots; the one userinit sets up
    MemorySizes,    \* how many physical pages there may be
    PGSIZE,         \* units per page
    MAXVPN,         \* virtual pages are 0 .. MAXVPN - 1
    FANOUT,         \* entries of a page-table page below the root
    USERSTACK,      \* pages of user stack that exec allocates
    Deltas,         \* amounts by which sbrk grows or shrinks
    Images,         \* sizes of programs
    MaxSize,        \* bound: no process grows beyond this size
    NoProc

ASSUME FirstIsProc == First \in Procs /\ NoProc \notin Procs
ASSUME SizesPositive == MemorySizes \cup {PGSIZE, MAXVPN, FANOUT} \subseteq Nat \ {0}

Vpns == 0 .. MAXVPN - 1
TRAMPOLINE == MAXVPN - 1
TRAPFRAME == MAXVPN - 2

(* The tables that walk passes through on its way to the entry for v. *)
Upper(v) == <<1, v \div (FANOUT * FANOUT)>>
Lower(v) == <<0, v \div FANOUT>>
Path(v) == {Upper(v), Lower(v)}
PGROUNDUP(n) == (n + PGSIZE - 1) \div PGSIZE      \* in pages

VARIABLES
    npages,         \* physical pages that kinit finds
    free,           \* number of pages on kmem.freelist
    space,          \* p->pagetable of each process
    sz,             \* p->sz
    build,          \* the page table that p's fork or exec is building
    pc, call,       \* where p is, and in which call
    v, goal,        \* the loops over pages: next page, size to reach
    bsz,            \* the size below which the table being extended is complete
    child,          \* fork: the slot allocproc found
    panicked        \* has one of this code's calls of panic() run?

vars == <<npages, free, space, sz, build, pc, call, v, goal, bsz, child, panicked>>

(* A page table: does it have a root, which tables, which pages mapped;    *)
(* and the trapframe page of its process.                                  *)
NoSpace == [root |-> 0, trapframe |-> 0, tables |-> {}, map |-> {}]
Spaces == [root : {0, 1}, trapframe : {0, 1},
           tables : SUBSET UNION {Path(w) : w \in Vpns}, map : SUBSET Vpns]

MaxGoal == MaxSize + PGSIZE * (USERSTACK + 1)

TypeOK ==
    /\ npages \in MemorySizes /\ free \in 0 .. npages
    /\ space \in [Procs -> Spaces] /\ build \in [Procs -> Spaces]
    /\ sz \in [Procs -> 0 .. MaxSize]
    /\ pc \in [Procs -> {"user", "trapframe", "root", "maptramp", "maptf", "grow",
                         "copy", "ready", "bad"}]
    /\ call \in [Procs -> {"none", "sbrk", "fork", "exec"}]
    /\ v \in [Procs -> 0 .. PGROUNDUP(MaxGoal)]
    /\ goal \in [Procs -> 0 .. MaxGoal] /\ bsz \in [Procs -> 0 .. MaxGoal]
    /\ child \in [Procs -> Procs \cup {NoProc}]
    /\ panicked \in BOOLEAN

(* userinit: the first process has a trapframe and an empty page table. *)
Init ==
    /\ space = [p \in Procs |-> IF p = First
                  THEN [root |-> 1, trapframe |-> 1,
                        tables |-> Path(TRAPFRAME) \cup Path(TRAMPOLINE),
                        map |-> {TRAPFRAME, TRAMPOLINE}]
                  ELSE NoSpace]
    /\ npages \in MemorySizes
    /\ free = npages - 2 - Cardinality(Path(TRAPFRAME) \cup Path(TRAMPOLINE))
    /\ sz = [p \in Procs |-> 0]
    /\ build = [p \in Procs |-> NoSpace]
    /\ pc = [p \in Procs |-> "user"]
    /\ call = [p \in Procs |-> "none"]
    /\ v = [p \in Procs |-> 0]
    /\ goal = [p \in Procs |-> 0]
    /\ bsz = [p \in Procs |-> 0]
    /\ child = [p \in Procs |-> NoProc]
    /\ panicked = FALSE

-----------------------------------------------------------------------------
(* kalloc takes a page off the free list, kfree puts n back one by one. *)
Kalloc == free > 0 /\ free' = free - 1
Kfree(n) == free' = free + n

(* Page-table operations on as, with f pages free; n counts pages kalloced *)
(* (or, when pages are freed, kfreed), ok is FALSE when they return -1.    *)

(* The tables that walk allocates: the upper one first, and it stays when  *)
(* there is no page for the lower one.                                     *)
NewTables(as, f, w) ==
    LET missing == Path(w) \ as.tables IN
    IF f >= Cardinality(missing) THEN missing ELSE IF f = 0 THEN {} ELSE {Upper(w)}

(* mappages of one page. *)
MapPage(as, f, w) ==
    LET tables == as.tables \cup NewTables(as, f, w)
        ok == Path(w) \subseteq tables
    IN [ok |-> ok, n |-> Cardinality(NewTables(as, f, w)),
        as |-> [as EXCEPT !.tables = tables, !.map = IF ok THEN @ \cup {w} ELSE @]]

(* kalloc a page, then map it; the page goes back if that fails. *)
GrowPage(as, f, w) ==
    IF f = 0 THEN [ok |-> FALSE, n |-> 0, as |-> as]
    ELSE LET m == MapPage(as, f - 1, w) IN [m EXCEPT !.n = IF m.ok THEN @ + 1 ELSE @]

(* The panics: walk beyond MAXVA, and mappages over a mapping. *)
WalkPanics(w) == w \notin Vpns
Remaps(as, w) == w \in as.map

(* uvmunmap of the pages first .. last - 1, freeing them. *)
Uvmunmap(as, first, last) ==
    LET gone == {w \in as.map : first <= w /\ w < last} IN
    [n |-> Cardinality(gone), as |-> [as EXCEPT !.map = @ \ gone]]

(* proc_freepagetable: the trampoline and the trapframe are unmapped, the  *)
(* pages below size and then the tables freed; freeproc frees the          *)
(* trapframe page as well, exec does not.                                  *)
UserPages(as, size) == {w \in as.map \ {TRAMPOLINE, TRAPFRAME} : w < PGROUNDUP(size)}
TablesFreed(as, size) ==
    as.root + Cardinality(UserPages(as, size)) + Cardinality(as.tables)

(* freewalk panics at a leaf that is still mapped, uvmunmap beyond MAXVA. *)
FreePanics(as, size) ==
    \/ as.map \ {TRAMPOLINE, TRAPFRAME} # UserPages(as, size)
    \/ PGROUNDUP(size) > MAXVPN

Alive(p) == space[p].root = 1
Unused(c) == space[c].root = 0 /\ \A q \in Procs : child[q] # c

(* The table that the loop of p extends. *)
Table(p) == IF call[p] = "sbrk" THEN space[p] ELSE build[p]
SetTable(p, as) ==
    IF call[p] = "sbrk"
    THEN space' = [space EXCEPT ![p] = as] /\ UNCHANGED build
    ELSE build' = [build EXCEPT ![p] = as] /\ UNCHANGED space

Goto(p, label) == pc' = [pc EXCEPT ![p] = label]
Returns(p) ==
    /\ Goto(p, "user")
    /\ call' = [call EXCEPT ![p] = "none"]
    /\ v' = [v EXCEPT ![p] = 0]
    /\ goal' = [goal EXCEPT ![p] = 0]
    /\ bsz' = [bsz EXCEPT ![p] = 0]
    /\ child' = [child EXCEPT ![p] = NoProc]

-----------------------------------------------------------------------------
(* sys_sbrk, SBRK_EAGER: growproc calls uvmalloc. *)
SbrkEager(p, n) ==
    /\ pc[p] = "user" /\ Alive(p) /\ sz[p] + n <= MaxSize
    /\ Goto(p, "grow")
    /\ call' = [call EXCEPT ![p] = "sbrk"]
    /\ bsz' = [bsz EXCEPT ![p] = sz[p]]
    /\ v' = [v EXCEPT ![p] = PGROUNDUP(sz[p])]
    /\ goal' = [goal EXCEPT ![p] = sz[p] + n]
    /\ UNCHANGED <<free, space, sz, build, child, panicked>>

(* A shrink below zero wraps around in uvmdealloc, which then does nothing. *)
FirstUnmappedRoundedDown(newsz) == newsz \div PGSIZE
FirstUnmapped(newsz) == PGROUNDUP(newsz)

SbrkShrink(p, n) ==
    /\ pc[p] = "user" /\ Alive(p) /\ sz[p] >= n
    /\ LET u == Uvmunmap(space[p], FirstUnmapped(sz[p] - n), PGROUNDUP(sz[p])) IN
       /\ Kfree(u.n)
       /\ space' = [space EXCEPT ![p] = u.as]
    /\ sz' = [sz EXCEPT ![p] = @ - n]
    /\ panicked' = (panicked \/ PGROUNDUP(sz[p]) > MAXVPN)
    /\ UNCHANGED <<build, pc, call, v, goal, bsz, child>>

(* SBRK_LAZY moves p->sz only ... *)
SbrkLazy(p, n) ==
    /\ pc[p] = "user" /\ Alive(p) /\ sz[p] + n <= MaxSize
    /\ sz' = [sz EXCEPT ![p] = @ + n]
    /\ UNCHANGED <<free, space, build, pc, call, v, goal, bsz, child, panicked>>

(* ... and vmfault maps the page at va when it is first used. *)
MayFault(p, va) == va < sz[p]

Vmfault(p, va) ==
    /\ pc[p] = "user" /\ Alive(p)
    /\ MayFault(p, va)
    /\ LET w == va \div PGSIZE
           g == GrowPage(space[p], free, w)
       IN /\ w \notin space[p].map
          /\ IF WalkPanics(w)
             THEN panicked' = TRUE /\ UNCHANGED <<free, space>>
             ELSE /\ free' = free - g.n
                  /\ space' = [space EXCEPT ![p] = g.as]
                  /\ UNCHANGED panicked
    /\ UNCHANGED <<sz, build, pc, call, v, goal, bsz, child>>

-----------------------------------------------------------------------------
(* uvmalloc, one page at a time.  When memory runs out the pages of this   *)
(* call are unmapped again.                                                *)
UndoNothing(p) == v[p]
UndoFrom(p) == PGROUNDUP(bsz[p])

Grow(p) ==
    /\ pc[p] = "grow" /\ v[p] * PGSIZE < goal[p]
    /\ LET w == v[p]
           g == GrowPage(Table(p), free, w)
           u == Uvmunmap(g.as, UndoFrom(p), w)
       IN IF WalkPanics(w) \/ Remaps(Table(p), w)
          THEN /\ panicked' = TRUE
               /\ UNCHANGED <<free, space, build, pc, call, v, goal, bsz, child>>
          ELSE IF g.ok
          THEN /\ free' = free - g.n
               /\ SetTable(p, g.as)
               /\ v' = [v EXCEPT ![p] = w + 1]
               /\ UNCHANGED <<pc, call, goal, bsz, child, panicked>>
          ELSE /\ free' = free - g.n + u.n
               /\ SetTable(p, u.as)
               /\ IF call[p] = "sbrk" THEN Returns(p)
                  ELSE Goto(p, "bad") /\ UNCHANGED <<call, v, goal, bsz, child>>
               /\ UNCHANGED panicked
    /\ UNCHANGED sz

(* sbrk is done then; exec goes on from the program to the guard page and  *)
(* the stack, and then commits.                                            *)
StackGoal(p) == (PGROUNDUP(goal[p]) + USERSTACK + 1) * PGSIZE

SbrkGrown(p) ==
    /\ pc[p] = "grow" /\ v[p] * PGSIZE >= goal[p] /\ call[p] = "sbrk"
    /\ sz' = [sz EXCEPT ![p] = goal[p]]
    /\ Returns(p)
    /\ UNCHANGED <<free, space, build, panicked>>

ExecGrown(p) ==
    /\ pc[p] = "grow" /\ v[p] * PGSIZE >= goal[p] /\ call[p] = "exec"
    /\ IF bsz[p] = 0
       THEN /\ bsz' = [bsz EXCEPT ![p] = PGROUNDUP(goal[p]) * PGSIZE]
            /\ goal' = [goal EXCEPT ![p] = StackGoal(p)]
            /\ UNCHANGED pc
       ELSE /\ bsz' = [bsz EXCEPT ![p] = goal[p]]
            /\ Goto(p, "ready")
            /\ UNCHANGED goal
    /\ UNCHANGED <<free, space, sz, build, call, v, child, panicked>>

-----------------------------------------------------------------------------
(* kfork: allocproc takes a slot and a trapframe page ... *)
Fork(p, c) ==
    /\ pc[p] = "user" /\ Alive(p) /\ Unused(c)
    /\ Goto(p, "trapframe")
    /\ call' = [call EXCEPT ![p] = "fork"]
    /\ child' = [child EXCEPT ![p] = c]
    /\ UNCHANGED <<free, space, sz, build, v, goal, bsz, panicked>>

ForkTrapframe(p) ==
    /\ pc[p] = "trapframe"
    /\ \/ /\ Kalloc
          /\ build' = [build EXCEPT ![p].trapframe = 1]
          /\ Goto(p, "root")
          /\ UNCHANGED <<call, v, goal, bsz, child>>
       \/ free = 0 /\ UNCHANGED <<free, build>> /\ Returns(p)
    /\ UNCHANGED <<space, sz, panicked>>

(* ... and kexec, for a program that fits, start a page table. *)
Exec(p, img) ==
    /\ pc[p] = "user" /\ Alive(p)
    /\ (PGROUNDUP(img) + USERSTACK + 1) * PGSIZE <= MaxSize
    /\ Goto(p, "root")
    /\ call' = [call EXCEPT ![p] = "exec"]
    /\ goal' = [goal EXCEPT ![p] = img]
    /\ UNCHANGED <<free, space, sz, build, v, bsz, child, panicked>>

(* proc_pagetable: uvmcreate allocates the root ... *)
Uvmcreate(p) ==
    /\ pc[p] = "root"
    /\ \/ Kalloc /\ build' = [build EXCEPT ![p].root = 1] /\ Goto(p, "maptramp")
       \/ free = 0 /\ UNCHANGED <<free, build>> /\ Goto(p, "bad")
    /\ UNCHANGED <<space, sz, call, v, goal, bsz, child, panicked>>

(* ... then the trampoline and the trapframe are mapped.  If that fails    *)
(* uvmfree frees the table, as freeproc and exec would after it.           *)
MapSpecial(p, label, w, next) ==
    /\ pc[p] = label
    /\ LET m == MapPage(build[p], free, w) IN
       /\ free' = free - m.n
       /\ build' = [build EXCEPT ![p] = m.as]
       /\ Goto(p, IF m.ok THEN next ELSE "bad")
    /\ UNCHANGED <<space, sz, call, v, goal, bsz, child, panicked>>

MapTrampoline(p) == MapSpecial(p, "maptramp", TRAMPOLINE, "maptf")
MapTrapframe(p) ==
    MapSpecial(p, "maptf", TRAPFRAME, IF call[p] = "fork" THEN "copy" ELSE "grow")

(* uvmcopy copies the pages the parent has. *)
Copy(p) ==
    /\ pc[p] = "copy" /\ v[p] < PGROUNDUP(sz[p])
    /\ LET w == v[p]
           g == IF w \in space[p].map THEN GrowPage(build[p], free, w)
                ELSE [ok |-> TRUE, n |-> 0, as |-> build[p]]
           u == Uvmunmap(g.as, 0, w)
       IN IF g.ok
          THEN /\ free' = free - g.n
               /\ build' = [build EXCEPT ![p] = g.as]
               /\ v' = [v EXCEPT ![p] = w + 1]
               /\ panicked' = (panicked \/ WalkPanics(w)
                                \/ (w \in space[p].map /\ Remaps(build[p], w)))
               /\ UNCHANGED pc
          ELSE /\ free' = free - g.n + u.n
               /\ build' = [build EXCEPT ![p] = u.as]
               /\ Goto(p, "bad")
               /\ UNCHANGED <<v, panicked>>
    /\ UNCHANGED <<space, sz, call, goal, bsz, child>>

ForkDone(p) ==
    /\ pc[p] = "copy" /\ v[p] >= PGROUNDUP(sz[p])
    /\ space' = [space EXCEPT ![child[p]] = build[p]]
    /\ sz' = [sz EXCEPT ![child[p]] = sz[p]]
    /\ build' = [build EXCEPT ![p] = NoSpace]
    /\ Returns(p)
    /\ UNCHANGED <<free, panicked>>

(* exec commits: the old table is freed ... *)
ExecCommit(p) ==
    /\ pc[p] = "ready"
    /\ Kfree(TablesFreed(space[p], sz[p]))
    /\ panicked' = (panicked \/ FreePanics(space[p], sz[p]))
    /\ space' = [space EXCEPT ![p] = [build[p] EXCEPT !.trapframe = space[p].trapframe]]
    /\ sz' = [sz EXCEPT ![p] = bsz[p]]
    /\ build' = [build EXCEPT ![p] = NoSpace]
    /\ Returns(p)

(* ... or fails, when a segment cannot be read or the arguments do not fit. *)
ExecBad(p) ==
    /\ \/ pc[p] = "ready"
       \/ pc[p] = "grow" /\ call[p] = "exec" /\ bsz[p] # 0 /\ v[p] * PGSIZE = bsz[p]
    /\ Goto(p, "bad")
    /\ UNCHANGED <<free, space, sz, build, call, v, goal, bsz, child, panicked>>

(* What failed calls built is freed: by freeproc with np->sz = 0 after     *)
(* fork, by proc_freepagetable after exec.                                 *)
FreeBuild(p) ==
    /\ pc[p] = "bad"
    /\ Kfree(TablesFreed(build[p], bsz[p]) + build[p].trapframe)
    /\ panicked' = (panicked \/ FreePanics(build[p], bsz[p]))
    /\ build' = [build EXCEPT ![p] = NoSpace]
    /\ Returns(p)
    /\ UNCHANGED <<space, sz>>

(* freeproc, when the process has exited and is reaped. *)
FreeProc(p) ==
    /\ pc[p] = "user" /\ Alive(p) /\ p # First
    /\ Kfree(TablesFreed(space[p], sz[p]) + space[p].trapframe)
    /\ panicked' = (panicked \/ FreePanics(space[p], sz[p]))
    /\ space' = [space EXCEPT ![p] = NoSpace]
    /\ sz' = [sz EXCEPT ![p] = 0]
    /\ UNCHANGED <<build, pc, call, v, goal, bsz, child>>

Next == UNCHANGED npages /\
    \E p \in Procs :
        \/ \E n \in Deltas : SbrkEager(p, n) \/ SbrkShrink(p, n) \/ SbrkLazy(p, n)
        \/ \E va \in 0 .. MaxSize : Vmfault(p, va)
        \/ Grow(p) \/ SbrkGrown(p) \/ ExecGrown(p)
        \/ \E c \in Procs : Fork(p, c)
        \/ ForkTrapframe(p) \/ Copy(p) \/ ForkDone(p)
        \/ \E img \in Images : Exec(p, img)
        \/ Uvmcreate(p) \/ MapTrampoline(p) \/ MapTrapframe(p)
        \/ ExecCommit(p) \/ ExecBad(p) \/ FreeBuild(p) \/ FreeProc(p)

Spec == Init /\ [][Next]_vars

-----------------------------------------------------------------------------
Used(as) == as.root + as.trapframe + Cardinality(as.tables)
            + Cardinality(as.map \ {TRAMPOLINE, TRAPFRAME})

(* Every page is on the free list or in use: no call leaks a page or frees *)
(* one twice, however far it gets before memory runs out and whoever else  *)
(* takes pages meanwhile.                                                  *)
PagesAccounted ==
    /\ TypeOK
    /\ free + MapThenSumSet(LAMBDA p : Used(space[p]) + Used(build[p]), Procs) = npages

(* A process' user pages lie below p->sz, or below the size its sbrk is    *)
(* growing to: that is what lets uvmfree find them all.  So none of the    *)
(* panics is reached: walk (address beyond MAXVA), mappages (remap),       *)
(* freewalk (leaf).                                                        *)
MappedBelowSize ==
    /\ ~ panicked
    /\ \A p \in Procs : \A w \in space[p].map \ {TRAMPOLINE, TRAPFRAME} :
        w < PGROUNDUP(sz[p]) \/ (call[p] = "sbrk" /\ w < v[p])

(* No page is lost, freed twice or mapped where nobody would free it.      *)
MemorySafe == PagesAccounted /\ MappedBelowSize

(* A process keeps the pages it has below its size, whatever sbrk, faults  *)
(* and failed calls do; only a successful exec and exit take them away.    *)
KeepsItsPages ==
    [][\A p \in Procs : pc[p] # "ready" /\ space'[p].root = 1 =>
          \A w \in space[p].map :
              w < PGROUNDUP(sz[p]) /\ w < PGROUNDUP(sz'[p]) => w \in space'[p].map]_vars
=============================================================================
