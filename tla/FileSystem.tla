----------------------------- MODULE FileSystem -----------------------------
(***************************************************************************)
(* Inodes, directories and names (kernel/fs.c) and the system calls that   *)
(* change the tree (kernel/sysfile.c): open, creat, mkdir, link, unlink,   *)
(* chdir, close, and recovery of orphans at boot (ireclaim).  A process    *)
(* interleaves with others wherever it holds no inode lock, and while      *)
(* unlink waits for the second of its two locks.                           *)
(*                                                                         *)
(* Every system call runs in a transaction of the log (module Log), so a   *)
(* crash leaves the tree as it was at some moment when no call was under   *)
(* way; Crash is therefore taken in such states only.                      *)
(***************************************************************************)
EXTENDS Naturals, Sequences, FiniteSets, FiniteSetsExt

CONSTANTS
    Procs,          \* processes
    NINODES,        \* inode numbers are 1 .. NINODES
    Names,          \* file names
    Paths,          \* paths given to system calls: sequences of names and ".."
    Calls,          \* the system calls each process makes
    NoProc          \* no process

ASSUME SizesAreNat == NINODES \in Nat \ {0}
ASSUME NamesFresh == ".." \notin Names /\ NoProc \notin Procs

ROOTINO == 1
Inums == 1 .. NINODES
NoInode == 0

VARIABLES
    ino,            \* the inodes: on disk, and their entries in the inode table
    lock,           \* the process that holds ip->lock across a wait, or NoProc
    cwd,            \* p->cwd
    fd,             \* the inode of the file p has open, or NoInode
    pc, call,       \* where p is, and in which system call
    cur, path,      \* namex: the inode reached, the path still to walk
    ip              \* a second inode the call has in hand

vars == <<ino, lock, cwd, fd, pc, call, cur, path, ip>>

(* An inode: type, nlink and content are on disk; ref and valid belong to  *)
(* its entry in the inode table, which exists while ref > 0.               *)
NoEntries == [n \in Names |-> NoInode]
Free == [type |-> "free", nlink |-> 0, ents |-> NoEntries, up |-> NoInode,
         ref |-> 0, valid |-> 0]

MaxRef == 4 * Cardinality(Procs) + 1
MaxLink == NINODES * (Cardinality(Names) + 1) + 2 * Cardinality(Procs)

TypeOK ==
    /\ ino \in [Inums -> [type : {"free", "dir", "file"}, nlink : 0 .. MaxLink,
                          ents : [Names -> Inums \cup {NoInode}],
                          up : Inums \cup {NoInode}, ref : 0 .. MaxRef,
                          valid : {0, 1}]]
    /\ lock \in [Inums -> Procs \cup {NoProc}]
    /\ cwd \in [Procs -> Inums]
    /\ fd \in [Procs -> Inums \cup {NoInode}]
    /\ pc \in [Procs -> {"user", "walk", "found", "exists", "unlink2", "walk2",
                         "found2", "linkbad"}]
    /\ \A p \in Procs : call[p] \in Calls[p] \cup {"none"}
    /\ cur \in [Procs -> Inums \cup {NoInode}]
    /\ path \in [Procs -> Paths \cup {<<>>} \cup {Tail(q) : q \in Paths}]
    /\ ip \in [Procs -> Inums \cup {NoInode}]

(* mkfs made the root directory; every process starts in it. *)
Booted(disk) ==
    [i \in Inums |-> IF i = ROOTINO
                     THEN [disk[i] EXCEPT !.ref = Cardinality(Procs), !.valid = 1]
                     ELSE disk[i]]

Init ==
    /\ ino = Booted([i \in Inums |-> IF i = ROOTINO
                        THEN [Free EXCEPT !.type = "dir", !.nlink = 1, !.up = ROOTINO]
                        ELSE Free])
    /\ lock = [i \in Inums |-> NoProc]
    /\ cwd = [p \in Procs |-> ROOTINO]
    /\ fd = [p \in Procs |-> NoInode]
    /\ pc = [p \in Procs |-> "user"]
    /\ call = [p \in Procs |-> "none"]
    /\ cur = [p \in Procs |-> NoInode]
    /\ path = [p \in Procs |-> <<>>]
    /\ ip = [p \in Procs |-> NoInode]

-----------------------------------------------------------------------------
(* The inode layer.  f is the state of all inodes. *)

(* iget and idup; a new entry of the table is not valid. *)
Get(f, i) == [f EXCEPT ![i].ref = @ + 1, ![i].valid = IF f[i].ref = 0 THEN 0 ELSE @]

(* ilock reads the inode if its entry is not valid. *)
Ilock(f, i) == [f EXCEPT ![i].valid = 1]
Unlocked(i) == lock[i] = NoProc

(* iput: the last reference to an inode without links frees it, content    *)
(* and all, provided the entry is valid.                                   *)
PutIgnoringRefs(f, i) ==
    IF f[i].valid = 1 /\ f[i].nlink = 0
    THEN [f EXCEPT ![i] = [Free EXCEPT !.ref = f[i].ref - 1]]
    ELSE [f EXCEPT ![i].ref = @ - 1]
PutForgotten(f, i) ==
    IF f[i].ref = 1 /\ f[i].valid = 1 /\ f[i].nlink = 0
    THEN [f EXCEPT ![i] = Free]
    ELSE f
Put(f, i) ==
    IF f[i].ref = 1 /\ f[i].valid = 1 /\ f[i].nlink = 0
    THEN [f EXCEPT ![i] = Free]
    ELSE [f EXCEPT ![i].ref = @ - 1]

(* dirlookup *)
Lookup(d, n) == IF n = ".." THEN ino[d].up ELSE ino[d].ents[n]

(* isdirempty *)
DirIsEmpty(d) == ino[d].ents = NoEntries

(* ialloc takes the first inode that is free on disk. *)
FreeInums == {i \in Inums : ino[i].type = "free"}

Returns(p) ==
    /\ pc' = [pc EXCEPT ![p] = "user"]
    /\ call' = [call EXCEPT ![p] = "none"]
    /\ cur' = [cur EXCEPT ![p] = NoInode]
    /\ path' = [path EXCEPT ![p] = <<>>]
    /\ ip' = [ip EXCEPT ![p] = NoInode]

-----------------------------------------------------------------------------
(* namex: start at the root or in the current directory. *)
Start(p, i, q, at) ==
    /\ ino' = Get(ino, i)
    /\ cur' = [cur EXCEPT ![p] = i]
    /\ path' = [path EXCEPT ![p] = q]
    /\ pc' = [pc EXCEPT ![p] = at]

Begin(p, c, q) ==
    /\ pc[p] = "user"
    /\ c \in {"open", "creat"} => fd[p] = NoInode
    /\ \E i \in {ROOTINO, cwd[p]} : Start(p, i, q, "walk")
    /\ call' = [call EXCEPT ![p] = c]
    /\ UNCHANGED <<lock, cwd, fd, ip>>

(* Does the walk stop at the parent of the path's last element? *)
WantsParent(p) == call[p] \in {"creat", "mkdir", "unlink"} \/ pc[p] = "walk2"

(* Lock the inode reached and look the next element up in it ... *)
Walk(p) ==
    /\ pc[p] \in {"walk", "walk2"}
    /\ path[p] # <<>>
    /\ Unlocked(cur[p])
    /\ ino[cur[p]].type = "dir"
    /\ ~ (WantsParent(p) /\ Len(path[p]) = 1)
    /\ LET next == Lookup(cur[p], Head(path[p])) IN
       /\ next # NoInode
       /\ ino' = Put(Get(Ilock(ino, cur[p]), next), cur[p])
       /\ cur' = [cur EXCEPT ![p] = next]
       /\ path' = [path EXCEPT ![p] = Tail(@)]
    /\ UNCHANGED <<lock, cwd, fd, pc, call, ip>>

(* ... or stop there ... *)
WalkEnds(p) ==
    /\ pc[p] \in {"walk", "walk2"}
    /\ IF path[p] = <<>>
       THEN UNCHANGED ino
       ELSE /\ WantsParent(p) /\ Len(path[p]) = 1
            /\ Unlocked(cur[p]) /\ ino[cur[p]].type = "dir"
            /\ ino' = Ilock(ino, cur[p])
    /\ pc' = [pc EXCEPT ![p] = IF @ = "walk" THEN "found" ELSE "found2"]
    /\ UNCHANGED <<lock, cwd, fd, call, cur, path, ip>>

(* ... or fail: not a directory, or no such name. *)
WalkFails(p) ==
    /\ pc[p] \in {"walk", "walk2"}
    /\ path[p] # <<>>
    /\ Unlocked(cur[p])
    /\ \/ ino[cur[p]].type # "dir"
       \/ /\ ~ (WantsParent(p) /\ Len(path[p]) = 1)
          /\ Lookup(cur[p], Head(path[p])) = NoInode
    /\ ino' = Put(Ilock(ino, cur[p]), cur[p])
    /\ IF pc[p] = "walk2"
       THEN /\ pc' = [pc EXCEPT ![p] = "linkbad"]
            /\ cur' = [cur EXCEPT ![p] = NoInode]
            /\ path' = [path EXCEPT ![p] = <<>>]
            /\ UNCHANGED <<call, ip>>
       ELSE Returns(p)
    /\ UNCHANGED <<lock, cwd, fd>>

-----------------------------------------------------------------------------
(* sys_open without O_CREATE keeps the reference; sys_close drops it. *)
Open(p) ==
    /\ pc[p] = "found" /\ call[p] = "open"
    /\ Unlocked(cur[p])
    /\ ino' = Ilock(ino, cur[p])
    /\ fd' = [fd EXCEPT ![p] = cur[p]]
    /\ Returns(p)
    /\ UNCHANGED <<lock, cwd>>

Close(p) ==
    /\ pc[p] = "user" /\ fd[p] # NoInode
    /\ ino' = Put(ino, fd[p])
    /\ fd' = [fd EXCEPT ![p] = NoInode]
    /\ UNCHANGED <<lock, cwd, pc, call, cur, path, ip>>

(* sys_chdir *)
Chdir(p) ==
    /\ pc[p] = "found" /\ call[p] = "chdir"
    /\ Unlocked(cur[p])
    /\ IF ino[cur[p]].type = "dir"
       THEN /\ ino' = Put(Ilock(ino, cur[p]), cwd[p])
            /\ cwd' = [cwd EXCEPT ![p] = cur[p]]
       ELSE ino' = Put(Ilock(ino, cur[p]), cur[p]) /\ UNCHANGED cwd
    /\ Returns(p)
    /\ UNCHANGED <<lock, fd>>

(* create, with the parent dp locked.  The name exists: dp is let go, and  *)
(* the inode found is locked afterwards ...                                *)
CreateExists(p) ==
    /\ pc[p] = "found" /\ call[p] \in {"creat", "mkdir"}
    /\ Unlocked(cur[p])
    /\ LET i == Lookup(cur[p], path[p][1]) IN
       /\ i # NoInode
       /\ ino' = Put(Get(Ilock(ino, cur[p]), i), cur[p])
       /\ ip' = [ip EXCEPT ![p] = i]
    /\ cur' = [cur EXCEPT ![p] = NoInode]
    /\ pc' = [pc EXCEPT ![p] = "exists"]
    /\ UNCHANGED <<lock, cwd, fd, call, path>>

CreateOpens(p) ==
    /\ pc[p] = "exists"
    /\ Unlocked(ip[p])
    /\ IF call[p] = "creat" /\ ino[ip[p]].type = "file"
       THEN ino' = Ilock(ino, ip[p]) /\ fd' = [fd EXCEPT ![p] = ip[p]]
       ELSE ino' = Put(Ilock(ino, ip[p]), ip[p]) /\ UNCHANGED fd
    /\ Returns(p)
    /\ UNCHANGED <<lock, cwd>>

(* ... it does not: a new inode is linked under it; a new directory's ".." *)
(* is a link to dp ...                                                     *)
NewInode(p, up) ==
    [Free EXCEPT !.type = IF call[p] = "mkdir" THEN "dir" ELSE "file",
                 !.nlink = 1, !.up = IF call[p] = "mkdir" THEN up ELSE NoInode,
                 !.ref = 1, !.valid = 1]
Linked(f, p, d, i) ==
    [f EXCEPT ![i] = NewInode(p, d), ![d].ents[path[p][1]] = i, ![d].valid = 1,
              ![d].nlink = @ + (IF call[p] = "mkdir" THEN 1 ELSE 0)]

Create(p) ==
    /\ pc[p] = "found" /\ call[p] \in {"creat", "mkdir"}
    /\ Unlocked(cur[p])
    /\ Lookup(cur[p], path[p][1]) = NoInode
    /\ FreeInums # {}
    /\ LET i == Min(FreeInums)
           f == Put(Linked(ino, p, cur[p], i), cur[p])
       IN IF call[p] = "mkdir"
          THEN ino' = Put(f, i) /\ UNCHANGED fd
          ELSE ino' = f /\ fd' = [fd EXCEPT ![p] = i]
    /\ Returns(p)
    /\ UNCHANGED <<lock, cwd>>

(* ... and without a free inode or a block for the entries all is undone:  *)
(* nlink = 0 and iput free the new inode.                                  *)
CreateFails(p) ==
    /\ pc[p] = "found" /\ call[p] \in {"creat", "mkdir"}
    /\ Unlocked(cur[p])
    /\ Lookup(cur[p], path[p][1]) = NoInode
    /\ ino' = Put(Ilock(ino, cur[p]), cur[p])
    /\ Returns(p)
    /\ UNCHANGED <<lock, cwd, fd>>

-----------------------------------------------------------------------------
(* sys_unlink locks the parent and finds the inode, or gives up ... *)
Unlink(p) ==
    /\ pc[p] = "found" /\ call[p] = "unlink"
    /\ Unlocked(cur[p])
    /\ LET i == Lookup(cur[p], path[p][1]) IN
       IF path[p][1] = ".." \/ i = NoInode
       THEN /\ ino' = Put(Ilock(ino, cur[p]), cur[p])
            /\ Returns(p)
            /\ UNCHANGED lock
       ELSE /\ ino' = Get(Ilock(ino, cur[p]), i)
            /\ lock' = [lock EXCEPT ![cur[p]] = p]
            /\ ip' = [ip EXCEPT ![p] = i]
            /\ pc' = [pc EXCEPT ![p] = "unlink2"]
            /\ UNCHANGED <<call, cur, path>>
    /\ UNCHANGED <<cwd, fd>>

(* ... then locks the inode too: unless it is a directory in use, the      *)
(* entry is erased, and with it a link of each.                            *)
Unlinked(f, d, n, i) ==
    [f EXCEPT ![d].ents[n] = NoInode,
              ![d].nlink = @ - (IF f[i].type = "dir" THEN 1 ELSE 0),
              ![i].nlink = @ - 1, ![i].valid = 1]

Unlink2(p) ==
    /\ pc[p] = "unlink2"
    /\ Unlocked(ip[p])
    /\ LET d == cur[p]  i == ip[p] IN
       ino' = IF ino[i].type = "dir" /\ ~ DirIsEmpty(i)
              THEN Put(Put(Ilock(ino, i), i), d)
              ELSE Put(Put(Unlinked(ino, d, path[p][1], i), d), i)
    /\ lock' = [lock EXCEPT ![cur[p]] = NoProc]
    /\ Returns(p)
    /\ UNCHANGED <<cwd, fd>>

-----------------------------------------------------------------------------
(* sys_link refuses directories, counts the new link, then looks for the   *)
(* directory to put it in ...                                              *)
MayLinkAnything(i) == TRUE
MayLink(i) == ino[i].type # "dir"

LinkCount(i) == [ino EXCEPT ![i].nlink = @ + 1, ![i].valid = 1]

Link(p, q) ==
    /\ pc[p] = "found" /\ call[p] = "link"
    /\ Unlocked(cur[p])
    /\ IF ~ MayLink(cur[p])
       THEN /\ ino' = Put(Ilock(ino, cur[p]), cur[p])
            /\ Returns(p)
       ELSE /\ \E i \in {ROOTINO, cwd[p]} :
                /\ ino' = Get(LinkCount(cur[p]), i)
                /\ cur' = [cur EXCEPT ![p] = i]
            /\ ip' = [ip EXCEPT ![p] = cur[p]]
            /\ path' = [path EXCEPT ![p] = q]
            /\ pc' = [pc EXCEPT ![p] = "walk2"]
            /\ UNCHANGED call
    /\ UNCHANGED <<lock, cwd, fd>>

Link2(p) ==
    /\ pc[p] = "found2"
    /\ Unlocked(cur[p])
    /\ Lookup(cur[p], path[p][1]) = NoInode
    /\ ino' = Put(Put([ino EXCEPT ![cur[p]].ents[path[p][1]] = ip[p],
                                  ![cur[p]].valid = 1], cur[p]), ip[p])
    /\ Returns(p)
    /\ UNCHANGED <<lock, cwd, fd>>

(* ... and takes the count back if the name exists or no block is left. *)
LinkFails(p) ==
    /\ pc[p] = "found2"
    /\ Unlocked(cur[p])
    /\ ino' = Put(Ilock(ino, cur[p]), cur[p])
    /\ cur' = [cur EXCEPT ![p] = NoInode]
    /\ pc' = [pc EXCEPT ![p] = "linkbad"]
    /\ UNCHANGED <<lock, cwd, fd, call, path, ip>>

LinkBad(p) ==
    /\ pc[p] = "linkbad"
    /\ Unlocked(ip[p])
    /\ ino' = Put([ino EXCEPT ![ip[p]].nlink = @ - 1, ![ip[p]].valid = 1], ip[p])
    /\ Returns(p)
    /\ UNCHANGED <<lock, cwd, fd>>

-----------------------------------------------------------------------------
(* A crash loses the inode table; at boot ireclaim takes each inode that   *)
(* is allocated and has no link through ilock and iput, which frees it.    *)
ReclaimUnlocked(i) == Put(Get([ino EXCEPT ![i].ref = 0], i), i)[i]
Reclaim(i) == Put(Ilock(Get([ino EXCEPT ![i].ref = 0], i), i), i)[i]

Crash ==
    /\ \A p \in Procs : pc[p] = "user"
    /\ ino' = Booted([i \in Inums |->
                        IF ino[i].type # "free" /\ ino[i].nlink = 0
                        THEN Reclaim(i)
                        ELSE [ino[i] EXCEPT !.ref = 0, !.valid = 0]])
    /\ cwd' = [p \in Procs |-> ROOTINO]
    /\ fd' = [p \in Procs |-> NoInode]
    /\ UNCHANGED <<lock, pc, call, cur, path, ip>>

Next ==
    \/ \E p \in Procs :
        \/ \E c \in Calls[p], q \in Paths : Begin(p, c, q)
        \/ Walk(p) \/ WalkEnds(p) \/ WalkFails(p)
        \/ Open(p) \/ Close(p) \/ Chdir(p)
        \/ CreateExists(p) \/ CreateOpens(p) \/ Create(p) \/ CreateFails(p)
        \/ Unlink(p) \/ Unlink2(p)
        \/ \E q \in Paths : Link(p, q)
        \/ Link2(p) \/ LinkFails(p) \/ LinkBad(p)
    \/ Crash

Spec == Init /\ [][Next]_vars

-----------------------------------------------------------------------------
Dirs == {d \in Inums : ino[d].type = "dir"}

(* Directory entries that refer to inode i: the names, and the ".." of the *)
(* directories that have a name themselves.                                *)
Named(d) == \E n \in Names : ino[ino[d].up].ents[n] = d
Entries(i) == {e \in Dirs \X Names : ino[e[1]].ents[e[2]] = i}
              \cup {<<d, "..">> : d \in {c \in Dirs : ino[c].up = i /\ Named(c)}}

(* References that processes hold to inode i. *)
RefsHeld(i) == Cardinality({p \in Procs : cwd[p] = i})
             + Cardinality({p \in Procs : fd[p] = i})
             + Cardinality({p \in Procs : cur[p] = i})
             + Cardinality({p \in Procs : ip[p] = i})

(* ip->ref counts the references to the inode: current directories, open   *)
(* files and inodes in the hands of system calls, also after failures.     *)
InodeRefExact == TypeOK /\ \A i \in Inums : ino[i].ref = RefsHeld(i)

(* ilock finds a type: an inode that a process refers to is allocated, so  *)
(* the panic "ilock: no type" is not reached.                              *)
ReferencedIsAllocated == \A i \in Inums : ino[i].ref > 0 => ino[i].type # "free"

(* No inode is freed while an entry of an allocated directory names it:    *)
(* its link count is never below the number of entries, whichever calls    *)
(* are under way and whichever of them fail.                               *)
LinksCoverEntries == \A i \in Inums : ino[i].nlink >= Cardinality(Entries(i))

(* No inode is freed too late: an allocated inode without links has a      *)
(* reference, whose iput will free it, and a crash leaves none.            *)
OrphanHasReference ==
    \A i \in Inums : ino[i].type # "free" /\ ino[i].nlink = 0 => ino[i].ref > 0

(* Directories form a tree: a directory has at most one entry that names   *)
(* it, and its ".." is the directory of that entry.                        *)
DirectoriesFormTree ==
    \A d \in Dirs : \A e \in Dirs, n \in Names :
        ino[e].ents[n] = d =>
            /\ ino[d].up = e
            /\ \A e2 \in Dirs, n2 \in Names :
                  ino[e2].ents[n2] = d => e2 = e /\ n2 = n

(* An inode is freed neither too early nor too late. *)
FreedInTime == LinksCoverEntries /\ OrphanHasReference
=============================================================================
