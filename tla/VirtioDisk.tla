----------------------------- MODULE VirtioDisk -----------------------------
(***************************************************************************)
(* The virtio disk driver (kernel/virtio_disk.c): virtio_disk_rw, run by   *)
(* processes that each bring a buffer, virtio_disk_intr, and the device    *)
(* they share two rings with.  The device serves requests in any order.    *)
(* The parts of the driver that hold vdisk_lock without sleeping are one   *)
(* step each, except the interrupt handler's loop, which the device races. *)
(***************************************************************************)
EXTENDS Naturals, FiniteSets, FiniteSetsExt

CONSTANTS
    Procs,          \* processes, and the buffers they bring
    NUM,            \* descriptors, and entries of each ring
    IdxMod,         \* ring indices are counted modulo this (2^16 in C)
    NoBuf           \* a null buffer pointer

ASSUME SizesAreNat == NUM \in Nat \ {0} /\ IdxMod \in Nat /\ IdxMod > NUM /\ IdxMod % NUM = 0
ASSUME NoBufFresh == NoBuf \notin Procs

Descs == 0 .. NUM - 1

(* What a ring entry holds once its reader is done with it.  C keeps the   *)
(* old number there; forgetting it keeps the states few and makes reading  *)
(* an entry a second time an error, whatever the old number would do.      *)
Stale == NUM

VARIABLES
    free,           \* disk.free: the descriptors marked free
    desc,           \* disk.desc: what each names, and the next of its chain
    infoB,          \* disk.info[].b
    infoStatus,     \* disk.info[].status
    avail, availIdx,\* the ring of requests, and the driver's index
    used, usedIdx,  \* the ring of completions, and the device's index
    used_idx,       \* how far the driver has looked in the used ring
    bdisk,          \* b->disk: the disk owns the buffer
    pc,             \* where each process is in virtio_disk_rw
    idx0,           \* the local variable idx[0] of virtio_disk_rw
    handler,        \* where virtio_disk_intr is; it holds vdisk_lock
    interrupt,      \* 1 while the device's interrupt line is raised
    taken,          \* how far the device has looked in the avail ring
    inflight,       \* chains the device has taken and not completed
    transfers,      \* transfers made for each process's current request
    panicked        \* free_desc or virtio_disk_intr panicked

ringVars == <<avail, availIdx, used, usedIdx, used_idx>>
deviceVars == <<taken, inflight, transfers>>
vars == <<free, desc, infoB, infoStatus, ringVars, bdisk, pc, idx0, handler,
          interrupt, deviceVars, panicked>>

(* A descriptor: the header of a request, a process's buffer or a status   *)
(* byte; next is the one that follows unless the descriptor is the last.   *)
Unset == [addr |-> "none", buf |-> NoBuf, next |-> 0, last |-> 1]
Desc == [addr : {"none", "request", "data", "status"}, buf : Procs \cup {NoBuf},
         next : Descs, last : {0, 1}]

TypeOK ==
    /\ free \in SUBSET Descs
    /\ desc \in [Descs -> Desc]
    /\ infoB \in [Descs -> Procs \cup {NoBuf}]
    /\ infoStatus \in [Descs -> {"ok", "pending"}]
    /\ avail \in [Descs -> Descs \cup {Stale}]
    /\ used \in [Descs -> Descs \cup {Stale}]
    /\ {availIdx, usedIdx, used_idx, taken} \subseteq 0 .. IdxMod - 1
    /\ bdisk \in [Procs -> {0, 1}]
    /\ pc \in [Procs -> {"idle", "nodesc", "wait", "woken"}]
    /\ idx0 \in [Procs -> Descs]
    /\ handler \in {"off", "loop", "done"} /\ interrupt \in {0, 1} /\ panicked \in {0, 1}
    /\ inflight \in SUBSET Descs
    /\ transfers \in [Procs -> 0 .. 1]

(* virtio_disk_init *)
Init ==
    /\ free = Descs
    /\ desc = [i \in Descs |-> Unset]
    /\ infoB = [i \in Descs |-> NoBuf]
    /\ infoStatus = [i \in Descs |-> "ok"]
    /\ avail = [i \in Descs |-> Stale] /\ availIdx = 0
    /\ used = [i \in Descs |-> Stale] /\ usedIdx = 0 /\ used_idx = 0
    /\ bdisk = [p \in Procs |-> 0]
    /\ pc = [p \in Procs |-> "idle"]
    /\ idx0 = [p \in Procs |-> 0]
    /\ handler = "off" /\ interrupt = 0 /\ panicked = 0
    /\ taken = 0 /\ inflight = {} /\ transfers = [p \in Procs |-> 0]

-----------------------------------------------------------------------------
IdxAfter(i) == (i + 1) % IdxMod

(* free_desc wakes all processes asleep on &disk.free[0]. *)
WokenFromNodesc == [q \in Procs |-> IF pc[q] = "nodesc" THEN "idle" ELSE pc[q]]

(* alloc3_desc: the three lowest free descriptors ... *)
Three == LET a == Min(free)  b == Min(free \ {a}) IN <<a, b, Min(free \ {a, b})>>

(* ... or none: what was allocated is freed again, which wakes the others  *)
(* before this process goes to sleep.                                      *)
NoDescriptors(p) ==
    /\ pc[p] = "idle"
    /\ handler = "off"
    /\ Cardinality(free) < 3
    /\ desc' = [i \in Descs |-> IF i \in free THEN Unset ELSE desc[i]]
    /\ pc' = [(IF free = {} THEN pc ELSE WokenFromNodesc) EXCEPT ![p] = "nodesc"]
    /\ UNCHANGED <<free, infoB, infoStatus, ringVars, bdisk, idx0, handler,
                   interrupt, deviceVars, panicked>>

(* The chain for p's buffer: request header, data, status. *)
ChainTwo(p, i) ==
    [desc EXCEPT
        ![i[1]] = [addr |-> "request", buf |-> p, next |-> i[2], last |-> 0],
        ![i[2]] = [addr |-> "data", buf |-> p, next |-> i[3], last |-> 1],
        ![i[3]] = [addr |-> "status", buf |-> p, next |-> 0, last |-> 1]]
Chain(p, i) ==
    [desc EXCEPT
        ![i[1]] = [addr |-> "request", buf |-> p, next |-> i[2], last |-> 0],
        ![i[2]] = [addr |-> "data", buf |-> p, next |-> i[3], last |-> 0],
        ![i[3]] = [addr |-> "status", buf |-> p, next |-> 0, last |-> 1]]

(* virtio_disk_rw up to its wait: the request is in the avail ring and the *)
(* device notified.                                                        *)
Submit(p) ==
    /\ pc[p] = "idle"
    /\ handler = "off"
    /\ Cardinality(free) >= 3
    /\ free' = free \ {Three[1], Three[2], Three[3]}
    /\ desc' = Chain(p, Three)
    /\ infoStatus' = [infoStatus EXCEPT ![Three[1]] = "pending"]
    /\ infoB' = [infoB EXCEPT ![Three[1]] = p]
    /\ bdisk' = [bdisk EXCEPT ![p] = 1]
    /\ avail' = [avail EXCEPT ![availIdx % NUM] = Three[1]]
    /\ availIdx' = IdxAfter(availIdx)
    /\ idx0' = [idx0 EXCEPT ![p] = Three[1]]
    /\ pc' = [pc EXCEPT ![p] = "wait"]
    /\ transfers' = [transfers EXCEPT ![p] = 0]
    /\ UNCHANGED <<used, usedIdx, used_idx, handler, interrupt, taken, inflight,
                   panicked>>

(* free_chain follows the chain from its head; no chain has more than      *)
(* three descriptors.                                                      *)
ChainOf(i) ==
    LET Following(j) == IF desc[j].last = 1 THEN {} ELSE {desc[j].next}
        second == Following(i)
    IN {i} \cup second \cup UNION {Following(j) : j \in second}

(* Awake and vdisk_lock taken: the request is done, and its chain is freed *)
(* (free_desc panics if a descriptor of it is free already) ...            *)
Finish(p) ==
    /\ pc[p] = "woken"
    /\ handler = "off"
    /\ bdisk[p] = 0
    /\ infoB' = [infoB EXCEPT ![idx0[p]] = NoBuf]
    /\ free' = free \cup ChainOf(idx0[p])
    /\ desc' = [i \in Descs |-> IF i \in ChainOf(idx0[p]) THEN Unset ELSE desc[i]]
    /\ panicked' = IF ChainOf(idx0[p]) \cap free = {} THEN 0 ELSE 1
    /\ pc' = [WokenFromNodesc EXCEPT ![p] = "idle"]
    /\ UNCHANGED <<infoStatus, ringVars, bdisk, idx0, handler, interrupt, deviceVars>>

(* ... or it is not, and the process sleeps again. *)
WaitAgain(p) ==
    /\ pc[p] = "woken"
    /\ handler = "off"
    /\ bdisk[p] = 1
    /\ pc' = [pc EXCEPT ![p] = "wait"]
    /\ UNCHANGED <<free, desc, infoB, infoStatus, ringVars, bdisk, idx0, handler,
                   interrupt, deviceVars, panicked>>

(* kkill() makes any sleeping process RUNNABLE, whatever it waits for. *)
KillWakes(p) ==
    /\ pc[p] \in {"wait", "nodesc"}
    /\ pc' = [pc EXCEPT ![p] = IF @ = "wait" THEN "woken" ELSE "idle"]
    /\ UNCHANGED <<free, desc, infoB, infoStatus, ringVars, bdisk, idx0, handler,
                   interrupt, deviceVars, panicked>>

-----------------------------------------------------------------------------
(* virtio_disk_intr: acknowledge, then walk the used ring to the device's  *)
(* index as it is at each turn of the loop.                                *)
IntrBegin ==
    /\ interrupt = 1
    /\ handler = "off"
    /\ handler' = "loop"
    /\ interrupt' = 0
    /\ UNCHANGED <<free, desc, infoB, infoStatus, ringVars, bdisk, pc, idx0,
                   deviceVars, panicked>>

UsedEntryFirst == used[0]
UsedEntry == used[used_idx % NUM]

IntrEntry ==
    /\ handler = "loop"
    /\ used_idx # usedIdx
    /\ IF UsedEntry = Stale \/ infoStatus[UsedEntry] # "ok"
       THEN panicked' = 1 /\ UNCHANGED <<bdisk, pc>>
       ELSE LET b == infoB[UsedEntry] IN
            /\ bdisk' = [bdisk EXCEPT ![b] = 0]
            /\ pc' = [pc EXCEPT ![b] = IF @ = "wait" THEN "woken" ELSE @]
            /\ UNCHANGED panicked
    /\ used' = [used EXCEPT ![used_idx % NUM] = Stale]
    /\ used_idx' = IdxAfter(used_idx)
    /\ UNCHANGED <<free, desc, infoB, infoStatus, avail, availIdx, usedIdx, idx0,
                   handler, interrupt, deviceVars>>

IntrLoopEnds ==
    /\ handler = "loop"
    /\ used_idx = usedIdx
    /\ handler' = "done"
    /\ UNCHANGED <<free, desc, infoB, infoStatus, ringVars, bdisk, pc, idx0,
                   interrupt, deviceVars, panicked>>

IntrEndAcknowledges ==
    /\ handler = "done"
    /\ handler' = "off"
    /\ interrupt' = 0
    /\ UNCHANGED <<free, desc, infoB, infoStatus, ringVars, bdisk, pc, idx0,
                   deviceVars, panicked>>
IntrEnd ==
    /\ handler = "done"
    /\ handler' = "off"
    /\ UNCHANGED <<free, desc, infoB, infoStatus, ringVars, bdisk, pc, idx0,
                   interrupt, deviceVars, panicked>>

-----------------------------------------------------------------------------
(* The device: takes requests in the order of the ring, completes them in  *)
(* any order, and raises its interrupt line for each completion.           *)
DeviceTake ==
    /\ taken # availIdx
    /\ inflight' = inflight \cup {avail[taken % NUM]}
    /\ avail' = [avail EXCEPT ![taken % NUM] = Stale]
    /\ taken' = IdxAfter(taken)
    /\ UNCHANGED <<free, desc, infoB, infoStatus, availIdx, used, usedIdx, used_idx,
                   bdisk, pc, idx0, handler, interrupt, transfers, panicked>>

DeviceComplete(i) ==
    /\ i \in inflight
    /\ desc[i].addr = "request"
    /\ LET d == desc[desc[i].next] IN
       transfers' = [transfers EXCEPT ![d.buf] = @ + 1]
    /\ infoStatus' = [infoStatus EXCEPT ![i] = "ok"]
    /\ used' = [used EXCEPT ![usedIdx % NUM] = i]
    /\ usedIdx' = IdxAfter(usedIdx)
    /\ inflight' = inflight \ {i}
    /\ interrupt' = 1
    /\ UNCHANGED <<free, desc, infoB, avail, availIdx, used_idx, bdisk, pc, idx0,
                   handler, taken, panicked>>

Next ==
    /\ panicked = 0
    /\ \/ \E p \in Procs : \/ NoDescriptors(p) \/ Submit(p)
                           \/ Finish(p) \/ WaitAgain(p) \/ KillWakes(p)
       \/ IntrBegin \/ IntrEntry \/ IntrLoopEnds \/ IntrEnd
       \/ DeviceTake \/ \E i \in Descs : DeviceComplete(i)

Spec == Init /\ [][Next]_vars

-----------------------------------------------------------------------------
(* Completions the driver has not looked at. *)
Unseen == {used[(used_idx + k) % NUM] :
             k \in {j \in Descs : j < (usedIdx + IdxMod - used_idx) % IdxMod}}

Submitted == {p \in Procs : pc[p] \in {"wait", "woken"}}

(* Every descriptor is free or in the chain of exactly one request, so no  *)
(* request loses a descriptor, none is lost for good, and free_desc and    *)
(* virtio_disk_intr do not reach their panics although the indices wrap.   *)
DescriptorsAccounted ==
    /\ TypeOK /\ panicked = 0
    /\ \A p, q \in Submitted : p # q => ChainOf(idx0[p]) \cap ChainOf(idx0[q]) = {}
    /\ free = Descs \ UNION {ChainOf(idx0[p]) : p \in Submitted}

(* virtio_disk_rw returns only after the device made this request's        *)
(* transfer, and the device makes it once: a completion is attributed to   *)
(* the buffer it belongs to although chains are reused and completions     *)
(* arrive in another order than requests.                                  *)
DoneMeansTransferred ==
    \A p \in Submitted :
        bdisk[p] = 0 <=> transfers[p] = 1 /\ idx0[p] \notin Unseen

(* Nobody is left asleep in virtio_disk_rw: a process waits for            *)
(* descriptors only while fewer than three are free, and for its buffer    *)
(* only while its completion has not been seen; and once the handler has   *)
(* left its loop, the line is raised for every completion not seen.        *)
SleepersHaveCause ==
    /\ \A p \in Procs : /\ pc[p] = "nodesc" => Cardinality(free) < 3
                        /\ pc[p] = "wait" => bdisk[p] = 1
    /\ handler # "loop" /\ used_idx # usedIdx => interrupt = 1
=============================================================================
