------------------------------ MODULE Umalloc ------------------------------
(***************************************************************************)
(* The allocator of user programs (user/umalloc.c): a circular list of     *)
(* free blocks in the order of their addresses, searched from where the    *)
(* last search ended.  Memory is counted in units of a header; a pointer   *)
(* is the address of a header.                                             *)
(***************************************************************************)
EXTENDS Naturals, FiniteSets, FiniteSetsExt, Functions, TLC

CONSTANTS
    HeaderSize,     \* sizeof(Header)
    MinUnits,       \* fewest units that morecore asks for (4096)
    MaxBreak,       \* units a program can have
    Requests,       \* arguments of malloc, in bytes
    OwnUnits        \* arguments of the program's own calls of sbrk

ASSUME AllocatorSizes ==
    /\ {HeaderSize, MinUnits} \subseteq Nat \ {0} /\ MaxBreak \in Nat
    /\ Requests \subseteq Nat /\ OwnUnits \subseteq Nat \ {0}

base == 0           \* the static header, below the heap
NULL == MaxBreak + 1

VARIABLE
    heap            \* size of each block; next block of each free one; freep;
                    \* the break; units that the program itself took from sbrk

NoHeap == [size |-> <<>>, next |-> <<>>, freep |-> NULL, brk |-> 1, own |-> {}]

FreeBlocks(h) == DOMAIN h.next \ {base}
Allocated(h) == DOMAIN h.size \ DOMAIN h.next

HeapTypeOK ==
    /\ heap.brk \in 1 .. MaxBreak + 1 /\ heap.own \subseteq 1 .. heap.brk - 1
    /\ heap.freep \in DOMAIN heap.next \cup {NULL}
    /\ DOMAIN heap.next \subseteq DOMAIN heap.size
    /\ DOMAIN heap.size \subseteq 0 .. heap.brk - 1
    /\ Range(heap.next) \subseteq DOMAIN heap.next

-----------------------------------------------------------------------------
(* free: find the free blocks p and p->s.ptr between which bp belongs ...  *)
Between(h, p, bp) ==
    \/ p < bp /\ bp < h.next[p]
    \/ p >= h.next[p] /\ (bp > p \/ bp < h.next[p])

RECURSIVE Place(_, _, _)
Place(h, p, bp) == IF Between(h, p, bp) THEN p ELSE Place(h, h.next[p], bp)

(* ... join it with the block above it, or link it to that ... *)
Without(f, a) == Restrict(f, DOMAIN f \ {a})
JoinAbove(h, p, bp) ==
    LET up == h.next[p] IN
    IF bp + h.size[bp] = up
    THEN [h EXCEPT !.size = Without([@ EXCEPT ![bp] = @ + h.size[up]], up),
                   !.next = Without(@, up) @@ (bp :> h.next[up])]
    ELSE [h EXCEPT !.next = @ @@ (bp :> up)]

(* ... and with the block below it. *)
JoinBelowNever(h, p, bp) == [h EXCEPT !.next[p] = bp, !.freep = p]
JoinBelow(h, p, bp) ==
    IF p + h.size[p] = bp
    THEN [h EXCEPT !.size = Without([@ EXCEPT ![p] = @ + h.size[bp]], bp),
                   !.next = Without([@ EXCEPT ![p] = h.next[bp]], bp), !.freep = p]
    ELSE [h EXCEPT !.next[p] = bp, !.freep = p]

Insert(h, p, bp) == JoinBelow(JoinAbove(h, p, bp), p, bp)
ufree(h, bp) == Insert(h, Place(h, h.freep, bp), bp)

(* morecore: a new block of at least MinUnits, put on the free list. *)
CoreUnits(nu) == Max({nu, MinUnits})
morecore(h, nu) ==
    ufree([h EXCEPT !.size = @ @@ (h.brk :> nu), !.brk = @ + nu], h.brk)

(* malloc: take a block of n units out of p, all of it or its tail ... *)
Take(h, prevp, p, n) ==
    IF h.size[p] = n
    THEN [h EXCEPT !.next = Without([@ EXCEPT ![prevp] = h.next[p]], p), !.freep = prevp]
    ELSE [h EXCEPT !.size = [@ EXCEPT ![p] = @ - n] @@ (p + h.size[p] - n :> n),
                   !.freep = prevp]

(* ... the first that is large enough after freep.  Having come round the  *)
(* search asks for more core, which more grants or not.                    *)
FitsLarger(h, p, n) == h.size[p] > n
Fits(h, p, n) == h.size[p] >= n

RECURSIVE Search(_, _, _, _, _)
Resume(h, n, more) == Search(h, h.freep, h.next[h.freep], n, more)
Search(h, prevp, p, n, more) ==
    IF Fits(h, p, n) THEN Take(h, prevp, p, n)
    ELSE IF p # h.freep THEN Search(h, p, h.next[p], n, more)
    ELSE IF ~ more \/ h.brk + CoreUnits(n) > MaxBreak + 1 THEN h
    ELSE Resume(morecore(h, CoreUnits(n)), n, more)

Started(h) ==
    IF h.freep # NULL THEN h
    ELSE [h EXCEPT !.size = (base :> 0), !.next = (base :> base), !.freep = base]

-----------------------------------------------------------------------------
Malloc(nbytes, more) ==
    LET nunits == (nbytes + HeaderSize - 1) \div HeaderSize + 1
    IN heap' = Resume(Started(heap), nunits, more)

Free(a) ==
    /\ a \in Allocated(heap)
    /\ heap' = ufree(heap, a)

(* The program calls sbrk itself, so that the heap has gaps. *)
OwnSbrk(n) ==
    /\ heap.brk + n <= MaxBreak + 1
    /\ heap' = [heap EXCEPT !.brk = @ + n, !.own = @ \cup heap.brk .. heap.brk + n - 1]

HeapNext ==
    \/ \E n \in Requests, more \in BOOLEAN : Malloc(n, more)
    \/ \E a \in 1 .. MaxBreak : Free(a)
    \/ \E n \in OwnUnits : OwnSbrk(n)

-----------------------------------------------------------------------------
Units(h, a) == a .. a + h.size[a] - 1

(* No unit of memory is lost or given out twice: whatever the sequence of  *)
(* calls, every unit below the break lies in exactly one block or is the   *)
(* program's own.                                                          *)
UnitsAccounted ==
    /\ HeapTypeOK
    /\ \A u \in 1 .. heap.brk - 1 :
          Cardinality({a \in DOMAIN heap.size : u \in Units(heap, a)})
              = IF u \in heap.own THEN 0 ELSE 1
    /\ \A a \in DOMAIN heap.size : Units(heap, a) \subseteq 1 .. heap.brk - 1

(* The free list is a ring in the order of addresses, on which no two      *)
(* blocks touch: free always coalesces.                                    *)
Successor(S, a) == IF \E b \in S : b > a THEN Min({b \in S : b > a}) ELSE Min(S)

FreeListOrdered ==
    \A p \in DOMAIN heap.next :
        /\ heap.next[p] = Successor(DOMAIN heap.next, p)
        /\ p # base => p + heap.size[p] # heap.next[p]

(* The heap is well formed after every sequence of malloc, free and sbrk.  *)
HeapSafe == UnitsAccounted /\ FreeListOrdered

(* malloc asks for more memory only when no free block is large enough,    *)
(* although the search starts in the middle of the list; and no call       *)
(* changes a block that is allocated.                                      *)
GrowsOnlyWhenNeeded ==
    [][/\ \A a \in Allocated(heap') \ Allocated(heap) :
             heap'.brk > heap.brk =>
                 \A p \in FreeBlocks(heap) : heap.size[p] < heap'.size[a]
       /\ \A a \in Allocated(heap) \cap Allocated(heap') :
             heap'.size[a] = heap.size[a]]_heap
=============================================================================
