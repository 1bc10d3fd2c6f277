----------------------------- MODULE PipeProofs -----------------------------
(***************************************************************************)
(* Theorems about Pipe, for any number of readers and writers and any size *)
(* of the buffer: nobody sleeps on a pipe that is ready, nobody uses one   *)
(* that is freed, and the pipe is a queue although its counters wrap.      *)
(***************************************************************************)
EXTENDS Pipe, RingLemmas, SequenceTheorems, TLAPS

(* pi->lock is held exactly by who is between its acquire and release. *)
HoldsLock(p) == pc[p] \in {"loop", "full", "empty", "copy"}
HolderInv == \A p \in Procs : HoldsLock(p) <=> lock = p

(* What a process about to sleep has seen is still so. *)
SeenInv ==
    \A p \in Procs :
        /\ pc[p] = "full" => p \in Writers /\ Full /\ readopen = 1
        /\ pc[p] = "empty" => p \in Readers /\ Empty /\ writeopen = 1
        /\ pc[p] = "copy" => p \in Readers

(* An end is closed once no descriptor is left for it. *)
OpenInv ==
    /\ \A p \in Procs : p \notin open => pc[p] = "idle"
    /\ readopen = 0 => open \cap Readers = {}
    /\ writeopen = 0 => open \cap Writers = {}
    /\ freed = 1 => readopen = 0 /\ writeopen = 0

ReaderHasCause(r) ==
    \/ Empty /\ writeopen = 1
    \/ lock \in Writers /\ pc[lock] = "loop"
    \/ writeopen = 1 /\ \E w \in Writers : killed[w] = 1
WriterHasCause(w) ==
    \/ Full /\ readopen = 1
    \/ lock \in Readers /\ pc[lock] = "copy"
CauseInv ==
    /\ \A r \in Readers : pc[r] = "asleep" => ReaderHasCause(r)
    /\ \A w \in Writers : pc[w] = "asleep" => WriterHasCause(w)

PipeInv == TypeOK /\ HolderInv /\ SeenInv /\ OpenInv /\ CauseInv

(* The counters stay below their modulus and index the buffer. *)
LEMMA CountersStay ==
    ASSUME NEW x \in Nat, NEW y \in Nat
    PROVE  Add(x, y) \in 0 .. UintMod - 1 /\ x % PIPESIZE \in 0 .. PIPESIZE - 1
BY SizesAreNat DEF Add

(* pipealloc establishes the invariant. *)
LEMMA PipeInitEstablishes == Init => PipeInv
<1> SUFFICES ASSUME Init PROVE PipeInv
  OBVIOUS
<1> USE SizesAreNat, EndsDisjoint, BytesExist DEF Init, Procs
<1>1. TypeOK
  BY DEF TypeOK
<1>2. HolderInv /\ SeenInv /\ OpenInv /\ CauseInv
  BY DEF HolderInv, HoldsLock, SeenInv, OpenInv, CauseInv
<1> QED
  BY <1>1, <1>2 DEF PipeInv

(* A call begins. *)
LEMMA CallStep ==
    ASSUME PipeInv, NEW p \in Procs, NEW k \in 1 .. MaxN, Call(p, k)
    PROVE  PipeInv'
<1> USE DEF PipeInv, pipeVars, Call
<1>1. TypeOK'
  BY SizesAreNat DEF TypeOK
<1>2. HolderInv'
  BY DEF HolderInv, HoldsLock
<1>3. SeenInv'
  BY DEF SeenInv, Full, Empty
<1>4. OpenInv'
  BY DEF OpenInv
<1>5. CauseInv'
  BY DEF CauseInv, ReaderHasCause, WriterHasCause, Full, Empty
<1> QED
  BY <1>1, <1>2, <1>3, <1>4, <1>5

(* acquire(&pi->lock). *)
LEMMA AcquireStep ==
    ASSUME PipeInv, NEW p \in Procs, Acquire(p)
    PROVE  PipeInv'
<1> USE EndsDisjoint DEF PipeInv, pipeVars, Acquire
<1>1. TypeOK'
  BY DEF TypeOK
<1>2. HolderInv'
  BY DEF TypeOK, HolderInv, HoldsLock
<1>3. SeenInv'
  BY DEF SeenInv, HolderInv, HoldsLock
<1>4. OpenInv'
  BY DEF OpenInv
<1>5. CauseInv'
  BY DEF CauseInv, ReaderHasCause, WriterHasCause, Full, Empty, Procs
<1> QED
  BY <1>1, <1>2, <1>3, <1>4, <1>5

(* pipewrite gives up: no reader is left, or the writer is killed. *)
LEMMA WriteAbortsStep ==
    ASSUME PipeInv, NEW p \in Procs, WriteAborts(p)
    PROVE  PipeInv'
<1> USE EndsDisjoint DEF PipeInv, pipeVars, WriteAborts, Forget
<1>1. TypeOK'
  BY SizesAreNat DEF TypeOK
<1>2. HolderInv'
  BY DEF TypeOK, HolderInv, HoldsLock
<1>3. SeenInv'
  BY DEF SeenInv, HolderInv, HoldsLock
<1>4. OpenInv'
  BY DEF OpenInv
<1>5. CauseInv'
  BY DEF TypeOK, CauseInv, ReaderHasCause, WriterHasCause, HolderInv, HoldsLock,
     OpenInv, Full, Procs
<1> QED
  BY <1>1, <1>2, <1>3, <1>4, <1>5

(* pipewrite finds the pipe full and wakes the readers. *)
LEMMA WriteFullStep ==
    ASSUME PipeInv, NEW p \in Procs, WriteFull(p)
    PROVE  PipeInv'
<1> USE DEF PipeInv, pipeVars, WriteFull, Wakeup
<1>1. TypeOK'
  BY DEF TypeOK
<1>2. HolderInv'
  BY DEF HolderInv, HoldsLock
<1>3. SeenInv'
  BY DEF SeenInv, HolderInv, HoldsLock, Full
<1>4. OpenInv'
  BY DEF OpenInv
<1>5. CauseInv'
  BY DEF CauseInv, WriterHasCause, Full, Procs
<1> QED
  BY <1>1, <1>2, <1>3, <1>4, <1>5

(* pipewrite stores a byte. *)
LEMMA WriteByteStep ==
    ASSUME PipeInv, NEW p \in Procs, NEW b \in Bytes, WriteByte(p, b)
    PROVE  PipeInv'
<1> USE DEF PipeInv, WriteByte
<1>1. TypeOK'
  <2>1. nwrite' \in 0 .. UintMod - 1 /\ nwrite % PIPESIZE \in 0 .. PIPESIZE - 1
    BY CountersStay DEF TypeOK
  <2>2. i[p] + 1 \in 0 .. MaxN
    BY SizesAreNat DEF TypeOK
  <2> QED
    BY <2>1, <2>2 DEF TypeOK
<1>2. HolderInv'
  BY DEF HolderInv, HoldsLock
<1>3. SeenInv'
  BY DEF SeenInv, HolderInv, HoldsLock
<1>4. OpenInv'
  BY DEF OpenInv
<1>5. CauseInv'
  BY DEF CauseInv, ReaderHasCause, WriterHasCause, HolderInv, HoldsLock
<1> QED
  BY <1>1, <1>2, <1>3, <1>4, <1>5

(* pipewrite wakes the readers and returns. *)
LEMMA WriteReturnsStep ==
    ASSUME PipeInv, NEW p \in Procs, WriteReturns(p)
    PROVE  PipeInv'
<1> USE EndsDisjoint DEF PipeInv, pipeVars, WriteReturns, Wakeup, Forget
<1>1. TypeOK'
  BY SizesAreNat DEF TypeOK
<1>2. HolderInv'
  BY DEF HolderInv, HoldsLock
<1>3. SeenInv'
  BY DEF SeenInv, HolderInv, HoldsLock
<1>4. OpenInv'
  BY DEF OpenInv
<1>5. CauseInv'
  BY DEF CauseInv, WriterHasCause, HolderInv, HoldsLock, Full, Procs
<1> QED
  BY <1>1, <1>2, <1>3, <1>4, <1>5

(* piperead gives up: the reader is killed. *)
LEMMA ReadKilledStep ==
    ASSUME PipeInv, NEW p \in Procs, ReadKilled(p)
    PROVE  PipeInv'
<1> USE EndsDisjoint DEF PipeInv, pipeVars, ReadKilled, Forget
<1>1. TypeOK'
  BY SizesAreNat DEF TypeOK
<1>2. HolderInv'
  BY DEF TypeOK, HolderInv, HoldsLock
<1>3. SeenInv'
  BY DEF SeenInv, HolderInv, HoldsLock
<1>4. OpenInv'
  BY DEF OpenInv
<1>5. CauseInv'
  BY DEF CauseInv, ReaderHasCause, WriterHasCause, HolderInv, HoldsLock, Full, Empty
<1> QED
  BY <1>1, <1>2, <1>3, <1>4, <1>5

(* piperead finds the pipe empty. *)
LEMMA ReadEmptyStep ==
    ASSUME PipeInv, NEW p \in Procs, ReadEmpty(p)
    PROVE  PipeInv'
<1> USE DEF PipeInv, pipeVars, ReadEmpty
<1>1. TypeOK'
  BY DEF TypeOK
<1>2. HolderInv'
  BY DEF HolderInv, HoldsLock
<1>3. SeenInv'
  BY DEF SeenInv, HolderInv, HoldsLock, Empty
<1>4. OpenInv'
  BY DEF OpenInv
<1>5. CauseInv'
  BY DEF CauseInv, ReaderHasCause, WriterHasCause, Full, Empty
<1> QED
  BY <1>1, <1>2, <1>3, <1>4, <1>5

(* piperead starts to copy. *)
LEMMA ReadBeginsStep ==
    ASSUME PipeInv, NEW p \in Procs, ReadBegins(p)
    PROVE  PipeInv'
<1> USE EndsDisjoint DEF PipeInv, pipeVars, ReadBegins
<1>1. TypeOK'
  BY DEF TypeOK
<1>2. HolderInv'
  BY DEF HolderInv, HoldsLock
<1>3. SeenInv'
  BY DEF SeenInv, HolderInv, HoldsLock
<1>4. OpenInv'
  BY DEF OpenInv
<1>5. CauseInv'
  BY DEF CauseInv, ReaderHasCause, WriterHasCause, HoldsLock, Full
<1> QED
  BY <1>1, <1>2, <1>3, <1>4, <1>5

(* piperead takes a byte. *)
LEMMA ReadByteStep ==
    ASSUME PipeInv, NEW p \in Procs, ReadByte(p)
    PROVE  PipeInv'
<1> USE DEF PipeInv, ReadByte
<1>1. TypeOK'
  <2>1. nread' \in 0 .. UintMod - 1 /\ nread % PIPESIZE \in 0 .. PIPESIZE - 1
    BY CountersStay DEF TypeOK
  <2>2. i[p] + 1 \in 0 .. MaxN
    BY SizesAreNat DEF TypeOK
  <2>3. p \in Readers
    BY DEF SeenInv
  <2> QED
    BY <2>1, <2>2, <2>3 DEF TypeOK
<1>2. HolderInv'
  BY DEF HolderInv, HoldsLock
<1>3. SeenInv'
  BY DEF SeenInv, HolderInv, HoldsLock
<1>4. OpenInv'
  BY DEF OpenInv
<1>5. CauseInv'
  BY DEF CauseInv, ReaderHasCause, WriterHasCause, HolderInv, HoldsLock, SeenInv
<1> QED
  BY <1>1, <1>2, <1>3, <1>4, <1>5

(* piperead wakes the writers and returns. *)
LEMMA ReadReturnsStep ==
    ASSUME PipeInv, NEW p \in Procs, ReadReturns(p)
    PROVE  PipeInv'
<1> USE EndsDisjoint DEF PipeInv, pipeVars, ReadReturns, Wakeup, Forget
<1>1. TypeOK'
  BY SizesAreNat DEF TypeOK
<1>2. HolderInv'
  BY DEF HolderInv, HoldsLock
<1>3. SeenInv'
  BY DEF SeenInv, HolderInv, HoldsLock
<1>4. OpenInv'
  BY DEF OpenInv
<1>5. CauseInv'
  BY DEF CauseInv, ReaderHasCause, HolderInv, HoldsLock, Empty, Procs
<1> QED
  BY <1>1, <1>2, <1>3, <1>4, <1>5

(* sleep() releases the lock. *)
LEMMA SleepStep ==
    ASSUME PipeInv, NEW p \in Procs, Sleep(p)
    PROVE  PipeInv'
<1> USE EndsDisjoint DEF PipeInv, pipeVars, Sleep
<1>1. TypeOK'
  BY DEF TypeOK
<1>2. HolderInv'
  BY DEF TypeOK, HolderInv, HoldsLock
<1>3. SeenInv'
  BY DEF TypeOK, SeenInv, HolderInv, HoldsLock
<1>4. OpenInv'
  BY DEF OpenInv
<1>5. CauseInv'
  BY DEF CauseInv, ReaderHasCause, WriterHasCause, HolderInv, HoldsLock, SeenInv,
     Full, Empty, Procs
<1> QED
  BY <1>1, <1>2, <1>3, <1>4, <1>5

(* pipeclose. *)
LEMMA CloseStep ==
    ASSUME PipeInv, NEW p \in Procs, Close(p)
    PROVE  PipeInv'
<1> USE EndsDisjoint DEF PipeInv, Close, LastOf, Wakeup
<1>1. TypeOK'
  BY DEF TypeOK
<1>2. HolderInv'
  BY DEF HolderInv, HoldsLock
<1>3. SeenInv'
  BY DEF SeenInv, HolderInv, HoldsLock
<1>4. OpenInv'
  BY DEF OpenInv
<1>5. CauseInv'
  BY DEF CauseInv, ReaderHasCause, WriterHasCause, Full, Empty, Procs
<1> QED
  BY <1>1, <1>2, <1>3, <1>4, <1>5

(* kkill. *)
LEMMA KillStep ==
    ASSUME PipeInv, NEW p \in Procs, Kill(p)
    PROVE  PipeInv'
<1> USE DEF PipeInv, pipeVars, Kill
<1>1. TypeOK'
  BY DEF TypeOK
<1>2. HolderInv'
  BY DEF HolderInv, HoldsLock
<1>3. SeenInv'
  BY DEF SeenInv, Full, Empty
<1>4. OpenInv'
  BY DEF OpenInv
<1>5. CauseInv'
  BY DEF CauseInv, ReaderHasCause, WriterHasCause, HolderInv, SeenInv, OpenInv,
     Full, Empty
<1> QED
  BY <1>1, <1>2, <1>3, <1>4, <1>5

(* Steps that change nothing keep the invariant. *)
LEMMA PipeStutter == PipeInv /\ UNCHANGED vars => PipeInv'
BY DEF vars, pipeVars, PipeInv, TypeOK, HolderInv, HoldsLock, SeenInv, OpenInv,
   CauseInv, ReaderHasCause, WriterHasCause, Full, Empty

(* Every state of the pipe satisfies the invariant. *)
THEOREM PipeInvariant == Spec => []PipeInv
<1>1. PipeInv /\ [Next]_vars => PipeInv'
  <2> SUFFICES ASSUME PipeInv, Next PROVE PipeInv'
    BY PipeStutter
  <2> PICK p \in Procs :
        (\E k \in 1 .. MaxN : Call(p, k)) \/ InPipe(p) \/ Close(p) \/ Kill(p)
    BY DEF Next
  <2>1. CASE \E k \in 1 .. MaxN : Call(p, k)
    BY <2>1, CallStep
  <2>2. CASE InPipe(p)
    BY <2>2, AcquireStep, WriteAbortsStep, WriteFullStep, WriteReturnsStep,
       WriteByteStep, ReadKilledStep, ReadEmptyStep, ReadBeginsStep, ReadByteStep,
       ReadReturnsStep, SleepStep DEF InPipe
  <2>3. CASE Close(p) \/ Kill(p)
    BY <2>3, CloseStep, KillStep
  <2> QED
    BY <2>1, <2>2, <2>3
<1> QED
  BY PipeInitEstablishes, <1>1, PTL DEF Spec

(* Nobody sleeps in pipewrite or piperead without cause, and nobody is in  *)
(* a pipe that pipeclose has freed, or can call it again.                  *)
THEOREM PipeIsSafe == Spec => []PipeSafe
<1>1. PipeInv => PipeSafe
  BY DEF PipeInv, PipeSafe, NobodyStranded, NoUseAfterFree, CauseInv, OpenInv,
     ReaderHasCause, WriterHasCause, Procs, TypeOK
<1> QED
  BY PipeInvariant, <1>1, PTL

-----------------------------------------------------------------------------
(* The number of bytes in the pipe, and the full pipe, without wrapping. *)
LEMMA InFlightIs ==
    ASSUME TypeOK
    PROVE  /\ InFlight = IF nwrite >= nread THEN nwrite - nread
                         ELSE nwrite + UintMod - nread
           /\ InFlight \in 0 .. UintMod - 1
           /\ Full <=> InFlight = PIPESIZE
           /\ Empty <=> InFlight = 0
<1>1. nread \in 0 .. UintMod - 1 /\ nwrite \in 0 .. UintMod - 1 /\ UintMod \in Nat \ {0}
  BY SizesAreNat DEF TypeOK
<1>2. InFlight = IF nwrite >= nread THEN nwrite - nread ELSE nwrite + UintMod - nread
  BY <1>1 DEF InFlight
<1>3. Add(nread, PIPESIZE) = IF nread + PIPESIZE < UintMod THEN nread + PIPESIZE
                             ELSE nread + PIPESIZE - UintMod
  <2> DEFINE z == nread + PIPESIZE
  <2>1. z \in Nat /\ z < 2 * UintMod
    BY <1>1, SizesAreNat
  <2>2. z % UintMod = IF z < UintMod THEN z ELSE z - UintMod
    BY <1>1, <2>1
  <2> QED
    BY <1>1, SizesAreNat DEF Add
<1> QED
  BY <1>1, <1>2, <1>3, SizesAreNat DEF Full, Empty

(* The bytes in the pipe, as the refinement mapping sees them. *)
Queue == [k \in 1 .. InFlight |-> data[(nread + k - 1) % PIPESIZE]]

LEMMA RingIsSeq ==
    ASSUME NEW d \in [0 .. PIPESIZE - 1 -> Bytes], NEW r \in Nat, NEW m \in Nat
    PROVE  /\ [k \in 1 .. m |-> d[(r + k - 1) % PIPESIZE]] \in Seq(Bytes)
           /\ Len([k \in 1 .. m |-> d[(r + k - 1) % PIPESIZE]]) = m
<1>1. ASSUME NEW k \in 1 .. m PROVE d[(r + k - 1) % PIPESIZE] \in Bytes
  <2>1. r + k - 1 \in Nat
    OBVIOUS
  <2> QED
    BY <2>1, CountersStay
<1> QED
  BY <1>1

(* pipewrite's byte is one more at the end of the queue ... *)
LEMMA WriteByteSends ==
    ASSUME PipeInv, InFlight <= PIPESIZE, NEW p \in Procs, NEW b \in Bytes,
           WriteByte(p, b)
    PROVE  /\ InFlight < PIPESIZE /\ InFlight' = InFlight + 1
           /\ Queue' = Append(Queue, b)
<1>1. TypeOK /\ TypeOK'
  BY WriteByteStep DEF PipeInv
<1>2. nread \in 0 .. UintMod - 1 /\ nwrite \in 0 .. UintMod - 1 /\ UintMod \in Nat \ {0}
  BY <1>1, SizesAreNat DEF TypeOK
<1>3. InFlight \in Nat /\ InFlight < PIPESIZE
  BY <1>1, InFlightIs, SizesAreNat DEF WriteByte
<1>4. nread' = nread /\ nwrite' = IF nwrite = UintMod - 1 THEN 0 ELSE nwrite + 1
  BY <1>2 DEF WriteByte, Add
<1>4a. nread' \in 0 .. UintMod - 1 /\ nwrite' \in 0 .. UintMod - 1
  BY <1>1 DEF TypeOK
<1>5. InFlight' = InFlight + 1
  <2>1. InFlight' = IF nwrite' >= nread' THEN nwrite' - nread'
                    ELSE nwrite' + UintMod - nread'
    BY <1>2, <1>4 DEF InFlight
  <2>2. InFlight = IF nwrite >= nread THEN nwrite - nread
                   ELSE nwrite + UintMod - nread
    BY <1>1, InFlightIs
  <2> QED
    BY <1>2, <1>3, <1>4, <2>1, <2>2, SizesAreNat
<1>6. (nread + InFlight) % PIPESIZE = nwrite % PIPESIZE
  <2>1. InFlight = IF nwrite >= nread THEN nwrite - nread
                   ELSE nwrite + UintMod - nread
    BY <1>1, InFlightIs
  <2>2. nread + InFlight = nwrite \/ nread + InFlight = UintMod + nwrite
    BY <1>2, <2>1
  <2>3. (UintMod + nwrite) % PIPESIZE = nwrite % PIPESIZE
    <3>1. nwrite \in Nat
      BY <1>2
    <3> QED
      BY <3>1, SizesAreNat, ModTurn
  <2> QED
    BY <2>2, <2>3
<1>7. ASSUME NEW k \in 1 .. InFlight
      PROVE  (nread + k - 1) % PIPESIZE # nwrite % PIPESIZE
  <2> DEFINE x == nread + k - 1
             d == InFlight - k + 1
  <2>1. x \in Nat /\ d \in 1 .. PIPESIZE - 1 /\ x + d = nread + InFlight
    BY <1>2, <1>3, SizesAreNat
  <2>2. (x + d) % PIPESIZE # x % PIPESIZE
    BY <2>1, SizesAreNat
  <2> QED
    BY <2>1, <2>2, <1>6
<1>8. nwrite % PIPESIZE \in 0 .. PIPESIZE - 1
  BY <1>2, CountersStay
<1>9. Queue \in Seq(Bytes) /\ Len(Queue) = InFlight
      /\ Queue' \in Seq(Bytes) /\ Len(Queue') = InFlight + 1
  <2>1. Queue \in Seq(Bytes) /\ Len(Queue) = InFlight
    <3>1. nread \in Nat /\ InFlight \in Nat /\ data \in [0 .. PIPESIZE - 1 -> Bytes]
      BY <1>1, <1>3 DEF TypeOK
    <3> QED
      BY <3>1, RingIsSeq DEF Queue
  <2>2. nread' \in Nat /\ InFlight' \in Nat /\ data' \in [0 .. PIPESIZE - 1 -> Bytes]
    BY <1>1, <1>3, <1>5 DEF TypeOK
  <2>3. Queue' \in Seq(Bytes) /\ Len(Queue') = InFlight'
    BY <2>2, RingIsSeq DEF Queue
  <2> QED
    BY <1>5, <2>1, <2>3
<1>10. ASSUME NEW k \in 1 .. InFlight + 1 PROVE Queue'[k] = Append(Queue, b)[k]
  <2>1. Queue'[k] = data'[(nread + k - 1) % PIPESIZE]
    BY <1>4, <1>5 DEF Queue
  <2>2. CASE k = InFlight + 1
    <3>1. nread + k - 1 = nread + InFlight
      BY <1>3, <2>2
    <3>2. data'[nwrite % PIPESIZE] = b
      BY <1>1 DEF WriteByte, TypeOK
    <3> QED
      BY <1>6, <1>9, <2>1, <2>2, <3>2
  <2>3. CASE k \in 1 .. InFlight
    <3>1. Queue[k] = data[(nread + k - 1) % PIPESIZE]
      BY <2>3 DEF Queue
    <3>2. nread + k - 1 \in Nat
      BY <1>2
    <3>3. data'[(nread + k - 1) % PIPESIZE] = data[(nread + k - 1) % PIPESIZE]
      BY <1>7, <2>3 DEF WriteByte
    <3> QED
      BY <1>9, <2>1, <2>3, <3>1, <3>3
  <2>4. k = InFlight + 1 \/ k \in 1 .. InFlight
    BY <1>3
  <2> QED
    BY <2>2, <2>3, <2>4
<1>11. Queue' = Append(Queue, b)
  <2>1. Append(Queue, b) \in Seq(Bytes) /\ Len(Append(Queue, b)) = InFlight + 1
    BY <1>9
  <2> QED
    BY <1>9, <1>10
<1> QED
  BY <1>3, <1>5, <1>11

(* ... and piperead's is the first. *)
LEMMA ReadByteReceives ==
    ASSUME PipeInv, InFlight <= PIPESIZE, NEW p \in Procs, ReadByte(p)
    PROVE  /\ InFlight' <= PIPESIZE /\ p \in Readers
           /\ Queue # <<>> /\ Queue' = Tail(Queue)
           /\ out' = [out EXCEPT ![p] = Head(Queue)]
<1>1. TypeOK /\ TypeOK'
  BY ReadByteStep DEF PipeInv
<1>2. nread \in 0 .. UintMod - 1 /\ nwrite \in 0 .. UintMod - 1 /\ UintMod \in Nat \ {0}
  BY <1>1, SizesAreNat DEF TypeOK
<1>3. InFlight \in Nat /\ InFlight > 0
  BY <1>1, InFlightIs DEF ReadByte
<1>4. nwrite' = nwrite /\ nread' = IF nread = UintMod - 1 THEN 0 ELSE nread + 1
  BY <1>2 DEF ReadByte, Add
<1>4a. nread' \in 0 .. UintMod - 1 /\ nwrite' \in 0 .. UintMod - 1
  BY <1>1 DEF TypeOK
<1>5. InFlight' = InFlight - 1
  <2>1. InFlight' = IF nwrite' >= nread' THEN nwrite' - nread'
                    ELSE nwrite' + UintMod - nread'
    BY <1>2, <1>4 DEF InFlight
  <2>2. InFlight = IF nwrite >= nread THEN nwrite - nread
                   ELSE nwrite + UintMod - nread
    BY <1>1, InFlightIs
  <2> QED
    BY <1>2, <1>3, <1>4, <2>1, <2>2
<1>6. Queue \in Seq(Bytes) /\ Len(Queue) = InFlight
      /\ Queue' \in Seq(Bytes) /\ Len(Queue') = InFlight - 1
  <2>1. Queue \in Seq(Bytes) /\ Len(Queue) = InFlight
    <3>1. nread \in Nat /\ InFlight \in Nat /\ data \in [0 .. PIPESIZE - 1 -> Bytes]
      BY <1>1, <1>3 DEF TypeOK
    <3> QED
      BY <3>1, RingIsSeq DEF Queue
  <2>2. nread' \in Nat /\ InFlight' \in Nat /\ data' \in [0 .. PIPESIZE - 1 -> Bytes]
    BY <1>1, <1>3, <1>5 DEF TypeOK
  <2>3. Queue' \in Seq(Bytes) /\ Len(Queue') = InFlight'
    BY <2>2, RingIsSeq DEF Queue
  <2> QED
    BY <1>5, <2>1, <2>3
<1>7. Queue # <<>> /\ Head(Queue) = data[nread % PIPESIZE]
  <2>1. Queue[1] = data[(nread + 1 - 1) % PIPESIZE]
    BY <1>3 DEF Queue
  <2>2. nread + 1 - 1 = nread
    BY <1>2
  <2> QED
    BY <1>6, <2>1, <2>2
<1>8. ASSUME NEW k \in 1 .. InFlight - 1 PROVE Queue'[k] = Tail(Queue)[k]
  <2>1. Queue'[k] = data[(nread' + k - 1) % PIPESIZE]
    BY <1>5 DEF Queue, ReadByte
  <2>2. k + 1 \in 1 .. InFlight
    BY <1>3
  <2>3. Tail(Queue)[k] = data[(nread + (k + 1) - 1) % PIPESIZE]
    <3>1. Tail(Queue)[k] = Queue[k + 1]
      BY <1>6
    <3> QED
      BY <2>2, <3>1 DEF Queue
  <2>4. (nread' + k - 1) % PIPESIZE = (nread + (k + 1) - 1) % PIPESIZE
    <3>1. CASE nread = UintMod - 1
      <4>1. nread + (k + 1) - 1 = UintMod + (k - 1) /\ nread' + k - 1 = k - 1
        BY <1>2, <1>4, <3>1
      <4>2. (UintMod + (k - 1)) % PIPESIZE = (k - 1) % PIPESIZE
        <5>1. k - 1 \in Nat
          OBVIOUS
        <5> QED
          BY <5>1, SizesAreNat, ModTurn
      <4> QED
        BY <4>1, <4>2
    <3>2. CASE nread # UintMod - 1
      <4>1. nread + (k + 1) - 1 = nread' + k - 1
        BY <1>2, <1>4, <3>2
      <4> QED
        BY <4>1
    <3> QED
      BY <3>1, <3>2
  <2> QED
    BY <2>1, <2>3, <2>4
<1>9. Queue' = Tail(Queue)
  <2>1. Tail(Queue) \in Seq(Bytes) /\ Len(Tail(Queue)) = InFlight - 1
    BY <1>6
  <2> QED
    BY <1>6, <1>8
<1>10. p \in Readers
  BY DEF ReadByte, PipeInv, SeenInv
<1>11. InFlight' <= PIPESIZE
  BY <1>3, <1>5, SizesAreNat
<1> QED
  BY <1>7, <1>9, <1>10, <1>11 DEF ReadByte

(* The pipe never holds more than PIPESIZE bytes, and implements a bounded *)
(* queue: a byte stored is one sent, a byte taken is the oldest received,  *)
(* and every other step of pipewrite, piperead and pipeclose changes       *)
(* neither, for any size of the buffer and although the counters wrap.     *)
THEOREM PipeImplementsByteChannel == Spec => ImplementsByteChannel
<1> DEFINE Q == [k \in 1 .. InFlight |-> data[(nread + k - 1) % PIPESIZE]]
           Room == InFlight <= PIPESIZE
<1>1. Init => BC!Init /\ Room
  <2> SUFFICES ASSUME Init PROVE BC!Init /\ Room
    OBVIOUS
  <2>1. TypeOK
    BY PipeInitEstablishes DEF PipeInv
  <2>2. InFlight = 0
    BY <2>1, InFlightIs DEF Init
  <2>3. Q = <<>>
    BY <2>2
  <2> QED
    BY <2>1, <2>2, SizesAreNat DEF BC!Init, TypeOK
<1>2. PipeInv /\ Room /\ [Next]_vars => Room' /\ [BC!Next]_<<Q, out>>
  <2> SUFFICES ASSUME PipeInv, Room, [Next]_vars
               PROVE  Room' /\ [BC!Next]_<<Q, out>>
    OBVIOUS
  <2>1. ASSUME UNCHANGED <<data, nread, nwrite, out>>
        PROVE  Room' /\ [BC!Next]_<<Q, out>>
    BY <2>1 DEF InFlight
  <2>2. ASSUME NEW p \in Procs, NEW b \in Bytes, WriteByte(p, b)
        PROVE  Room' /\ BC!Next
    <3>1. InFlight < PIPESIZE /\ InFlight' = InFlight + 1 /\ Q' = Append(Q, b)
      BY <2>2, WriteByteSends DEF Queue
    <3>2. Len(Q) = InFlight
      BY InFlightIs DEF PipeInv
    <3>3. BC!Send(b)
      BY <2>2, <3>1, <3>2 DEF BC!Send, WriteByte
    <3> QED
      BY <3>1, <3>3, InFlightIs, SizesAreNat DEF BC!Next, PipeInv
  <2>3. ASSUME NEW p \in Procs, ReadByte(p)
        PROVE  Room' /\ BC!Next
    BY <2>3, ReadByteReceives DEF Queue, BC!Next, BC!Receive
  <2>4. CASE UNCHANGED vars
    BY <2>1, <2>4 DEF vars, pipeVars
  <2>5. CASE Next
    BY <2>1, <2>2, <2>3, <2>5 DEF Next, InPipe, Call, Acquire, WriteAborts,
       WriteFull, WriteReturns, ReadKilled, ReadEmpty, ReadBegins, ReadReturns,
       Sleep, Close, Kill, pipeVars
  <2> QED
    BY <2>4, <2>5
<1> QED
  BY <1>1, <1>2, PipeInvariant, PTL DEF Spec, ImplementsByteChannel, BC!Spec
=============================================================================
