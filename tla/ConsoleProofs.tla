---------------------------- MODULE ConsoleProofs ----------------------------
(***************************************************************************)
(* Theorems about Console, for any number of readers and any size of the   *)
(* buffer: the indices stay in order although they wrap around, and no     *)
(* reader sleeps while a line waits.                                       *)
(***************************************************************************)
EXTENDS Console, RingLemmas, TLAPS

(* cons.lock is held exactly by who is between its acquire and release;    *)
(* who sleeps or is about to has found nothing to read, and still would.   *)
ReaderInv ==
    \A p \in Readers :
        /\ pc[p] \in {"loop", "empty", "done"} <=> lock = p
        /\ pc[p] \in {"empty", "asleep"} => r = w

ConsoleInv == IndicesOrdered /\ ReaderInv

(* The distance from y to x, without the remainder. *)
LEMMA SubIs ==
    ASSUME NEW x \in 0 .. UintMod - 1, NEW y \in 0 .. UintMod - 1
    PROVE  Sub(x, y) = IF x >= y THEN x - y ELSE x + UintMod - y
BY SizesAreNat DEF Sub

(* The index after x. *)
LEMMA AddOneIs ==
    ASSUME NEW x \in 0 .. UintMod - 1
    PROVE  Add(x, 1) = IF x = UintMod - 1 THEN 0 ELSE x + 1
BY SizesAreNat DEF Add

(* The cell of an index. *)
LEMMA CellIs ==
    ASSUME NEW x \in Nat
    PROVE  Cell(x) \in 0 .. INPUT_BUF_SIZE - 1
BY SizesAreNat DEF Cell

(* Three indices in the order r, w, e, within one buffer of each other. *)
InOrder(a, b, c) == Sub(c, a) <= INPUT_BUF_SIZE /\ Sub(b, a) + Sub(c, b) = Sub(c, a)

(* r moves towards w ... *)
LEMMA TakeKeepsOrder ==
    ASSUME NEW a \in 0 .. UintMod - 1, NEW b \in 0 .. UintMod - 1,
           NEW c \in 0 .. UintMod - 1, InOrder(a, b, c), a # b
    PROVE  Add(a, 1) \in 0 .. UintMod - 1 /\ InOrder(Add(a, 1), b, c)
<1>1. Add(a, 1) = IF a = UintMod - 1 THEN 0 ELSE a + 1
  BY AddOneIs
<1>2. Add(a, 1) \in 0 .. UintMod - 1
  BY <1>1, SizesAreNat
<1> DEFINE z == Add(a, 1)
<1>3. /\ Sub(c, a) = IF c >= a THEN c - a ELSE c + UintMod - a
      /\ Sub(b, a) = IF b >= a THEN b - a ELSE b + UintMod - a
      /\ Sub(c, b) = IF c >= b THEN c - b ELSE c + UintMod - b
  BY SubIs
<1>4. z \in 0 .. UintMod - 1 /\ z = IF a = UintMod - 1 THEN 0 ELSE a + 1
  BY <1>1, <1>2
<1> HIDE DEF z
<1>5. /\ Sub(c, z) = IF c >= z THEN c - z ELSE c + UintMod - z
      /\ Sub(b, z) = IF b >= z THEN b - z ELSE b + UintMod - z
  BY <1>4, SubIs
<1>6. InOrder(z, b, c)
  BY <1>3, <1>4, <1>5, SizesAreNat DEF InOrder
<1> QED
  BY <1>2, <1>6 DEF z

(* ... e moves on while there is room, and takes w with it or not ... *)
LEMMA StoreKeepsOrder ==
    ASSUME NEW a \in 0 .. UintMod - 1, NEW b \in 0 .. UintMod - 1,
           NEW c \in 0 .. UintMod - 1, InOrder(a, b, c), Sub(c, a) < INPUT_BUF_SIZE
    PROVE  /\ Add(c, 1) \in 0 .. UintMod - 1
           /\ InOrder(a, b, Add(c, 1)) /\ InOrder(a, Add(c, 1), Add(c, 1))
<1>1. Add(c, 1) = IF c = UintMod - 1 THEN 0 ELSE c + 1
  BY AddOneIs
<1>2. Add(c, 1) \in 0 .. UintMod - 1
  BY <1>1, SizesAreNat
<1> DEFINE z == Add(c, 1)
<1>3. /\ Sub(c, a) = IF c >= a THEN c - a ELSE c + UintMod - a
      /\ Sub(b, a) = IF b >= a THEN b - a ELSE b + UintMod - a
      /\ Sub(c, b) = IF c >= b THEN c - b ELSE c + UintMod - b
  BY SubIs
<1>4. z \in 0 .. UintMod - 1 /\ z = IF c = UintMod - 1 THEN 0 ELSE c + 1
  BY <1>1, <1>2
<1> HIDE DEF z
<1>5. /\ Sub(z, a) = IF z >= a THEN z - a ELSE z + UintMod - a
      /\ Sub(z, b) = IF z >= b THEN z - b ELSE z + UintMod - b
      /\ Sub(z, z) = IF z >= z THEN z - z ELSE z + UintMod - z
  BY <1>4, SubIs
<1>6. InOrder(a, b, z) /\ InOrder(a, z, z)
  BY <1>3, <1>4, <1>5, SizesAreNat DEF InOrder
<1> QED
  BY <1>2, <1>6 DEF z

(* ... and back, at most to w. *)
LEMMA EraseKeepsOrder ==
    ASSUME NEW a \in 0 .. UintMod - 1, NEW b \in 0 .. UintMod - 1,
           NEW c \in 0 .. UintMod - 1, InOrder(a, b, c),
           NEW k \in 1 .. INPUT_BUF_SIZE, k <= Sub(c, b)
    PROVE  Sub(c, k) \in 0 .. UintMod - 1 /\ InOrder(a, b, Sub(c, k))
<1>1. k \in 0 .. UintMod - 1
  BY SizesAreNat
<1>2. Sub(c, k) = IF c >= k THEN c - k ELSE c + UintMod - k
  BY <1>1, SubIs
<1>3. Sub(c, k) \in 0 .. UintMod - 1
  BY <1>2, SizesAreNat
<1> DEFINE z == Sub(c, k)
<1>4. /\ Sub(c, a) = IF c >= a THEN c - a ELSE c + UintMod - a
      /\ Sub(b, a) = IF b >= a THEN b - a ELSE b + UintMod - a
      /\ Sub(c, b) = IF c >= b THEN c - b ELSE c + UintMod - b
  BY SubIs
<1>5. z \in 0 .. UintMod - 1 /\ z = IF c >= k THEN c - k ELSE c + UintMod - k
  BY <1>2, <1>3
<1> HIDE DEF z
<1>6. /\ Sub(z, a) = IF z >= a THEN z - a ELSE z + UintMod - a
      /\ Sub(z, b) = IF z >= b THEN z - b ELSE z + UintMod - b
  BY <1>5, SubIs
<1>7. InOrder(a, b, z)
  BY <1>4, <1>5, <1>6, SizesAreNat DEF InOrder
<1> QED
  BY <1>3, <1>7 DEF z

(* consoleinit establishes the invariant. *)
LEMMA ConsoleInitEstablishes == Init => ConsoleInv
<1> SUFFICES ASSUME Init PROVE ConsoleInv
  OBVIOUS
<1>1. TypeOK
  BY SizesAreNat DEF Init, TypeOK
<1>2. Sub(0, 0) = 0
  BY SubIs, SizesAreNat
<1> QED
  BY <1>1, <1>2, SizesAreNat, NoProcFresh DEF Init, ConsoleInv, IndicesOrdered,
     ReaderInv

(* consoleintr stores a character, and wakes the readers of a complete line. *)
LEMMA IntrStoreStep ==
    ASSUME ConsoleInv, NEW key \in Keys, IntrStore(key)
    PROVE  ConsoleInv'
<1> USE NoProcFresh DEF ConsoleInv, IntrStore
<1>1. e' = Add(e, 1) /\ e' \in 0 .. UintMod - 1
      /\ InOrder(r, w, e') /\ InOrder(r, e', e')
  BY StoreKeepsOrder DEF IndicesOrdered, InOrder, TypeOK, HasRoom
<1>2. Cell(e) \in 0 .. INPUT_BUF_SIZE - 1
  BY CellIs DEF IndicesOrdered, TypeOK
<1>3. r' = r /\ w' \in {w, e'}
  OBVIOUS
<1>4. TypeOK'
  BY <1>1, <1>2 DEF IndicesOrdered, TypeOK, Stored, Keys, Wakeup
<1>5. IndicesOrdered'
  BY <1>1, <1>4 DEF IndicesOrdered, InOrder
<1>6. ReaderInv'
  BY DEF ReaderInv, Wakeup
<1> QED
  BY <1>5, <1>6

(* Backspace takes back one character of the line being edited. *)
LEMMA IntrEraseStep ==
    ASSUME ConsoleInv, NEW key \in Keys, IntrErase(key)
    PROVE  ConsoleInv'
<1> USE SizesAreNat DEF ConsoleInv, IntrErase, MayErase
<1>1. e' \in 0 .. UintMod - 1 /\ r' = r /\ w' = w /\ InOrder(r, w, e')
  <2>1. r \in 0 .. UintMod - 1 /\ w \in 0 .. UintMod - 1 /\ e \in 0 .. UintMod - 1
    BY DEF IndicesOrdered, TypeOK
  <2>2. 1 <= Sub(e, w)
    BY <2>1, SubIs
  <2> QED
    BY <2>1, <2>2, EraseKeepsOrder DEF IndicesOrdered, InOrder
<1>2. TypeOK'
  BY <1>1 DEF IndicesOrdered, TypeOK
<1>3. IndicesOrdered'
  BY <1>1, <1>2 DEF IndicesOrdered, InOrder
<1>4. ReaderInv'
  BY DEF ReaderInv
<1> QED
  BY <1>3, <1>4

(* ^U takes back characters of the line being edited, and no others. *)
LEMMA KillLineStep ==
    ASSUME ConsoleInv, NEW key \in Keys, KillLine(key)
    PROVE  ConsoleInv'
<1> USE SizesAreNat, NoProcFresh DEF ConsoleInv, KillLine
<1>1. e' \in 0 .. UintMod - 1 /\ r' = r /\ w' = w /\ InOrder(r, w, e')
  <2>1. r \in 0 .. UintMod - 1 /\ w \in 0 .. UintMod - 1 /\ e \in 0 .. UintMod - 1
    BY DEF IndicesOrdered, TypeOK
  <2>2. PICK k \in 1 .. INPUT_BUF_SIZE :
            e' = Sub(e, k) /\ \A j \in 1 .. k : Sub(e, j - 1) # w
    OBVIOUS
  <2>3. k <= Sub(e, w)
    <3> SUFFICES ASSUME k > Sub(e, w) PROVE FALSE
      BY <2>1, SubIs
    <3>1. Sub(e, w) \in 0 .. UintMod - 1 /\ Sub(e, Sub(e, w)) = w
      BY <2>1, SubIs
    <3>2. Sub(e, w) + 1 \in 1 .. k /\ (Sub(e, w) + 1) - 1 = Sub(e, w)
      BY <3>1
    <3> QED
      BY <2>2, <3>1
  <2> QED
    BY <2>1, <2>2, <2>3, EraseKeepsOrder DEF IndicesOrdered, InOrder
<1>2. TypeOK'
  BY <1>1 DEF IndicesOrdered, TypeOK
<1>3. IndicesOrdered'
  BY <1>1, <1>2 DEF IndicesOrdered, InOrder
<1>4. ReaderInv'
  BY DEF ReaderInv
<1> QED
  BY <1>3, <1>4

(* A read begins. *)
LEMMA ReadStep ==
    ASSUME ConsoleInv, NEW p \in Readers, NEW k \in 1 .. MaxN, Read(p, k)
    PROVE  ConsoleInv'
<1> USE DEF ConsoleInv, Read
<1>1. TypeOK'
  BY DEF IndicesOrdered, TypeOK
<1>2. IndicesOrdered'
  BY <1>1 DEF IndicesOrdered
<1>3. ReaderInv'
  BY DEF ReaderInv
<1> QED
  BY <1>2, <1>3

(* acquire(&cons.lock). *)
LEMMA AcquireStep ==
    ASSUME ConsoleInv, NEW p \in Readers, Acquire(p)
    PROVE  ConsoleInv'
<1> USE NoProcFresh DEF ConsoleInv, Acquire
<1>1. TypeOK'
  BY DEF IndicesOrdered, TypeOK
<1>2. IndicesOrdered'
  BY <1>1 DEF IndicesOrdered
<1>3. ReaderInv'
  BY DEF ReaderInv, IndicesOrdered, TypeOK
<1> QED
  BY <1>2, <1>3

(* consoleread finds nothing to read, with the lock held. *)
LEMMA EmptyStep ==
    ASSUME ConsoleInv, NEW p \in Readers, Empty(p)
    PROVE  ConsoleInv'
<1> USE SizesAreNat, NoProcFresh DEF ConsoleInv, Empty, Leave
<1>1. TypeOK'
  <2>1. CASE killed[p] = 1
    <3>0. /\ 0 \in 0 .. MaxN
          /\ n \in [Readers -> 0 .. MaxN] /\ target \in [Readers -> 0 .. MaxN]
      BY DEF IndicesOrdered, TypeOK
    <3>1. n' = [n EXCEPT ![p] = 0] /\ target' = [target EXCEPT ![p] = 0]
      BY <2>1
    <3>2. pc' \in [Readers -> {"user", "call", "loop", "empty", "asleep", "done"}]
      BY <2>1 DEF IndicesOrdered, TypeOK
    <3>3. lock' = NoProc /\ UNCHANGED <<buf, r, w, e, killed>>
      BY <2>1
    <3> HIDE DEF Empty
    <3>4. n' \in [Readers -> 0 .. MaxN] /\ target' \in [Readers -> 0 .. MaxN]
      BY <3>0, <3>1
    <3> QED
      BY <3>2, <3>3, <3>4 DEF IndicesOrdered, TypeOK
  <2>2. CASE killed[p] # 1
    BY <2>2 DEF IndicesOrdered, TypeOK
  <2> QED
    BY <2>1, <2>2
<1>2. IndicesOrdered'
  BY <1>1 DEF IndicesOrdered
<1>3. ReaderInv'
  BY DEF ReaderInv, IndicesOrdered, TypeOK
<1> QED
  BY <1>2, <1>3

(* sleep() releases the lock. *)
LEMMA SleepStep ==
    ASSUME ConsoleInv, NEW p \in Readers, Sleep(p)
    PROVE  ConsoleInv'
<1> USE NoProcFresh DEF ConsoleInv, Sleep
<1>1. TypeOK'
  BY DEF IndicesOrdered, TypeOK
<1>2. IndicesOrdered'
  BY <1>1 DEF IndicesOrdered
<1>3. ReaderInv'
  BY DEF ReaderInv, IndicesOrdered, TypeOK
<1> QED
  BY <1>2, <1>3

(* consoleread takes a character. *)
LEMMA TakeStep ==
    ASSUME ConsoleInv, NEW p \in Readers, Take(p)
    PROVE  ConsoleInv'
<1> USE SizesAreNat DEF ConsoleInv, Take
<1>1. r' \in 0 .. UintMod - 1 /\ w' = w /\ e' = e /\ InOrder(r', w, e)
  BY TakeKeepsOrder DEF IndicesOrdered, InOrder, TypeOK
<1>2. TypeOK'
  <2>1. n[p] - 1 \in 0 .. MaxN
    BY DEF IndicesOrdered, TypeOK
  <2>2. n' \in [Readers -> 0 .. MaxN]
    BY DEF IndicesOrdered, TypeOK
  <2>3. pc' \in [Readers -> {"user", "call", "loop", "empty", "asleep", "done"}]
    BY DEF IndicesOrdered, TypeOK
  <2> QED
    BY <1>1, <2>2 DEF IndicesOrdered, TypeOK
<1>3. IndicesOrdered'
  BY <1>1, <1>2 DEF IndicesOrdered, InOrder
<1>4. ReaderInv'
  BY DEF ReaderInv
<1> QED
  BY <1>3, <1>4

(* consoleread takes a character and cannot copy it out. *)
LEMMA TakeFailsStep ==
    ASSUME ConsoleInv, NEW p \in Readers, TakeFails(p)
    PROVE  ConsoleInv'
<1> USE SizesAreNat, NoProcFresh DEF ConsoleInv, TakeFails, Leave
<1>1. r' \in 0 .. UintMod - 1 /\ w' = w /\ e' = e /\ InOrder(r', w, e)
  BY TakeKeepsOrder DEF IndicesOrdered, InOrder, TypeOK
<1>2. TypeOK'
  BY <1>1 DEF IndicesOrdered, TypeOK
<1>3. IndicesOrdered'
  BY <1>1, <1>2 DEF IndicesOrdered, InOrder
<1>4. ReaderInv'
  BY DEF ReaderInv, IndicesOrdered, TypeOK
<1> QED
  BY <1>3, <1>4

(* consoleread meets ^D, and takes it or leaves it. *)
LEMMA TakeEofStep ==
    ASSUME ConsoleInv, NEW p \in Readers, TakeEof(p)
    PROVE  ConsoleInv'
<1> USE SizesAreNat, NoProcFresh DEF ConsoleInv, TakeEof, Leave, AfterEof
<1>1. r' \in 0 .. UintMod - 1 /\ w' = w /\ e' = e /\ InOrder(r', w, e)
  BY TakeKeepsOrder DEF IndicesOrdered, InOrder, TypeOK
<1>2. TypeOK'
  BY <1>1 DEF IndicesOrdered, TypeOK
<1>3. IndicesOrdered'
  BY <1>1, <1>2 DEF IndicesOrdered, InOrder
<1>4. ReaderInv'
  BY DEF ReaderInv, IndicesOrdered, TypeOK
<1> QED
  BY <1>3, <1>4

(* consoleread returns. *)
LEMMA DoneStep ==
    ASSUME ConsoleInv, NEW p \in Readers, Done(p)
    PROVE  ConsoleInv'
<1> USE SizesAreNat, NoProcFresh DEF ConsoleInv, Done, Leave
<1>1. TypeOK'
  BY DEF IndicesOrdered, TypeOK
<1>2. IndicesOrdered'
  BY <1>1 DEF IndicesOrdered
<1>3. ReaderInv'
  BY DEF ReaderInv, IndicesOrdered, TypeOK
<1> QED
  BY <1>2, <1>3

(* kkill. *)
LEMMA KillStep ==
    ASSUME ConsoleInv, NEW p \in Readers, Kill(p)
    PROVE  ConsoleInv'
<1> USE DEF ConsoleInv, Kill
<1>1. TypeOK'
  BY DEF IndicesOrdered, TypeOK
<1>2. IndicesOrdered'
  BY <1>1 DEF IndicesOrdered
<1>3. ReaderInv'
  BY DEF ReaderInv
<1> QED
  BY <1>2, <1>3

(* Steps that change nothing keep the invariant. *)
LEMMA ConsoleStutter == ConsoleInv /\ UNCHANGED vars => ConsoleInv'
BY DEF vars, ConsoleInv, IndicesOrdered, TypeOK, ReaderInv

(* Every state of the console satisfies the invariant. *)
THEOREM ConsoleInvariant == Spec => []ConsoleInv
<1>1. ConsoleInv /\ [Next]_vars => ConsoleInv'
  <2> SUFFICES ASSUME ConsoleInv, Next PROVE ConsoleInv'
    BY ConsoleStutter
  <2>1. ASSUME NEW key \in Keys, IntrStore(key) \/ IntrErase(key) \/ KillLine(key)
        PROVE  ConsoleInv'
    BY <2>1, IntrStoreStep, IntrEraseStep, KillLineStep
  <2>2. ASSUME NEW p \in Readers,
               \/ \E k \in 1 .. MaxN : Read(p, k)
               \/ Acquire(p) \/ Empty(p) \/ Sleep(p) \/ Take(p) \/ TakeFails(p)
               \/ TakeEof(p) \/ Done(p) \/ Kill(p)
        PROVE  ConsoleInv'
    BY <2>2, ReadStep, AcquireStep, EmptyStep, SleepStep, TakeStep, TakeFailsStep,
       TakeEofStep, DoneStep, KillStep
  <2> QED
    BY <2>1, <2>2 DEF Next
<1> QED
  BY ConsoleInitEstablishes, <1>1, PTL DEF Spec

(* Whatever is typed, edited and read, no unread character of the ring is  *)
(* overwritten and no reader sleeps in consoleread while a line waits.     *)
THEOREM InputIsSafe == Spec => []InputSafe
<1>1. ConsoleInv => InputSafe
  BY DEF ConsoleInv, InputSafe, LineWakesReader, ReaderInv
<1> QED
  BY ConsoleInvariant, <1>1, PTL
=============================================================================
