----------------------------- MODULE LogProofs -----------------------------
(* Proofs about Log, for every set of processes, blocks and data. *)
EXTENDS Log, FiniteSetTheorems, TLAPS

USE ValuesDistinct, SizesAreNat

(* The processes inside an operation are finitely many, so that one of     *)
(* them entering or leaving changes their number by one.                   *)
LEMMA TransactionCount ==
    ASSUME TypeOK, NEW p \in Procs
    PROVE  /\ IsFiniteSet(InTransaction)
           /\ Cardinality(InTransaction) \in Nat
           /\ p \in InTransaction => Cardinality(InTransaction) >= 1
           /\ p \in InTransaction /\ Cardinality(InTransaction) = 1
                => InTransaction = {p}
           /\ Cardinality(InTransaction \cup {p}) =
                IF p \in InTransaction THEN Cardinality(InTransaction)
                ELSE Cardinality(InTransaction) + 1
           /\ Cardinality(InTransaction \ {p}) =
                IF p \in InTransaction THEN Cardinality(InTransaction) - 1
                ELSE Cardinality(InTransaction)
<1>1. InTransaction \in SUBSET Procs
  BY DEF InTransaction
<1>2. IsFiniteSet(InTransaction)
  BY <1>1, ProcsFinite, FS_Subset
<1>3. Cardinality(InTransaction) \in Nat
  BY <1>2, FS_CardinalityType
<1>4. p \in InTransaction => Cardinality(InTransaction) >= 1
  BY <1>2, <1>3, FS_EmptySet, SMT
<1>5. ASSUME p \in InTransaction, Cardinality(InTransaction) = 1
      PROVE  InTransaction = {p}
  BY <1>2, <1>5, FS_Singleton
<1>6. QED
  BY <1>2, <1>3, <1>4, <1>5, FS_AddElement, FS_RemoveElement

(* What log_write's append does to the in-memory header. *)
LEMMA AppendBlock ==
    ASSUME lh \in Seq(Blocks), NEW b \in Blocks
    PROVE  /\ Append(lh, b) \in Seq(Blocks)
           /\ Len(Append(lh, b)) = Len(lh) + 1
           /\ \A i \in 1..Len(lh) : Append(lh, b)[i] = lh[i]
           /\ Append(lh, b)[Len(lh) + 1] = b
  OBVIOUS

(* recording a block keeps the header free of duplicates and leaves the    *)
(* other blocks' entries alone.                                            *)
LEMMA RecordBlockHeader ==
    ASSUME TypeOK, HeaderInv, NEW b \in Blocks, RecordBlock(b), step = "run",
           step' = "run", Len(lh) < LOGBLOCKS, UNCHANGED <<tail, head>>
    PROVE  /\ lh' \in Seq(Blocks) /\ pins' \in [Blocks -> Nat]
           /\ HeaderInv'
           /\ Uninstalled(b)'
           /\ \A c \in Blocks : c # b => (Uninstalled(c)' <=> Uninstalled(c))
           /\ pins' = IF Uninstalled(b) THEN pins ELSE [pins EXCEPT ![b] = @ + 1]
<1> lh \in Seq(Blocks) /\ Len(lh) \in Nat
  BY DEF TypeOK
<1>1. CASE \E i \in 1..Len(lh) : lh[i] = b
  <2>1. UNCHANGED <<lh, pins>>
    BY <1>1 DEF RecordBlock
  <2>2. Uninstalled(b)
    BY <1>1 DEF Uninstalled
  <2>3. \A c \in Blocks : Uninstalled(c)' <=> Uninstalled(c)
    BY <2>1 DEF Uninstalled
  <2>4. HeaderInv'
    BY <2>1 DEF HeaderInv, Injective
  <2>5. QED
    BY <2>1, <2>2, <2>3, <2>4 DEF TypeOK
<1>2. CASE \A i \in 1..Len(lh) : lh[i] # b
  <2>1. lh' = Append(lh, b) /\ pins' = [pins EXCEPT ![b] = @ + 1]
    BY <1>2 DEF RecordBlock
  <2>2. /\ lh' \in Seq(Blocks)
        /\ Len(lh') = Len(lh) + 1
        /\ \A i \in 1..Len(lh) : lh'[i] = lh[i]
        /\ lh'[Len(lh) + 1] = b
    BY <2>1, AppendBlock
  <2>3. Injective(lh')
    BY <1>2, <2>2 DEF HeaderInv, Injective
  <2>4. HeaderInv'
    BY <2>2, <2>3 DEF HeaderInv, Injective
  <2>5. ~Uninstalled(b) /\ Uninstalled(b)'
    BY <1>2, <2>2 DEF Uninstalled
  <2>6. \A c \in Blocks : c # b => (Uninstalled(c)' <=> Uninstalled(c))
    BY <2>2 DEF Uninstalled
  <2>7. QED
    BY <2>1, <2>2, <2>4, <2>5, <2>6 DEF TypeOK
<1>3. QED
  BY <1>1, <1>2

LEMMA InitIInv == Init => IInv
<1> SUFFICES ASSUME Init PROVE IInv
  OBVIOUS
<1>1. TypeOK
  BY DEF Init, TypeOK, Slots
<1>2. InTransaction = {}
  BY DEF Init, InTransaction
<1>3. OpInv
  BY <1>2, FS_EmptySet DEF Init, OpInv, CommitSteps
<1>4. HeaderInv
  BY DEF Init, HeaderInv, Injective
<1>5. BufferInv /\ PinnedWhileDirty
  BY DEF Init, BufferInv, PinnedWhileDirty, Uninstalled, Bread
<1>6. CopiesInv
  BY DEF Init, CopiesInv
<1>7. QED
  BY <1>1, <1>3, <1>4, <1>5, <1>6 DEF IInv

-----------------------------------------------------------------------------
(* Each action preserves the inductive invariant. *)

LEMMA BeginOpSleepIInv ==
    ASSUME IInv, NEW p \in Procs, BeginOpSleep(p)
    PROVE  IInv'
<1> USE DEF IInv, BeginOpSleep, durableVars
<1>1. TypeOK'
  BY DEF TypeOK
<1>2. InTransaction' = InTransaction
  BY DEF TypeOK, InTransaction
<1>3. OpInv' /\ HeaderInv' /\ CopiesInv'
  BY <1>2 DEF OpInv, HeaderInv, Injective, CopiesInv
<1>4. BufferInv' /\ PinnedWhileDirty'
  BY DEF TypeOK, BufferInv, PinnedWhileDirty, Uninstalled, Bread
<1>5. QED
  BY <1>1, <1>3, <1>4

LEMMA BeginOpIInv ==
    ASSUME IInv, NEW p \in Procs, BeginOp(p)
    PROVE  IInv'
<1> USE DEF IInv, BeginOp, MustWait, durableVars
<1>1. TypeOK'
  BY DEF TypeOK
<1>2. InTransaction' = InTransaction \cup {p} /\ p \notin InTransaction
  BY DEF TypeOK, InTransaction
<1>3. step = "run"
  BY DEF TypeOK, OpInv, CommitSteps, LogLockFree, Recovering
<1>4. OpInv'
  BY <1>2, <1>3, TransactionCount DEF OpInv
<1>5. HeaderInv' /\ CopiesInv'
  BY DEF HeaderInv, Injective, CopiesInv
<1>6. BufferInv' /\ PinnedWhileDirty'
  BY DEF TypeOK, BufferInv, PinnedWhileDirty, Uninstalled, Bread
<1>7. QED
  BY <1>1, <1>4, <1>5, <1>6

LEMMA ModifyIInv ==
    ASSUME IInv, NEW p \in Procs, NEW b \in Blocks, NEW v \in Data,
           Modify(p, b, v)
    PROVE  IInv'
<1> USE DEF IInv, Modify, durableVars
<1>1. TypeOK'
  BY DEF TypeOK
<1>2. InTransaction' = InTransaction /\ p \in InTransaction
  BY DEF TypeOK, InTransaction
<1>3. step = "run" /\ step' = "run"
  BY <1>2 DEF OpInv
<1>4. OpInv' /\ HeaderInv' /\ CopiesInv'
  BY <1>2, <1>3 DEF OpInv, HeaderInv, Injective, CopiesInv
<1>5. BufferInv'
  BY <1>3 DEF TypeOK, BufferInv, Uninstalled
<1>6. PinnedWhileDirty'
  BY <1>3 DEF TypeOK, PinnedWhileDirty, Uninstalled, Bread
<1>7. QED
  BY <1>1, <1>4, <1>5, <1>6

LEMMA LogWriteIInv ==
    ASSUME IInv, NEW p \in Procs, NEW b \in Blocks, LogWrite(p, b)
    PROVE  IInv'
<1> USE DEF IInv
<1>1. p \in InTransaction /\ step = "run" /\ step' = "run"
  BY DEF LogWrite, InTransaction, OpInv
<1>2. outstanding >= 1
  BY <1>1, TransactionCount DEF OpInv
<1>3. CASE Len(lh) >= LOGBLOCKS
  <2> USE <1>3 DEF LogWrite, durableVars
  <2>1. TypeOK' /\ InTransaction' = InTransaction
    BY DEF TypeOK, InTransaction
  <2>2. OpInv' /\ HeaderInv' /\ CopiesInv'
    BY <2>1, <1>1 DEF OpInv, HeaderInv, Injective, CopiesInv
  <2>3. BufferInv' /\ PinnedWhileDirty'
    BY DEF BufferInv, PinnedWhileDirty, Uninstalled, Bread
  <2>4. QED
    BY <2>1, <2>2, <2>3
<1>4. CASE Len(lh) < LOGBLOCKS
  <2>1. /\ pc' = [pc EXCEPT ![p] = "op"]
        /\ holder' = [holder EXCEPT ![b] = NoProc]
        /\ RecordBlock(b)
        /\ UNCHANGED <<panicked, outstanding, committing, step, tail, wrote,
                       cache, head, logarea, disk>>
    BY <1>2, <1>4 DEF LogWrite, durableVars, TypeOK
  <2>2. /\ lh' \in Seq(Blocks) /\ pins' \in [Blocks -> Nat]
        /\ HeaderInv'
        /\ Uninstalled(b)'
        /\ \A c \in Blocks : c # b => (Uninstalled(c)' <=> Uninstalled(c))
        /\ pins' = IF Uninstalled(b) THEN pins ELSE [pins EXCEPT ![b] = @ + 1]
    BY <1>1, <1>4, <2>1, RecordBlockHeader
  <2>3. TypeOK'
    BY <2>1, <2>2 DEF TypeOK
  <2>4. InTransaction' = InTransaction
    BY <2>1 DEF TypeOK, InTransaction, LogWrite
  <2>5. OpInv'
    BY <1>1, <2>1, <2>4 DEF OpInv
  <2>6. CopiesInv'
    BY <1>1 DEF CopiesInv
  <2>8. holder[b] = p /\ pc[p] = "modified" /\ cache[b] # NotCached
    BY DEF LogWrite, BufferInv
  <2>9. \A c \in Blocks : holder[c] = p => c = b
    BY <2>8 DEF BufferInv
  <2>10. BufferInv'
    BY <2>1, <2>2, <2>8, <2>9 DEF BufferInv, TypeOK
  <2>11. \A c \in Blocks : pins'[c] = IF Uninstalled(c)' THEN 1 ELSE 0
    BY <2>2 DEF PinnedWhileDirty, TypeOK
  <2>12. PinnedWhileDirty'
    BY <2>1, <2>2, <2>11 DEF PinnedWhileDirty, TypeOK, Bread
  <2>13. QED
    BY <2>2, <2>3, <2>5, <2>6, <2>10, <2>12
<1>5. QED
  BY <1>3, <1>4 DEF TypeOK

LEMMA EndOpIInv ==
    ASSUME IInv, NEW p \in Procs, EndOp(p)
    PROVE  IInv'
<1> USE DEF IInv
<1>1. p \in InTransaction /\ step = "run" /\ committing = 0
  BY DEF EndOp, InTransaction, OpInv, TypeOK, CommitSteps
<1>2. outstanding >= 1 /\ outstanding \in Nat
  BY <1>1, TransactionCount DEF OpInv, TypeOK
<1>3. /\ outstanding' = outstanding - 1
      /\ wrote' = [wrote EXCEPT ![p] = {}]
      /\ IF outstanding = 1
         THEN /\ committing' = 1
              /\ pc' = [pc EXCEPT ![p] = "commit"]
              /\ step' = IF CommitNeeded THEN "write_log" ELSE "finish"
              /\ tail' = 1
         ELSE /\ pc' = Wakeup([pc EXCEPT ![p] = "idle"])
              /\ UNCHANGED <<committing, step, tail>>
      /\ UNCHANGED <<panicked, lh, cache, holder, pins, head, logarea, disk>>
  BY <1>1 DEF EndOp, durableVars
<1>4. TypeOK'
  <2>1. outstanding' \in Nat /\ wrote' \in [Procs -> SUBSET Blocks]
    BY <1>2, <1>3 DEF TypeOK
  <2>2. CASE outstanding = 1
    BY <1>3, <2>1, <2>2 DEF TypeOK
  <2>3. CASE outstanding # 1
    BY <1>3, <2>1, <2>3 DEF TypeOK, Wakeup
  <2>4. QED
    BY <2>2, <2>3
<1>5. InTransaction' = InTransaction \ {p}
  BY <1>3 DEF InTransaction, Wakeup, TypeOK
<1>6. \A q \in Procs : pc[q] = "modified" => pc'[q] = "modified"
  BY <1>3 DEF EndOp, Wakeup, TypeOK
<1>7. lh \in Seq(Blocks) /\ Len(lh) \in Nat
  BY DEF TypeOK
<1>8. CASE outstanding = 1
  <2>1. InTransaction' = {}
    BY <1>1, <1>5, <1>8, TransactionCount DEF OpInv
  <2>2. Len(lh) = 0 => lh = <<>>
    BY <1>7
  <2>3. HeaderInv'
    BY <1>1, <1>3, <1>7, <1>8, <2>2 DEF HeaderInv, Injective, CommitNeeded
  <2>4. OpInv'
    BY <1>2, <1>3, <1>8, <2>1, FS_EmptySet DEF OpInv, CommitSteps
  <2>5. BufferInv' /\ PinnedWhileDirty'
    BY <1>1, <1>3, <1>6, <1>8 DEF BufferInv, PinnedWhileDirty, Uninstalled, Bread, TypeOK
  <2>6. step' \in {"write_log", "finish"} /\ tail' = 1
    BY <1>3, <1>8
  <2>. CopiesInv'
    BY <2>6 DEF CopiesInv
  <2>7. QED
    BY <1>4, <2>3, <2>4, <2>5, <2>6
<1>9. CASE outstanding # 1
  <2>. UNCHANGED <<committing, step, tail>>
    BY <1>3, <1>9
  <2>. HeaderInv'
    BY <1>3 DEF HeaderInv, Injective
  <2>1. CopiesInv'
    BY <1>1 DEF CopiesInv
  <2>2. Cardinality(InTransaction') = outstanding - 1
    BY <1>1, <1>5, TransactionCount DEF OpInv
  <2>3. InTransaction' # {}
    BY <1>2, <1>9, <2>2, FS_EmptySet
  <2>4. OpInv'
    BY <1>1, <1>3, <1>9, <2>2, <2>3 DEF OpInv
  <2>5. \A b \in Blocks : Uninstalled(b)' <=> Uninstalled(b)
    BY <1>3, <1>9 DEF Uninstalled
  <2>6. BufferInv' /\ PinnedWhileDirty'
    BY <1>3, <1>6, <2>5 DEF BufferInv, PinnedWhileDirty, Bread, TypeOK
  <2>7. QED
    BY <1>4, <2>1, <2>4, <2>6
<1>10. QED
  BY <1>8, <1>9

LEMMA WriteLogIInv ==
    ASSUME IInv, WriteLog
    PROVE  IInv'
<1> USE DEF IInv
<1> DEFINE b == lh[tail]
<1>1. lh \in Seq(Blocks) /\ tail \in 1..Len(lh) /\ Len(lh) <= LOGBLOCKS
  BY DEF WriteLog, TypeOK, HeaderInv
<1>2. b \in Blocks /\ tail \in Slots
  BY <1>1 DEF Slots
<1>3. Uninstalled(b)
  BY <1>1 DEF Uninstalled, WriteLog
<1>4. cache[b] # NotCached /\ cache' = cache
  BY <1>2, <1>3 DEF BufferInv, Bread, WriteLog, TypeOK
<1>5. logarea' = [logarea EXCEPT ![tail] = cache[b]]
  BY <1>4 DEF WriteLog, Bread
<1>6. TypeOK'
  BY <1>2, <1>4, <1>5 DEF TypeOK, WriteLog
<1>7. InTransaction' = InTransaction
  BY DEF InTransaction, WriteLog
<1>8. OpInv'
  BY <1>7 DEF OpInv, WriteLog, CommitSteps
<1>9. HeaderInv'
  BY <1>1 DEF HeaderInv, Injective, WriteLog, LastBlock
<1>10. BufferInv' /\ PinnedWhileDirty'
  BY <1>4 DEF BufferInv, PinnedWhileDirty, Uninstalled, Bread, WriteLog
<1>11. \A i \in 1..tail : logarea'[i] = cache'[lh'[i]]
  BY <1>1, <1>2, <1>4, <1>5 DEF CopiesInv, WriteLog, TypeOK, Slots
<1>12. CopiesInv'
  BY <1>1, <1>11 DEF CopiesInv, WriteLog, LastBlock
<1>13. QED
  BY <1>6, <1>8, <1>9, <1>10, <1>12

LEMMA WriteHeadIInv ==
    ASSUME IInv, WriteHead
    PROVE  IInv'
<1> USE DEF IInv, WriteHead
<1>1. TypeOK' /\ InTransaction' = InTransaction
  BY DEF TypeOK, InTransaction
<1>2. OpInv'
  BY <1>1 DEF OpInv, CommitSteps
<1>3. HeaderInv'
  BY DEF HeaderInv, Injective
<1>4. \A b \in Blocks : Uninstalled(b)' <=> Uninstalled(b)
  BY DEF Uninstalled
<1>5. BufferInv' /\ PinnedWhileDirty'
  BY <1>4 DEF BufferInv, PinnedWhileDirty, Bread
<1>6. CopiesInv'
  BY DEF CopiesInv
<1>7. QED
  BY <1>1, <1>2, <1>3, <1>5, <1>6

LEMMA ReadHeadIInv ==
    ASSUME IInv, ReadHead
    PROVE  IInv'
<1> USE DEF IInv, ReadHead, durableVars
<1>1. TypeOK' /\ InTransaction' = InTransaction
  BY DEF TypeOK, InTransaction
<1>2. OpInv'
  BY <1>1 DEF OpInv, CommitSteps
<1>3. HeaderInv'
  BY DEF HeaderInv, Injective, TypeOK
<1>4. \A b \in Blocks : ~Uninstalled(b)' /\ ~Uninstalled(b)
  BY DEF Uninstalled, HeaderInv
<1>5. BufferInv' /\ PinnedWhileDirty'
  BY <1>4 DEF BufferInv, PinnedWhileDirty, Bread
<1>6. CopiesInv'
  BY DEF CopiesInv, TypeOK
<1>7. QED
  BY <1>1, <1>2, <1>3, <1>5, <1>6

LEMMA InstallTransIInv ==
    ASSUME IInv, InstallTrans
    PROVE  IInv'
<1> USE DEF IInv
<1>1. lh \in Seq(Blocks) /\ tail \in 1..Len(lh) /\ Len(lh) <= LOGBLOCKS
  BY DEF InstallTrans, TypeOK, HeaderInv
<1>2. PICK b \in Blocks : b = lh[tail]
  BY <1>1
<1> tail \in Slots
  BY <1>1 DEF Slots
<1>3. step = "install" => Uninstalled(b)
  BY <1>1, <1>2 DEF Uninstalled
<1>4. step = "install" => pins[b] = 1
  BY <1>2, <1>3 DEF PinnedWhileDirty
<1>5. TypeOK'
  BY <1>2, <1>4 DEF TypeOK, InstallTrans, UnpinInstalled
<1>6. InTransaction' = InTransaction
  BY DEF InTransaction, InstallTrans
<1>7. OpInv'
  BY <1>6 DEF OpInv, InstallTrans, CommitSteps
<1>8. HeaderInv'
  BY <1>1 DEF HeaderInv, Injective, InstallTrans, LastBlock
<1>9. ~Uninstalled(b)'
  <2>1. lh' = lh /\ tail' = tail + 1
    BY DEF InstallTrans
  <2>2. step' = "install" => \A i \in 1..Len(lh) : lh[i] = b => i < tail'
    BY <1>1, <1>2, <2>1 DEF HeaderInv, Injective
  <2>3. step' \in {"install", "recover", "clear", "erase"}
    BY DEF InstallTrans
  <2>4. ASSUME NEW i \in 1..Len(lh), lh[i] = b, step' = "install" PROVE ~(i >= tail')
    BY <1>1, <2>1, <2>2, <2>4
  <2>5. QED
    BY <2>1, <2>3, <2>4 DEF Uninstalled
<1>10. \A c \in Blocks : c # b => (Uninstalled(c)' <=> Uninstalled(c))
  BY <1>1, <1>2 DEF InstallTrans, LastBlock, Uninstalled
<1>11. BufferInv'
  BY <1>2, <1>9, <1>10 DEF BufferInv, InstallTrans, TypeOK
<1>12. \A c \in Blocks : pins'[c] = IF Uninstalled(c)' THEN 1 ELSE 0
  <2>1. \A c \in Blocks : c # b => pins'[c] = pins[c]
    BY <1>2 DEF InstallTrans, UnpinInstalled, TypeOK
  <2>2. pins'[b] = 0
    BY <1>2, <1>4 DEF InstallTrans, UnpinInstalled, TypeOK, PinnedWhileDirty, Uninstalled
  <2>3. QED
    <3>1. \A c \in Blocks : pins[c] = IF Uninstalled(c) THEN 1 ELSE 0
      BY DEF PinnedWhileDirty
    <3>2. QED
      BY <1>9, <1>10, <2>1, <2>2, <3>1
<1>13. PinnedWhileDirty'
  BY <1>2, <1>10, <1>12 DEF PinnedWhileDirty, Bread, InstallTrans, TypeOK
<1>14. \A i \in 1..Len(lh) : i # tail =>
          cache'[lh[i]] = cache[lh[i]] /\ disk'[lh[i]] = disk[lh[i]]
  BY <1>1 DEF HeaderInv, Injective, InstallTrans, TypeOK
<1>15. disk'[b] = logarea[tail]
  BY <1>2 DEF InstallTrans, TypeOK
<1>16. CopiesInv'
  BY <1>1, <1>2, <1>14, <1>15 DEF CopiesInv, InstallTrans, LastBlock
<1>17. QED
  BY <1>5, <1>7, <1>8, <1>11, <1>13, <1>16

LEMMA EraseHeadIInv ==
    ASSUME IInv, EraseHead
    PROVE  IInv'
<1> USE DEF IInv, EraseHead
<1>1. TypeOK' /\ InTransaction' = InTransaction
  BY DEF TypeOK, InTransaction
<1>2. OpInv'
  BY <1>1 DEF OpInv, CommitSteps
<1>3. HeaderInv'
  BY DEF HeaderInv, Injective
<1>4. \A b \in Blocks : ~Uninstalled(b)' /\ ~Uninstalled(b)
  BY DEF Uninstalled
<1>5. BufferInv' /\ PinnedWhileDirty'
  BY <1>4 DEF BufferInv, PinnedWhileDirty, Bread
<1>6. CopiesInv'
  BY DEF CopiesInv
<1>7. QED
  BY <1>1, <1>2, <1>3, <1>5, <1>6

LEMMA FinishCommitIInv ==
    ASSUME IInv, NEW p \in Procs, FinishCommit(p)
    PROVE  IInv'
<1> USE DEF IInv, FinishCommit, durableVars
<1>1. TypeOK' /\ InTransaction' = InTransaction
  BY DEF TypeOK, InTransaction, Wakeup
<1>2. OpInv' /\ HeaderInv' /\ CopiesInv'
  BY <1>1 DEF OpInv, CommitSteps, HeaderInv, Injective, CopiesInv
<1>3. \A q \in Procs : pc[q] = "modified" => pc'[q] = "modified"
  BY DEF Wakeup, TypeOK
<1>4. \A b \in Blocks : Uninstalled(b)' <=> Uninstalled(b)
  BY DEF Uninstalled
<1>5. PinnedWhileDirty'
  BY <1>4 DEF PinnedWhileDirty, Bread
<1>6. BufferInv'
  BY <1>3, <1>4 DEF BufferInv, TypeOK
<1>7. QED
  BY <1>1, <1>2, <1>5, <1>6

LEMMA FetchIInv ==
    ASSUME IInv, NEW b \in Blocks, Fetch(b)
    PROVE  IInv'
<1> USE DEF IInv, Fetch, durableVars
<1>1. TypeOK' /\ InTransaction' = InTransaction
  BY DEF TypeOK, InTransaction
<1>2. OpInv' /\ HeaderInv'
  BY <1>1 DEF OpInv, HeaderInv, Injective
<1>3. \A c \in Blocks : Uninstalled(c)' <=> Uninstalled(c)
  BY DEF Uninstalled
<1>4. BufferInv' /\ PinnedWhileDirty'
  BY <1>3 DEF BufferInv, PinnedWhileDirty, Bread, TypeOK
<1>5. \A i \in 1..Len(lh) : Uninstalled(lh[i]) => cache'[lh[i]] = cache[lh[i]]
  BY DEF BufferInv, TypeOK
<1>6. \A i \in 1..Len(lh) :
          \/ step \in {"write_log", "write_head"}
          \/ step = "install" /\ i >= tail
          => Uninstalled(lh[i])
  BY DEF Uninstalled
<1>7. CopiesInv'
  <2>1. Len(lh) \in Nat /\ tail \in Nat
    BY DEF TypeOK
  <2>2. ASSUME step = "write_log", NEW i \in 1..(tail - 1)
        PROVE  logarea[i] = cache'[lh[i]]
    <3>1. i \in 1..Len(lh)
      BY <2>1, <2>2 DEF HeaderInv
    <3>2. QED
      BY <1>5, <1>6, <2>2, <3>1 DEF CopiesInv
  <2>3. step = "write_head" => \A i \in 1..Len(lh) : logarea[i] = cache'[lh[i]]
    BY <1>5, <1>6 DEF CopiesInv
  <2>4. ASSUME step = "install", NEW i \in tail..Len(lh)
        PROVE  logarea[i] = cache'[lh[i]]
    <3>1. i \in 1..Len(lh) /\ i >= tail
      BY <2>1, <2>4 DEF HeaderInv
    <3>2. QED
      BY <1>5, <1>6, <2>4, <3>1 DEF CopiesInv
  <2>5. UNCHANGED <<step, tail, lh, logarea, disk>>
    OBVIOUS
  <2>6. QED
    BY <2>2, <2>3, <2>4, <2>5 DEF CopiesInv
<1>8. QED
  BY <1>1, <1>2, <1>4, <1>7

LEMMA RecycleIInv ==
    ASSUME IInv, NEW b \in Blocks, Recycle(b)
    PROVE  IInv'
<1> USE DEF IInv, Recycle, durableVars
<1>1. TypeOK' /\ InTransaction' = InTransaction
  BY DEF TypeOK, InTransaction
<1>2. OpInv' /\ HeaderInv'
  BY <1>1 DEF OpInv, HeaderInv, Injective
<1>3. ~Uninstalled(b)
  <2>1. pins[b] = IF Uninstalled(b) THEN 1 ELSE 0
    BY DEF PinnedWhileDirty
  <2>2. QED
    BY <2>1
<1>4. \A c \in Blocks : Uninstalled(c)' <=> Uninstalled(c)
  BY DEF Uninstalled
<1>5. BufferInv' /\ PinnedWhileDirty'
  BY <1>3, <1>4 DEF BufferInv, PinnedWhileDirty, Bread, TypeOK
<1>6. \A i \in 1..Len(lh) : Uninstalled(lh[i]) => cache'[lh[i]] = cache[lh[i]]
  BY <1>3 DEF TypeOK
<1>7. \A i \in 1..Len(lh) :
          \/ step \in {"write_log", "write_head"}
          \/ step = "install" /\ i >= tail
          => Uninstalled(lh[i])
  BY DEF Uninstalled
<1>8. CopiesInv'
  <2>1. Len(lh) \in Nat /\ tail \in Nat
    BY DEF TypeOK
  <2>2. ASSUME step = "write_log", NEW i \in 1..(tail - 1)
        PROVE  logarea[i] = cache'[lh[i]]
    <3>1. i \in 1..Len(lh)
      BY <2>1, <2>2 DEF HeaderInv
    <3>2. QED
      BY <1>6, <1>7, <2>2, <3>1 DEF CopiesInv
  <2>3. step = "write_head" => \A i \in 1..Len(lh) : logarea[i] = cache'[lh[i]]
    BY <1>6, <1>7 DEF CopiesInv
  <2>4. ASSUME step = "install", NEW i \in tail..Len(lh)
        PROVE  logarea[i] = cache'[lh[i]]
    <3>1. i \in 1..Len(lh) /\ i >= tail
      BY <2>1, <2>4 DEF HeaderInv
    <3>2. QED
      BY <1>6, <1>7, <2>4, <3>1 DEF CopiesInv
  <2>5. UNCHANGED <<step, tail, lh, logarea, disk>>
    OBVIOUS
  <2>6. QED
    BY <2>2, <2>3, <2>4, <2>5 DEF CopiesInv
<1>9. QED
  BY <1>1, <1>2, <1>5, <1>8

LEMMA CrashIInv ==
    ASSUME IInv, Crash
    PROVE  IInv'
<1> USE DEF IInv
<1>1. step = "write_log" => tail \in Slots
  BY DEF HeaderInv, TypeOK, Slots
<1>2. step \in {"install", "recover"} => lh[tail] \in Blocks
  BY DEF HeaderInv, TypeOK
<1>3. logarea' \in [Slots -> Data] /\ disk' \in [Blocks -> Data]
  <2>1. logarea \in [Slots -> Data] /\ disk \in [Blocks -> Data]
    BY DEF TypeOK
  <2>2. CASE UNCHANGED <<logarea, disk>>
    BY <2>1, <2>2
  <2>3. CASE /\ step = "write_log"
             /\ \E v \in Data : logarea' = [logarea EXCEPT ![tail] = v]
             /\ UNCHANGED disk
    BY <1>1, <2>1, <2>3
  <2>4. CASE /\ step \in {"install", "recover"}
             /\ \E v \in Data : disk' = [disk EXCEPT ![lh[tail]] = v]
             /\ UNCHANGED logarea
    BY <1>2, <2>1, <2>4
  <2>5. QED
    BY <2>2, <2>3, <2>4 DEF Crash
<1>4. TypeOK'
  BY <1>3 DEF Crash, TypeOK
<1>5. InTransaction' = {}
  BY DEF Crash, InTransaction
<1>6. OpInv'
  BY <1>5, FS_EmptySet DEF Crash, OpInv, CommitSteps
<1>7. step' = "read_head" /\ lh' = <<>> /\ head' = head
  BY DEF Crash
<1>. CopiesInv'
  BY <1>7 DEF CopiesInv
<1>. HeaderInv'
  BY <1>7 DEF HeaderInv, Injective
<1>. \A b \in Blocks : ~Uninstalled(b)'
  BY <1>7 DEF Uninstalled
<1>8. /\ cache' = [b \in Blocks |-> NotCached]
      /\ holder' = [b \in Blocks |-> NoProc]
      /\ pins' = [b \in Blocks |-> 0]
  BY DEF Crash
<1>. BufferInv' /\ PinnedWhileDirty'
  BY <1>8 DEF BufferInv, PinnedWhileDirty, Bread
<1>9. QED
  BY <1>4, <1>6, <1>7, <1>8

-----------------------------------------------------------------------------
LEMMA NextIInv == IInv /\ [Next]_vars => IInv'
<1> SUFFICES ASSUME IInv, [Next]_vars PROVE IInv'
  OBVIOUS
<1>1. CASE Next
  BY <1>1, BeginOpSleepIInv, BeginOpIInv, EndOpIInv, FinishCommitIInv,
     ModifyIInv, LogWriteIInv, WriteLogIInv, WriteHeadIInv, ReadHeadIInv,
     InstallTransIInv, EraseHeadIInv, FetchIInv, RecycleIInv, CrashIInv
     DEF Next
<1>2. CASE UNCHANGED vars
  <2> USE <1>2 DEF vars, volatile, durableVars, IInv
  <2>1. TypeOK'
    BY DEF TypeOK
  <2>2. OpInv'
    BY DEF OpInv, InTransaction
  <2>3. HeaderInv'
    BY DEF HeaderInv, Injective
  <2>4. CopiesInv'
    BY DEF CopiesInv
  <2>5. \A b \in Blocks : Uninstalled(b)' <=> Uninstalled(b)
    BY DEF Uninstalled
  <2>6. BufferInv' /\ PinnedWhileDirty'
    BY <2>5 DEF BufferInv, PinnedWhileDirty, Bread
  <2>7. QED
    BY <2>1, <2>2, <2>3, <2>4, <2>6
<1>3. QED
  BY <1>1, <1>2

(* In every reachable state of the log, whatever the number of processes   *)
(* and blocks and wherever the machine crashed, the inductive invariant    *)
(* holds: the header on disk and the log area match what is being          *)
(* committed, installed or recovered.                                      *)
THEOREM LogInvariant == Spec => []IInv
BY InitIInv, NextIInv, PTL DEF Spec

(* The log's variables keep their types. *)
THEOREM LogTypeCorrect == Spec => []TypeOK
<1>1. IInv => TypeOK
  BY DEF IInv
<1>2. QED
  BY <1>1, LogInvariant, PTL

(* A buffer is pinned exactly once and exactly while its logged contents   *)
(* have not been installed, and every other idle buffer is clean: bget may *)
(* recycle any buffer it finds with no references.                         *)
THEOREM PinsProtectDirtyBuffers == Spec => []PinnedWhileDirty
<1>1. IInv => PinnedWhileDirty
  BY DEF IInv
<1>2. QED
  BY <1>1, LogInvariant, PTL

-----------------------------------------------------------------------------
(* Replaying a header without duplicates gives each block it names its log *)
(* copy, and leaves every other block alone.                               *)
LEMMA ReplayAt ==
    ASSUME NEW hd \in Seq(Blocks), Injective(hd), Len(hd) <= LOGBLOCKS,
           NEW area \in [Slots -> Data], NEW dsk \in [Blocks -> Data]
    PROVE  /\ Replay(hd, area, dsk) \in [Blocks -> Data]
           /\ \A i \in 1..Len(hd) : Replay(hd, area, dsk)[hd[i]] = area[i]
           /\ \A b \in Blocks : (\A i \in 1..Len(hd) : hd[i] # b)
                                 => Replay(hd, area, dsk)[b] = dsk[b]
<1>1. \A i \in 1..Len(hd) : hd[i] \in Blocks /\ i \in Slots
  BY DEF Slots
<1>2. \A i \in 1..Len(hd) : (CHOOSE j \in 1..Len(hd) : hd[j] = hd[i]) = i
  BY DEF Injective
<1>3. \A b \in Blocks : (\E i \in 1..Len(hd) : hd[i] = b) =>
          (CHOOSE j \in 1..Len(hd) : hd[j] = b) \in 1..Len(hd)
  OBVIOUS
<1>4. \A i \in 1..Len(hd) : Replay(hd, area, dsk)[hd[i]] = area[i]
  BY <1>1, <1>2 DEF Replay
<1>5. Replay(hd, area, dsk) \in [Blocks -> Data]
  BY <1>1, <1>3 DEF Replay
<1>6. QED
  BY <1>4, <1>5 DEF Replay

(* An empty header: the disk is as it is. *)
LEMMA ReplayEmpty ==
    ASSUME NEW area, NEW dsk \in [Blocks -> Data]
    PROVE  Replay(<<>>, area, dsk) = dsk
BY DEF Replay

(* Once the home blocks hold the log's copies, the header may be erased. *)
LEMMA ReplayInstalled ==
    ASSUME NEW hd \in Seq(Blocks), Injective(hd), Len(hd) <= LOGBLOCKS,
           NEW area \in [Slots -> Data], NEW d \in [Blocks -> Data],
           \A i \in 1..Len(hd) : area[i] = d[hd[i]]
    PROVE  Replay(hd, area, d) = d
<1>1. ASSUME NEW b \in Blocks PROVE Replay(hd, area, d)[b] = d[b]
  <2>1. CASE \E i \in 1..Len(hd) : hd[i] = b
    <3>1. PICK i \in 1..Len(hd) : hd[i] = b
      BY <2>1
    <3>2. Replay(hd, area, d)[hd[i]] = area[i]
      BY ReplayAt
    <3>3. QED
      BY <3>1, <3>2
  <2>2. CASE \A i \in 1..Len(hd) : hd[i] # b
    BY <2>2, ReplayAt
  <2>3. QED
    BY <2>1, <2>2
<1>2. QED
  BY <1>1, ReplayAt

(* No step but the header write of a commit changes what recovery yields. *)
LEMMA LogicalDiskStep ==
    ASSUME IInv, Next
    PROVE  \/ LogicalDisk' = LogicalDisk
           \/ WriteHead /\ InTransaction = {}
<1> USE DEF IInv, LogicalDisk
<1>1. /\ lh \in Seq(Blocks) /\ head \in Seq(Blocks)
      /\ logarea \in [Slots -> Data] /\ disk \in [Blocks -> Data]
      /\ Injective(head) /\ Len(head) <= LOGBLOCKS
  BY DEF TypeOK, HeaderInv
<1>2. ASSUME UNCHANGED <<head, logarea, disk>> PROVE LogicalDisk' = LogicalDisk
  BY <1>2
<1>3. ASSUME step \in {"install", "recover"}, NEW v \in Data,
             disk' = [disk EXCEPT ![lh[tail]] = v], UNCHANGED <<head, logarea>>
      PROVE  LogicalDisk' = LogicalDisk
  <2>1. head = lh /\ tail \in 1..Len(lh)
    BY <1>3 DEF HeaderInv
  <2>2. disk' \in [Blocks -> Data]
    BY <1>1, <1>3
  <2>3. \A b \in Blocks : (\A i \in 1..Len(head) : head[i] # b) => disk'[b] = disk[b]
    BY <1>1, <1>3, <2>1
  <2>4. Replay(head, logarea, disk') = Replay(head, logarea, disk)
    BY <2>3 DEF Replay
  <2>5. QED
    BY <1>3, <2>4
<1>4. CASE WriteLog
  BY <1>1, <1>4, ReplayEmpty DEF WriteLog, HeaderInv
<1>5. CASE WriteHead
  BY <1>5 DEF WriteHead, OpInv
<1>6. CASE InstallTrans
  <2>1. logarea[tail] \in Data
    BY <1>1, <1>6 DEF InstallTrans, HeaderInv, Slots
  <2>2. QED
    BY <1>3, <1>6, <2>1 DEF InstallTrans
<1>7. CASE EraseHead
  <2>1. head' = <<>> /\ disk' = disk
    BY <1>7 DEF EraseHead
  <2>2. \A i \in 1..Len(head) : logarea[i] = disk[head[i]]
    BY <1>7 DEF EraseHead, CopiesInv, HeaderInv
  <2>3. QED
    BY <1>1, <2>1, <2>2, ReplayInstalled, ReplayEmpty
<1>8. CASE Crash
  <2>1. CASE UNCHANGED <<logarea, disk>>
    BY <1>2, <1>8, <2>1 DEF Crash
  <2>2. CASE step = "write_log" /\ UNCHANGED disk
    BY <1>1, <1>8, <2>2, ReplayEmpty DEF Crash, HeaderInv
  <2>3. CASE /\ step \in {"install", "recover"}
             /\ \E v \in Data : disk' = [disk EXCEPT ![lh[tail]] = v]
             /\ UNCHANGED logarea
    BY <1>3, <1>8, <2>3 DEF Crash
  <2>4. QED
    BY <1>8, <2>1, <2>2, <2>3 DEF Crash
<1>9. CASE \/ ReadHead
           \/ \E p \in Procs : \/ BeginOpSleep(p) \/ BeginOp(p)
                               \/ EndOp(p) \/ FinishCommit(p)
           \/ \E p \in Procs, b \in Blocks, v \in Data : Modify(p, b, v)
           \/ \E p \in Procs, b \in Blocks : LogWrite(p, b)
           \/ \E b \in Blocks : Fetch(b) \/ Recycle(b)
  BY <1>2, <1>9 DEF ReadHead, BeginOpSleep, BeginOp, EndOp, FinishCommit,
     Modify, LogWrite, Fetch, Recycle, durableVars
<1>10. QED
  BY <1>4, <1>5, <1>6, <1>7, <1>8, <1>9 DEF Next

(* write_head is the commit point: no other step of commit or recovery,    *)
(* and no crash, changes what the disk holds after recovery.               *)
THEOREM HeaderWriteIsCommitPoint == Spec => CommitPoint
<1>1. IInv /\ [Next]_vars =>
        [LogicalDisk' # LogicalDisk => WriteHead /\ InTransaction = {}]_vars
  BY LogicalDiskStep
<1>2. QED
  BY <1>1, LogInvariant, PTL DEF Spec, CommitPoint

-----------------------------------------------------------------------------
(* Between batches, and from the commit point on, what a read returns is   *)
(* what a crash would leave.                                               *)
LEMMA ViewIsLogical ==
    /\ IInv
    /\ InTransaction = {}
    /\ step \notin {"write_log", "write_head"}
    => View = LogicalDisk
<1> SUFFICES ASSUME IInv, InTransaction = {},
                    step \notin {"write_log", "write_head"}
             PROVE  View = LogicalDisk
  OBVIOUS
<1> USE DEF IInv
<1>1. /\ lh \in Seq(Blocks) /\ head \in Seq(Blocks)
      /\ logarea \in [Slots -> Data] /\ disk \in [Blocks -> Data]
      /\ Injective(head) /\ Len(head) <= LOGBLOCKS
      /\ tail \in Nat /\ Len(lh) \in Nat
  BY DEF TypeOK, HeaderInv
<1>2. LogicalDisk \in [Blocks -> Data]
  BY <1>1, ReplayAt DEF LogicalDisk
<1>3. CASE Recovering
  BY <1>2, <1>3 DEF View
<1>4. CASE ~Recovering
  <2>1. \A b \in Blocks : holder[b] = NoProc
    BY DEF BufferInv, InTransaction, TypeOK
  <2>2. \A b \in Blocks : ~Uninstalled(b) => Bread(b) = disk[b]
    BY <2>1 DEF PinnedWhileDirty
  <2>3. step \in {"run", "finish", "install", "erase"}
    BY <1>4 DEF TypeOK, Recovering
  <2>4. CASE step \in {"run", "finish"}
    <3>1. lh = <<>> /\ head = <<>>
      BY <2>4 DEF HeaderInv, OpInv
    <3>2. \A b \in Blocks : ~Uninstalled(b)
      BY <3>1 DEF Uninstalled
    <3>3. LogicalDisk = disk
      BY <1>1, <3>1, ReplayEmpty DEF LogicalDisk
    <3>4. QED
      BY <1>1, <1>4, <2>2, <3>2, <3>3 DEF View
  <2>5. CASE step \in {"install", "erase"}
    <3>1. head = lh
      BY <2>5 DEF HeaderInv
    <3>2. ASSUME NEW i \in 1..Len(lh) PROVE Bread(lh[i]) = logarea[i]
      <4>1. lh[i] \in Blocks
        BY <1>1
      <4>2. CASE step = "install" /\ i >= tail
        <5>1. Uninstalled(lh[i])
          BY <4>2 DEF Uninstalled
        <5>2. logarea[i] = cache[lh[i]]
          BY <1>1, <4>2 DEF CopiesInv
        <5>3. QED
          BY <4>1, <5>1, <5>2 DEF BufferInv, Bread
      <4>3. CASE step = "erase" \/ i < tail
        <5>1. ~Uninstalled(lh[i])
          BY <1>1, <2>5, <3>1, <4>3 DEF Uninstalled, Injective
        <5>2. logarea[i] = disk[lh[i]]
          BY <1>1, <2>5, <4>3 DEF CopiesInv
        <5>3. QED
          BY <2>2, <4>1, <5>1, <5>2
      <4>4. QED
        BY <1>1, <2>5, <4>2, <4>3
    <3>3. ASSUME NEW b \in Blocks, \A i \in 1..Len(lh) : lh[i] # b
          PROVE  Bread(b) = disk[b]
      BY <2>2, <3>3 DEF Uninstalled
    <3>4. \A b \in Blocks : Bread(b) = LogicalDisk[b]
      BY <1>1, <3>1, <3>2, <3>3, ReplayAt DEF LogicalDisk
    <3>5. QED
      BY <1>2, <1>4, <3>4 DEF View
  <2>6. QED
    BY <2>3, <2>4, <2>5
<1>5. QED
  BY <1>3, <1>4

(* Steps that leave the header, the disk and the buffers alone, inside or  *)
(* outside recovery, change nothing a reader sees.                         *)
LEMMA ViewSame ==
    ASSUME UNCHANGED <<cache, head, logarea, disk>>, Recovering' <=> Recovering
    PROVE  View' = View /\ LogicalDisk' = LogicalDisk
BY DEF View, LogicalDisk, Bread

(* Fetching or recycling a buffer changes nothing a reader sees. *)
LEMMA BufferViewSame ==
    ASSUME IInv, NEW b \in Blocks, Fetch(b) \/ Recycle(b)
    PROVE  View' = View
<1>1. UNCHANGED <<head, logarea, disk, step>>
  BY DEF Fetch, Recycle, durableVars
<1>2. cache' = [cache EXCEPT ![b] = cache'[b]] /\ cache'[b] \in {disk[b], NotCached}
  BY DEF Fetch, Recycle, IInv, TypeOK
<1>. Bread(b) = disk[b]
  <2>1. Fetch(b) => Bread(b) = disk[b]
    BY DEF Fetch, Bread
  <2>2. Recycle(b) => ~Uninstalled(b) /\ holder[b] = NoProc
    <3>1. pins[b] = IF Uninstalled(b) THEN 1 ELSE 0
      BY DEF IInv, PinnedWhileDirty
    <3>2. QED
      BY <3>1 DEF Recycle
  <2>3. QED
    BY <2>1, <2>2 DEF IInv, PinnedWhileDirty
<1>. \A c \in Blocks : Bread(c)' = Bread(c)
  BY <1>1, <1>2 DEF Bread, IInv, TypeOK
<1>3. QED
  BY <1>1 DEF View, LogicalDisk, Recovering

(* Every step of the log is a step of AtomicDisk or leaves it unchanged. *)
LEMMA StepRefines ==
    ASSUME IInv, Next, IInv'
    PROVE  AD!Next \/ UNCHANGED <<View, LogicalDisk, InTransaction>>
<1> USE DEF IInv
<1>1. ASSUME NEW p \in Procs, BeginOpSleep(p)
      PROVE  UNCHANGED <<View, LogicalDisk, InTransaction>>
  BY <1>1, ViewSame DEF BeginOpSleep, durableVars, Recovering, InTransaction, TypeOK
<1>2. ASSUME NEW p \in Procs, BeginOp(p)
      PROVE  AD!Begin(p)
  <2>1. View' = View /\ LogicalDisk' = LogicalDisk
    BY <1>2, ViewSame DEF BeginOp, durableVars, Recovering
  <2>2. InTransaction' = InTransaction \cup {p} /\ p \notin InTransaction
    BY <1>2 DEF BeginOp, InTransaction, TypeOK
  <2>3. step \notin {"write_log", "write_head"}
    BY <1>2 DEF BeginOp, MustWait, OpInv, CommitSteps
  <2>4. QED
    BY <2>1, <2>2, <2>3, ViewIsLogical DEF AD!Begin
<1>3. ASSUME NEW p \in Procs, EndOp(p)
      PROVE  AD!End(p)
  <2>1. p \in InTransaction /\ step = "run" /\ committing = 0
    BY <1>3 DEF EndOp, InTransaction, OpInv, TypeOK, CommitSteps
  <2>. pc = [q \in Procs |-> pc[q]]
    BY DEF TypeOK
  <2>2. InTransaction' = InTransaction \ {p}
    BY <1>3, <2>1 DEF EndOp, InTransaction, Wakeup
  <2>3. View' = View /\ LogicalDisk' = LogicalDisk
    BY <1>3, <2>1, ViewSame DEF EndOp, durableVars, Recovering
  <2>4. QED
    BY <2>1, <2>2, <2>3 DEF AD!End
<1>4. ASSUME NEW p \in Procs, FinishCommit(p)
      PROVE  UNCHANGED <<View, LogicalDisk, InTransaction>>
  BY <1>4, ViewSame DEF FinishCommit, durableVars, Recovering, InTransaction,
     Wakeup, TypeOK
<1>5. ASSUME NEW p \in Procs, NEW b \in Blocks, NEW v \in Data, Modify(p, b, v)
      PROVE  AD!Write(p, b, v)
  <2>1. p \in InTransaction /\ InTransaction' = InTransaction
    <3> pc = [q \in Procs |-> pc[q]]
      BY DEF TypeOK
    <3> QED
      BY <1>5 DEF Modify, InTransaction
  <2>2. step = "run" /\ step' = "run"
    BY <1>5, <2>1 DEF OpInv, Modify
  <2>3. LogicalDisk' = LogicalDisk
    BY <1>5 DEF Modify, durableVars, LogicalDisk
  <2>4. View' = [View EXCEPT ![b] = v]
    BY <1>5, <2>2 DEF View, Recovering, Modify, durableVars, Bread, TypeOK
  <2>5. QED
    BY <2>1, <2>3, <2>4 DEF AD!Write
<1>6. ASSUME NEW p \in Procs, NEW b \in Blocks, LogWrite(p, b)
      PROVE  UNCHANGED <<View, LogicalDisk, InTransaction>>
  BY <1>6, ViewSame DEF LogWrite, durableVars, Recovering, InTransaction, TypeOK
<1>7. ASSUME WriteLog
      PROVE  UNCHANGED <<View, LogicalDisk, InTransaction>>
  <2>1. \A b \in Blocks : Bread(b)' = Bread(b)
    BY <1>7 DEF WriteLog, Bread, TypeOK
  <2>2. View' = View
    BY <1>7, <2>1 DEF WriteLog, View, Recovering
  <2>3. LogicalDisk' = LogicalDisk
    BY <1>7, LogicalDiskStep DEF Next, WriteLog, WriteHead
  <2>4. QED
    BY <1>7, <2>2, <2>3 DEF WriteLog, InTransaction
<1>8. (/\ IInv
       /\ InTransaction = {}
       /\ step \notin {"write_log", "write_head"}
       => View = LogicalDisk)'
  BY ViewIsLogical, PTL
<1>9. ASSUME WriteHead
      PROVE  AD!Commit
  <2>1. InTransaction = {} /\ InTransaction' = {}
    BY <1>9 DEF WriteHead, OpInv, InTransaction
  <2>2. View' = View
    BY <1>9 DEF WriteHead, View, Recovering, Bread
  <2>3. View' = LogicalDisk'
    BY <1>8, <1>9, <2>1 DEF WriteHead
  <2>4. QED
    BY <2>1, <2>2, <2>3 DEF AD!Commit
<1>10. ASSUME ReadHead \/ InstallTrans \/ EraseHead
       PROVE  UNCHANGED <<View, LogicalDisk, InTransaction>>
  <2>1. /\ step \notin {"run", "write_log", "write_head"}
        /\ step' \notin {"write_log", "write_head"}
        /\ InTransaction' = InTransaction
    BY <1>10 DEF ReadHead, InstallTrans, EraseHead, InTransaction
  <2>2. InTransaction = {}
    BY <2>1 DEF OpInv
  <2>3. LogicalDisk' = LogicalDisk
    BY <1>10, <2>1, LogicalDiskStep DEF Next, WriteHead
  <2>4. QED
    BY <1>8, <2>1, <2>2, <2>3, ViewIsLogical
<1>11. ASSUME NEW b \in Blocks, Fetch(b) \/ Recycle(b)
       PROVE  UNCHANGED <<View, LogicalDisk, InTransaction>>
  BY <1>11, BufferViewSame DEF Fetch, Recycle, durableVars, LogicalDisk, InTransaction
<1>12. ASSUME Crash
       PROVE  AD!Crash
  <2>1. InTransaction' = {} /\ step' = "read_head"
    BY <1>12 DEF Crash, InTransaction
  <2>2. View' = LogicalDisk'
    BY <1>8, <2>1
  <2>3. LogicalDisk' = LogicalDisk
    BY <1>12, LogicalDiskStep DEF Next, Crash, WriteHead
  <2>4. QED
    BY <2>1, <2>2, <2>3 DEF AD!Crash
<1>13. QED
  BY <1>1, <1>2, <1>3, <1>4, <1>5, <1>6, <1>7, <1>9, <1>10, <1>11, <1>12
     DEF Next, AD!Next

(* The write-ahead log implements atomic and durable file-system           *)
(* operations, for any number of processes, blocks and crashes: operations *)
(* commit in whole batches, at the header write, and a crash at any point, *)
(* recovery included, restores exactly the last committed batch.           *)
THEOREM LogImplementsAtomicDisk == Spec => ImplementsAtomicDisk
<1>1. Init => AD!Init
  <2> SUFFICES ASSUME Init PROVE AD!Init
    OBVIOUS
  <2>1. InTransaction = {} /\ step = "read_head"
    BY DEF Init, InTransaction
  <2>2. View = LogicalDisk
    BY <2>1, InitIInv, ViewIsLogical
  <2>3. LogicalDisk = disk /\ disk \in [Blocks -> Data]
    BY ReplayEmpty DEF Init, LogicalDisk
  <2>4. QED
    BY <2>1, <2>2, <2>3 DEF AD!Init
<1>2. IInv /\ IInv' /\ [Next]_vars => [AD!Next]_<<View, LogicalDisk, InTransaction>>
  <2>1. ASSUME UNCHANGED vars
        PROVE  UNCHANGED <<View, LogicalDisk, InTransaction>>
    BY <2>1, ViewSame DEF vars, volatile, durableVars, InTransaction, Recovering
  <2>2. QED
    BY <2>1, StepRefines
<1>3. QED
  BY <1>1, <1>2, LogInvariant, PTL DEF Spec, ImplementsAtomicDisk, AD!Spec, AD!vars
=============================================================================
