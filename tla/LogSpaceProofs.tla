--------------------------- MODULE LogSpaceProofs ---------------------------
(* The reservation begin_op makes suffices: log_write never finds the log  *)
(* full, whatever the size of the log and the number of operations.        *)
EXTENDS LogProofs

USE ValuesDistinct, SizesAreNat

(* The blocks p has written that are in the log. *)
LoggedBlocks(p) == {b \in wrote[p] : \E i \in 1..Len(lh) : lh[i] = b}

(* What the operations in progress may still add to the log: of the        *)
(* MAXOPBLOCKS reserved for each, those it has not used.                   *)
Tickets == {t \in InTransaction \X (1..MAXOPBLOCKS) :
                t[2] > Cardinality(LoggedBlocks(t[1]))}

SpaceInv ==
    /\ \A p \in Procs : IsFiniteSet(wrote[p]) /\ Cardinality(wrote[p]) <= OpBlocks
    /\ \A b \in Blocks : holder[b] # NoProc => b \in wrote[holder[b]]
    /\ Len(lh) + Cardinality(Tickets) <= LOGBLOCKS
    /\ NoPanic

(* A set of tickets is finite, with at most MAXOPBLOCKS per process.       *)
LEMMA PairsBounded ==
    ASSUME NEW S, IsFiniteSet(S), NEW T \in SUBSET (S \X (1..MAXOPBLOCKS))
    PROVE  /\ IsFiniteSet(T) /\ Cardinality(T) \in Nat
           /\ Cardinality(T) <= Cardinality(S) * MAXOPBLOCKS
           /\ S = {} => Cardinality(T) = 0
<1>1. IsFiniteSet(1..MAXOPBLOCKS) /\ Cardinality(1..MAXOPBLOCKS) = MAXOPBLOCKS
  BY FS_Interval
<1>2. /\ IsFiniteSet(S \X (1..MAXOPBLOCKS))
      /\ Cardinality(S \X (1..MAXOPBLOCKS)) = Cardinality(S) * MAXOPBLOCKS
  BY <1>1, FS_Product
<1>3. IsFiniteSet(T) /\ Cardinality(T) <= Cardinality(S \X (1..MAXOPBLOCKS))
  BY <1>2, FS_Subset
<1>4. S = {} => T = {}
  OBVIOUS
<1>5. QED
  BY <1>2, <1>3, <1>4, FS_EmptySet, FS_CardinalityType

(* The tickets are finitely many, and none without an operation. *)
LEMMA TicketCount ==
    ASSUME TypeOK
    PROVE  /\ IsFiniteSet(Tickets) /\ Cardinality(Tickets) \in Nat
           /\ InTransaction = {} => Cardinality(Tickets) = 0
<1>1. InTransaction \in SUBSET Procs /\ Tickets \in SUBSET (InTransaction \X (1..MAXOPBLOCKS))
  BY DEF InTransaction, Tickets
<1>2. IsFiniteSet(InTransaction)
  BY <1>1, ProcsFinite, FS_Subset
<1>3. QED
  BY <1>1, <1>2, PairsBounded

(* The logged blocks of an operation are fewer than it reserved.           *)
LEMMA LoggedCount ==
    ASSUME SpaceInv, NEW p \in Procs
    PROVE  /\ IsFiniteSet(LoggedBlocks(p))
           /\ Cardinality(LoggedBlocks(p)) \in Nat
           /\ Cardinality(LoggedBlocks(p)) < MAXOPBLOCKS
<1>1. LoggedBlocks(p) \in SUBSET wrote[p]
  BY DEF LoggedBlocks
<1>2. IsFiniteSet(wrote[p]) /\ Cardinality(wrote[p]) <= OpBlocks
  BY DEF SpaceInv
<1>3. /\ IsFiniteSet(LoggedBlocks(p))
      /\ Cardinality(LoggedBlocks(p)) <= Cardinality(wrote[p])
  BY <1>1, <1>2, FS_Subset
<1>4. Cardinality(LoggedBlocks(p)) \in Nat /\ Cardinality(wrote[p]) \in Nat
  BY <1>2, <1>3, FS_CardinalityType
<1>5. QED
  BY <1>2, <1>3, <1>4, SMT

(* So log_write finds room.                                                *)
LEMMA RoomToLog ==
    ASSUME TypeOK, SpaceInv, NEW p \in InTransaction
    PROVE  Len(lh) < LOGBLOCKS
<1>0. p \in Procs /\ Len(lh) \in Nat
  BY DEF InTransaction, TypeOK
<1>1. <<p, MAXOPBLOCKS>> \in Tickets
  BY <1>0, LoggedCount DEF Tickets
<1>2. Cardinality(Tickets) \in Nat /\ Cardinality(Tickets) # 0
  BY <1>1, TicketCount, FS_EmptySet
<1>3. QED
  BY <1>0, <1>2 DEF SpaceInv

(* Tickets are not created by steps that start no operation and take no    *)
(* block out of what an operation has logged.                              *)
LEMMA FewerTickets ==
    ASSUME TypeOK, TypeOK', SpaceInv, InTransaction' \subseteq InTransaction,
           \A p \in Procs : IsFiniteSet(LoggedBlocks(p)'),
           \A p \in InTransaction' : LoggedBlocks(p) \subseteq LoggedBlocks(p)'
    PROVE  /\ Tickets' \in SUBSET Tickets
           /\ Cardinality(Tickets') \in Nat
           /\ Cardinality(Tickets') <= Cardinality(Tickets)
<1>1. ASSUME NEW p \in InTransaction'
      PROVE  /\ Cardinality(LoggedBlocks(p)) <= Cardinality(LoggedBlocks(p)')
             /\ Cardinality(LoggedBlocks(p)') \in Nat
             /\ Cardinality(LoggedBlocks(p)) \in Nat
  <2>1. p \in Procs
    BY <1>1 DEF InTransaction
  <2>2. IsFiniteSet(LoggedBlocks(p)') /\ LoggedBlocks(p) \in SUBSET LoggedBlocks(p)'
    BY <1>1, <2>1
  <2>3. QED
    BY <2>1, <2>2, LoggedCount, FS_Subset, FS_CardinalityType
<1>2. Tickets' \in SUBSET Tickets
  BY <1>1 DEF Tickets
<1>3. QED
  BY <1>2, TicketCount, FS_Subset, FS_CardinalityType

-----------------------------------------------------------------------------
(* An operation enters only if its reservation fits. *)
LEMMA BeginOpSpace ==
    ASSUME IInv, IInv', SpaceInv, NEW p \in Procs, BeginOp(p)
    PROVE  SpaceInv'
<1> USE DEF IInv
<1>1. /\ Len(lh) + (outstanding + 1) * MAXOPBLOCKS <= LOGBLOCKS
      /\ outstanding' = outstanding + 1
      /\ UNCHANGED <<lh, wrote, holder, panicked>>
  BY DEF BeginOp, MustWait, NoSpace, TypeOK
<1>2. /\ InTransaction' \in SUBSET Procs
      /\ Tickets' \in SUBSET (InTransaction' \X (1..MAXOPBLOCKS))
  BY DEF InTransaction, Tickets
<1>3. /\ Cardinality(Tickets') \in Nat
      /\ Cardinality(Tickets') <= (outstanding + 1) * MAXOPBLOCKS
  <2>1. IsFiniteSet(InTransaction')
    BY <1>2, ProcsFinite, FS_Subset
  <2>2. /\ Cardinality(Tickets') \in Nat
        /\ Cardinality(Tickets') <= Cardinality(InTransaction') * MAXOPBLOCKS
    BY <1>2, <2>1, PairsBounded
  <2>3. Cardinality(InTransaction') = outstanding + 1
    BY <1>1 DEF OpInv
  <2>4. QED
    BY <2>2, <2>3
<1>4. Len(lh)' + Cardinality(Tickets') <= LOGBLOCKS
  BY <1>1, <1>3 DEF TypeOK
<1>5. QED
  BY <1>1, <1>4 DEF SpaceInv, NoPanic

(* Writing a block already in the log can only use up tickets. *)
LEMMA ModifySpace ==
    ASSUME IInv, IInv', SpaceInv, NEW p \in Procs, NEW b \in Blocks,
           NEW v \in Data, Modify(p, b, v)
    PROVE  SpaceInv'
<1> USE DEF IInv
<1>1. /\ wrote' = [wrote EXCEPT ![p] = @ \cup {b}]
      /\ holder' = [holder EXCEPT ![b] = p]
      /\ b \in wrote[p] \/ Cardinality(wrote[p]) < OpBlocks
      /\ UNCHANGED <<lh, panicked>>
      /\ InTransaction' = InTransaction
  BY DEF Modify, InTransaction, TypeOK
<1>2. \A q \in Procs : wrote[q] \subseteq wrote'[q]
  BY <1>1 DEF TypeOK
<1>3. ASSUME NEW q \in Procs
      PROVE  IsFiniteSet(wrote'[q]) /\ Cardinality(wrote'[q]) <= OpBlocks
  <2>1. IsFiniteSet(wrote[q]) /\ Cardinality(wrote[q]) <= OpBlocks
    BY DEF SpaceInv
  <2>2. CASE q = p
    <3>1. wrote'[q] = wrote[q] \cup {b}
      BY <1>1, <2>2 DEF TypeOK
    <3>2. /\ IsFiniteSet(wrote[q] \cup {b}) /\ Cardinality(wrote[q]) \in Nat
          /\ Cardinality(wrote[q] \cup {b}) =
                IF b \in wrote[q] THEN Cardinality(wrote[q])
                ELSE Cardinality(wrote[q]) + 1
      BY <2>1, FS_AddElement, FS_CardinalityType
    <3>3. QED
      BY <1>1, <2>1, <2>2, <3>1, <3>2
  <2>3. CASE q # p
    BY <1>1, <2>1, <2>3 DEF TypeOK
  <2>4. QED
    BY <2>2, <2>3
<1>4. \A q \in Procs : /\ IsFiniteSet(LoggedBlocks(q)')
                       /\ LoggedBlocks(q) \subseteq LoggedBlocks(q)'
  <2>1. \A q \in Procs : LoggedBlocks(q)' \in SUBSET wrote'[q]
    BY DEF LoggedBlocks
  <2>2. \A q \in Procs : LoggedBlocks(q) \subseteq LoggedBlocks(q)'
    BY <1>1, <1>2 DEF LoggedBlocks
  <2>3. QED
    BY <1>3, <2>1, <2>2, FS_Subset
<1>5. Len(lh)' + Cardinality(Tickets') <= LOGBLOCKS
  <2>1. /\ Cardinality(Tickets') \in Nat
        /\ Cardinality(Tickets') <= Cardinality(Tickets)
    BY <1>1, <1>4, FewerTickets DEF InTransaction
  <2>2. QED
    BY <1>1, <2>1, TicketCount DEF SpaceInv, TypeOK
<1>6. \A c \in Blocks : holder'[c] # NoProc => c \in wrote'[holder'[c]]
  BY <1>1, <1>2 DEF SpaceInv, TypeOK
<1>7. QED
  BY <1>1, <1>3, <1>5, <1>6 DEF SpaceInv, NoPanic

(* A block that is new in the log uses up a ticket of its writer.          *)
LEMMA LogWriteSpace ==
    ASSUME IInv, IInv', SpaceInv, NEW p \in Procs, NEW b \in Blocks,
           LogWrite(p, b)
    PROVE  SpaceInv'
<1> USE DEF IInv
<1>1. p \in InTransaction
  BY DEF LogWrite, InTransaction
<1>2. Len(lh) < LOGBLOCKS /\ Len(lh) \in Nat
  BY <1>1, RoomToLog DEF TypeOK
<1>3. outstanding >= 1
  BY <1>1, TransactionCount DEF OpInv
<1>4. /\ RecordBlock(b) /\ UNCHANGED <<wrote, panicked>>
      /\ holder[b] = p /\ holder' = [holder EXCEPT ![b] = NoProc]
      /\ InTransaction' = InTransaction
  BY <1>2, <1>3 DEF LogWrite, InTransaction, TypeOK
<1>5. b \in wrote[p]
  BY <1>4 DEF SpaceInv
<1>6. \A q \in Procs : /\ IsFiniteSet(LoggedBlocks(q)')
                       /\ LoggedBlocks(q) \subseteq LoggedBlocks(q)'
  <2>1. \A q \in Procs : LoggedBlocks(q)' \in SUBSET wrote[q]
    BY <1>4 DEF LoggedBlocks
  <2>2. \A c \in Blocks : (\E i \in 1..Len(lh) : lh[i] = c)
                           => \E i \in 1..Len(lh') : lh'[i] = c
    <3>1. lh \in Seq(Blocks)
      BY DEF TypeOK
    <3>2. lh' = lh \/ lh' = Append(lh, b)
      BY <1>4 DEF RecordBlock
    <3>3. QED
      BY <1>2, <3>1, <3>2, AppendBlock
  <2>3. \A q \in Procs : LoggedBlocks(q) \subseteq LoggedBlocks(q)'
    BY <1>4, <2>2 DEF LoggedBlocks, TypeOK
  <2>4. QED
    BY <2>1, <2>3, FS_Subset DEF SpaceInv
<1>7. /\ Tickets' \in SUBSET Tickets
      /\ Cardinality(Tickets') \in Nat
      /\ Cardinality(Tickets') <= Cardinality(Tickets)
  BY <1>4, <1>6, FewerTickets DEF InTransaction
<1>8. Len(lh)' + Cardinality(Tickets') <= LOGBLOCKS
  <2>1. CASE \E i \in 1..Len(lh) : lh[i] = b
    <3>1. lh' = lh
      BY <1>4, <2>1 DEF RecordBlock
    <3>2. QED
      BY <1>2, <1>7, <3>1, TicketCount DEF SpaceInv
  <2>2. CASE \A i \in 1..Len(lh) : lh[i] # b
    <3>1. lh' = Append(lh, b) /\ Len(lh') = Len(lh) + 1 /\ lh'[Len(lh) + 1] = b
      BY <1>4, <2>2, AppendBlock DEF RecordBlock, TypeOK
    <3> DEFINE k == Cardinality(LoggedBlocks(p))
               used == <<p, k + 1>>
    <3>2. k \in Nat /\ k < MAXOPBLOCKS /\ IsFiniteSet(LoggedBlocks(p))
      BY LoggedCount
    <3>3. used \in Tickets
      BY <1>1, <3>2 DEF Tickets
    <3>4. LoggedBlocks(p) \cup {b} \in SUBSET LoggedBlocks(p)' /\ b \notin LoggedBlocks(p)
      <4>1. b \in LoggedBlocks(p)'
        BY <1>2, <1>4, <1>5, <3>1 DEF LoggedBlocks
      <4>2. QED
        BY <1>6, <2>2, <4>1 DEF LoggedBlocks
    <3>5. Cardinality(LoggedBlocks(p)') >= k + 1 /\ Cardinality(LoggedBlocks(p)') \in Nat
      <4>1. Cardinality(LoggedBlocks(p) \cup {b}) = k + 1
        BY <3>2, <3>4, FS_AddElement
      <4>2. Cardinality(LoggedBlocks(p) \cup {b}) <= Cardinality(LoggedBlocks(p)')
        BY <1>6, <3>4, FS_Subset
      <4>3. QED
        BY <1>6, <3>2, <4>1, <4>2, FS_CardinalityType
    <3>6. used \notin Tickets'
      BY <3>2, <3>5 DEF Tickets
    <3>7. Tickets' \in SUBSET (Tickets \ {used})
      BY <1>7, <3>6
    <3>8. Cardinality(Tickets') <= Cardinality(Tickets) - 1
      <4> HIDE DEF used
      <4>1. /\ IsFiniteSet(Tickets \ {used})
            /\ Cardinality(Tickets \ {used}) = Cardinality(Tickets) - 1
        BY <3>3, TicketCount, FS_RemoveElement
      <4>2. QED
        BY <3>7, <4>1, FS_Subset
    <3>9. QED
      BY <1>2, <1>7, <3>1, <3>8, TicketCount DEF SpaceInv
  <2>3. QED
    BY <2>1, <2>2
<1>9. \A c \in Blocks : holder'[c] # NoProc => c \in wrote'[holder'[c]]
  BY <1>4 DEF SpaceInv, TypeOK
<1>10. QED
  BY <1>4, <1>8, <1>9 DEF SpaceInv, NoPanic

(* An operation that ends gives its tickets back. *)
LEMMA EndOpSpace ==
    ASSUME IInv, IInv', SpaceInv, NEW p \in Procs, EndOp(p)
    PROVE  SpaceInv'
<1> USE DEF IInv
<1>1. p \in InTransaction /\ committing = 0
  BY DEF EndOp, InTransaction, OpInv, CommitSteps, TypeOK
<1>2. /\ wrote' = [wrote EXCEPT ![p] = {}]
      /\ UNCHANGED <<lh, holder, panicked>>
      /\ InTransaction' = InTransaction \ {p}
  BY <1>1 DEF EndOp, InTransaction, Wakeup, TypeOK
<1>3. \A q \in Procs : IsFiniteSet(wrote'[q]) /\ Cardinality(wrote'[q]) <= OpBlocks
  BY <1>2, FS_EmptySet DEF SpaceInv, TypeOK
<1>4. \A q \in Procs : IsFiniteSet(LoggedBlocks(q)')
  <2>1. \A q \in Procs : LoggedBlocks(q)' \in SUBSET wrote'[q]
    BY DEF LoggedBlocks
  <2>2. QED
    BY <1>3, <2>1, FS_Subset
<1>5. \A q \in InTransaction' : LoggedBlocks(q) \subseteq LoggedBlocks(q)'
  BY <1>2 DEF LoggedBlocks, InTransaction, TypeOK
<1>6. Len(lh)' + Cardinality(Tickets') <= LOGBLOCKS
  <2>1. /\ Cardinality(Tickets') \in Nat
        /\ Cardinality(Tickets') <= Cardinality(Tickets)
    BY <1>2, <1>4, <1>5, FewerTickets
  <2>2. QED
    BY <1>2, <2>1, TicketCount DEF SpaceInv, TypeOK
<1>7. \A b \in Blocks : holder'[b] # NoProc => b \in wrote'[holder'[b]]
  <2>1. \A b \in Blocks : holder[b] # p
    BY DEF EndOp, BufferInv
  <2>2. QED
    BY <1>2, <2>1 DEF SpaceInv, TypeOK
<1>8. QED
  BY <1>2, <1>3, <1>6, <1>7 DEF SpaceInv, NoPanic

(* The steps of commit, recovery, the cache and a crash: an operation in   *)
(* progress finds the log as it was, and without one nothing is reserved.  *)
LEMMA OtherSpace ==
    ASSUME IInv, IInv', SpaceInv, UNCHANGED <<wrote, holder, panicked, InTransaction>>,
           InTransaction = {} \/ UNCHANGED lh
    PROVE  SpaceInv'
<1> USE DEF IInv
<1>1. Len(lh)' + Cardinality(Tickets') <= LOGBLOCKS
  <2>1. CASE InTransaction = {}
    <3>1. Tickets' = {}
      BY <2>1 DEF Tickets
    <3>2. Len(lh)' \in Nat /\ Len(lh)' <= LOGBLOCKS
      BY DEF HeaderInv, TypeOK
    <3>3. QED
      BY <3>1, <3>2, FS_EmptySet
  <2>2. CASE UNCHANGED lh
    <3>1. Tickets' = Tickets
      BY <2>2 DEF Tickets, LoggedBlocks
    <3>2. QED
      BY <2>2, <3>1 DEF SpaceInv
  <2>3. QED
    BY <2>1, <2>2
<1>2. QED
  BY <1>1 DEF SpaceInv, NoPanic

(* A reboot starts with an empty header and no operations. *)
LEMMA CrashSpace ==
    ASSUME IInv, IInv', Crash
    PROVE  SpaceInv'
<1> USE DEF IInv
<1>1. Tickets' = {}
  BY DEF Crash, Tickets, InTransaction
<1>2. Len(lh)' = 0
  BY DEF Crash
<1>3. QED
  BY <1>1, <1>2, FS_EmptySet DEF Crash, SpaceInv, NoPanic

(* SpaceInv is inductive relative to IInv. *)
LEMMA NextSpace ==
    ASSUME IInv, IInv', SpaceInv, [Next]_vars
    PROVE  SpaceInv'
<1>1. ASSUME NEW p \in Procs, BeginOpSleep(p) \/ FinishCommit(p)
      PROVE  SpaceInv'
  <2>1. InTransaction' = InTransaction
    BY <1>1 DEF BeginOpSleep, FinishCommit, Wakeup, InTransaction, IInv, TypeOK
  <2>2. QED
    BY <1>1, <2>1, OtherSpace DEF BeginOpSleep, FinishCommit
<1>2. ASSUME WriteLog \/ WriteHead \/ ReadHead \/ InstallTrans \/ EraseHead
      PROVE  SpaceInv'
  <2>1. InTransaction = {}
    BY <1>2 DEF WriteLog, WriteHead, ReadHead, InstallTrans, EraseHead, IInv, OpInv
  <2>2. UNCHANGED <<wrote, holder, panicked, InTransaction>>
    BY <1>2 DEF WriteLog, WriteHead, ReadHead, InstallTrans, EraseHead, InTransaction
  <2>3. QED
    BY <2>1, <2>2, OtherSpace
<1>3. ASSUME NEW b \in Blocks, Fetch(b) \/ Recycle(b)
      PROVE  SpaceInv'
  <2>1. UNCHANGED <<wrote, holder, panicked, InTransaction, lh>>
    BY <1>3 DEF Fetch, Recycle, InTransaction
  <2>2. QED
    BY <2>1, OtherSpace
<1>4. ASSUME UNCHANGED vars
      PROVE  SpaceInv'
  <2>1. UNCHANGED <<wrote, holder, panicked, InTransaction, lh>>
    BY <1>4 DEF vars, volatile, InTransaction
  <2>2. QED
    BY <2>1, OtherSpace
<1>5. QED
  BY <1>1, <1>2, <1>3, <1>4, BeginOpSpace, ModifySpace, LogWriteSpace, EndOpSpace,
     CrashSpace DEF Next

(* begin_op admits an operation only if the log has room for everything    *)
(* the operations in progress may still log, so log_write never panics     *)
(* with "too big a transaction" and end_op never finds a commit under way: *)
(* for any log size, if each operation logs fewer than MAXOPBLOCKS blocks. *)
THEOREM ReservationSuffices == Spec => []NoPanic
<1>1. Init => SpaceInv
  <2> SUFFICES ASSUME Init PROVE SpaceInv
    OBVIOUS
  <2>1. Tickets = {} /\ Len(lh) = 0
    BY DEF Init, Tickets, InTransaction
  <2>2. QED
    BY <2>1, FS_EmptySet DEF Init, SpaceInv, NoPanic
<1>2. IInv /\ IInv' /\ SpaceInv /\ [Next]_vars => SpaceInv'
  BY NextSpace
<1>3. SpaceInv => NoPanic
  BY DEF SpaceInv
<1>4. QED
  BY <1>1, <1>2, <1>3, LogInvariant, PTL DEF Spec
=============================================================================
