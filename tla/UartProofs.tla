----------------------------- MODULE UartProofs -----------------------------
(***************************************************************************)
(* Theorems about Uart, for any number of writers and of printing CPUs: no *)
(* transmit interrupt is missed, and the device is never given more bytes  *)
(* than one for each of those who can find it idle.                        *)
(***************************************************************************)
EXTENDS Uart, FiniteSetTheorems, TLAPS

(* tx_lock is held exactly by who is between its acquire and release. *)
TxLockInv ==
    /\ \A p \in Writers : at[p] = "loop" <=> tx_lock = p
    /\ intr = "locked" <=> tx_lock = Handler

(* A chunk is part of what is left of the write; who waits has some. *)
ChunkInv ==
    \A p \in Writers :
        /\ at[p] \in {"call", "loop", "asleep"} => nn[p] <= left[p]
        /\ at[p] = "asleep" => tx_busy = 1

(* Those who found the device idle and have not yet given it their byte:   *)
(* printing CPUs, the echo, and the writers, who take turns by tx_busy.    *)
Putting == {c \in Pollers : poll[c] = "put"}
Echo == IF intr = "echoput" THEN 1 ELSE 0
FifoInv == fifo + Cardinality(Putting) + Echo + (1 - tx_busy) <= 2 + Cardinality(Pollers)

UartInv == InterruptNotMissed /\ TxLockInv /\ ChunkInv /\ FifoInv

(* The number of printing CPUs that are about to put a byte. *)
LEMMA PuttingFinite ==
    ASSUME NEW S \in SUBSET Pollers
    PROVE  IsFiniteSet(S) /\ Cardinality(S) \in Nat
           /\ Cardinality(Pollers) \in Nat /\ Cardinality(S) <= Cardinality(Pollers)
BY PollersFinite, FS_Subset, FS_CardinalityType

(* The smaller of two numbers. *)
LEMMA MinOfTwo ==
    ASSUME NEW a \in Nat, NEW b \in Nat
    PROVE  Min({a, b}) \in Nat /\ Min({a, b}) <= a /\ Min({a, b}) <= b
<1>1. \E x \in {a, b} : \A y \in {a, b} : x =< y
  OBVIOUS
<1> QED
  BY DEF Min

(* The driver starts in a state that satisfies the invariant. *)
LEMMA UartInitEstablishes == UartInit => UartInv
<1> SUFFICES ASSUME UartInit PROVE UartInv
  OBVIOUS
<1>1. InterruptNotMissed
  BY UartSizes DEF UartInit, InterruptNotMissed, UartTypeOK
<1>2. TxLockInv /\ ChunkInv
  BY OwnersDiffer DEF UartInit, TxLockInv, ChunkInv, NoOwner, Handler
<1>3. FifoInv
  <2>1. Putting = {}
    BY DEF UartInit, Putting
  <2> QED
    BY <2>1, PuttingFinite DEF UartInit, FifoInv, Echo
<1> QED
  BY <1>1, <1>2, <1>3 DEF UartInv

(* A process calls consolewrite: it owes nothing to the device yet. *)
LEMMA ConsoleWriteStep ==
    ASSUME UartInv, NEW p \in Writers, NEW k \in Writes, ConsoleWrite(p, k)
    PROVE  UartInv'
<1> USE DEF UartInv, ConsoleWrite, device
<1>1. InterruptNotMissed'
  BY UartSizes DEF InterruptNotMissed, UartTypeOK
<1>2. TxLockInv'
  BY DEF TxLockInv
<1>3. ChunkInv'
  BY DEF ChunkInv
<1>4. FifoInv'
  BY DEF FifoInv, Putting, Echo
<1> QED
  BY <1>1, <1>2, <1>3, <1>4

(* consolewrite copies in the next chunk, at most as long as its buffer. *)
LEMMA CopyInStep ==
    ASSUME UartInv, NEW p \in Writers, CopyIn(p)
    PROVE  UartInv'
<1> USE DEF UartInv, CopyIn, device
<1>1. InterruptNotMissed'
  BY UartSizes, MinOfTwo DEF InterruptNotMissed, UartTypeOK
<1>2. TxLockInv'
  BY DEF TxLockInv
<1>3. ChunkInv'
  BY MinOfTwo, UartSizes DEF InterruptNotMissed, UartTypeOK, ChunkInv
<1>4. FifoInv'
  BY DEF FifoInv, Putting, Echo
<1> QED
  BY <1>1, <1>2, <1>3, <1>4

(* consolewrite returns, with nothing left to send. *)
LEMMA ConsoleWriteReturnsStep ==
    ASSUME UartInv, NEW p \in Writers, ConsoleWriteReturns(p)
    PROVE  UartInv'
<1> USE DEF UartInv, ConsoleWriteReturns, device
<1>1. InterruptNotMissed'
  BY DEF InterruptNotMissed, UartTypeOK
<1>2. TxLockInv'
  BY DEF TxLockInv
<1>3. ChunkInv'
  BY DEF ChunkInv
<1>4. FifoInv'
  BY DEF FifoInv, Putting, Echo
<1> QED
  BY <1>1, <1>2, <1>3, <1>4

(* uartwrite takes tx_lock, at its start or when sleep() returns. *)
LEMMA TxAcquireStep ==
    ASSUME UartInv, NEW p \in Writers, TxAcquire(p)
    PROVE  UartInv'
<1> USE OwnersDiffer DEF UartInv, TxAcquire, device, NoOwner, Handler
<1>1. InterruptNotMissed'
  BY DEF InterruptNotMissed, UartTypeOK
<1>2. TxLockInv'
  BY DEF InterruptNotMissed, UartTypeOK, TxLockInv
<1>3. ChunkInv'
  BY DEF ChunkInv
<1>4. FifoInv'
  BY DEF FifoInv, Putting, Echo
<1> QED
  BY <1>1, <1>2, <1>3, <1>4

(* uartwrite sleeps only while tx_busy promises another interrupt. *)
LEMMA TxSleepStep ==
    ASSUME UartInv, NEW p \in Writers, TxSleep(p)
    PROVE  UartInv'
<1> USE OwnersDiffer DEF UartInv, TxSleep, device, NoOwner, Handler
<1>1. InterruptNotMissed'
  BY DEF InterruptNotMissed, UartTypeOK
<1>2. TxLockInv'
  BY DEF InterruptNotMissed, UartTypeOK, TxLockInv
<1>3. ChunkInv'
  BY DEF InterruptNotMissed, UartTypeOK, ChunkInv
<1>4. FifoInv'
  BY DEF FifoInv, Putting, Echo
<1> QED
  BY <1>1, <1>2, <1>3, <1>4

(* uartwrite writes THR only when tx_busy is clear, that is, to an empty FIFO. *)
LEMMA TxSendStep ==
    ASSUME UartInv, NEW p \in Writers, TxSend(p)
    PROVE  UartInv'
<1> USE DEF UartInv, TxSend
<1>1. InterruptNotMissed'
  BY UartSizes DEF InterruptNotMissed, UartTypeOK, ChunkInv
<1>2. TxLockInv'
  BY DEF TxLockInv
<1>3. ChunkInv'
  BY DEF InterruptNotMissed, UartTypeOK, ChunkInv
<1>4. FifoInv'
  BY PuttingFinite DEF InterruptNotMissed, UartTypeOK, FifoInv, Putting, Echo
<1> QED
  BY <1>1, <1>2, <1>3, <1>4

(* uartwrite has sent its chunk and releases tx_lock. *)
LEMMA TxDoneStep ==
    ASSUME UartInv, NEW p \in Writers, TxDone(p)
    PROVE  UartInv'
<1> USE OwnersDiffer DEF UartInv, TxDone, device, NoOwner, Handler
<1>1. InterruptNotMissed'
  BY DEF InterruptNotMissed, UartTypeOK
<1>2. TxLockInv'
  BY DEF InterruptNotMissed, UartTypeOK, TxLockInv
<1>3. ChunkInv'
  BY DEF ChunkInv
<1>4. FifoInv'
  BY DEF FifoInv, Putting, Echo
<1> QED
  BY <1>1, <1>2, <1>3, <1>4

(* A CPU enters uartputc_sync. *)
LEMMA PollStartStep ==
    ASSUME UartInv, NEW c \in Pollers, PollStart(c)
    PROVE  UartInv'
<1> USE DEF UartInv, PollStart, device, writers
<1>1. InterruptNotMissed'
  BY DEF InterruptNotMissed, UartTypeOK
<1>2. TxLockInv'
  BY DEF TxLockInv
<1>3. ChunkInv'
  BY DEF ChunkInv
<1>4. FifoInv'
  BY DEF FifoInv, Putting, Echo
<1> QED
  BY <1>1, <1>2, <1>3, <1>4

(* uartputc_sync sees LSR idle: the FIFO is empty when it makes its claim. *)
LEMMA PollIdleStep ==
    ASSUME UartInv, NEW c \in Pollers, PollIdle(c)
    PROVE  UartInv'
<1> USE DEF UartInv, PollIdle, SeesIdle, device, writers
<1>1. InterruptNotMissed'
  BY DEF InterruptNotMissed, UartTypeOK
<1>2. TxLockInv'
  BY DEF TxLockInv
<1>3. ChunkInv'
  BY DEF ChunkInv
<1>4. FifoInv'
  BY PuttingFinite DEF InterruptNotMissed, UartTypeOK, FifoInv, Putting, Echo
<1> QED
  BY <1>1, <1>2, <1>3, <1>4

(* uartputc_sync writes THR: its claim becomes a byte of the FIFO. *)
LEMMA PollPutStep ==
    ASSUME UartInv, NEW c \in Pollers, PollPut(c)
    PROVE  UartInv'
<1> USE DEF UartInv, PollPut, writers
<1>1. InterruptNotMissed'
  BY DEF InterruptNotMissed, UartTypeOK
<1>2. TxLockInv'
  BY DEF TxLockInv
<1>3. ChunkInv'
  BY DEF ChunkInv
<1>4. FifoInv'
  <2>1. Putting' = Putting \ {c} /\ c \in Putting
    BY DEF InterruptNotMissed, UartTypeOK, Putting
  <2>2. Cardinality(Putting') = Cardinality(Putting) - 1
    BY <2>1, PuttingFinite, FS_RemoveElement DEF Putting
  <2> QED
    BY <2>2, PuttingFinite DEF InterruptNotMissed, UartTypeOK, FifoInv, Putting, Echo
<1> QED
  BY <1>1, <1>2, <1>3, <1>4

(* uartintr reads ISR, which clears the interrupt; it now is the promise. *)
LEMMA IntrAckStep ==
    ASSUME UartInv, IntrAck
    PROVE  UartInv'
<1> USE DEF UartInv, IntrAck, writers
<1>1. InterruptNotMissed'
  BY DEF InterruptNotMissed, UartTypeOK
<1>2. TxLockInv'
  BY DEF TxLockInv
<1>3. ChunkInv'
  BY DEF ChunkInv
<1>4. FifoInv'
  BY DEF FifoInv, Putting, Echo
<1> QED
  BY <1>1, <1>2, <1>3, <1>4

(* uartintr takes tx_lock. *)
LEMMA IntrLockStep ==
    ASSUME UartInv, IntrLock
    PROVE  UartInv'
<1> USE OwnersDiffer DEF UartInv, IntrLock, device, writers
<1>1. InterruptNotMissed'
  BY DEF InterruptNotMissed, UartTypeOK
<1>2. TxLockInv'
  BY DEF TxLockInv
<1>3. ChunkInv'
  BY DEF ChunkInv
<1>4. FifoInv'
  BY DEF FifoInv, Putting, Echo
<1> QED
  BY <1>1, <1>2, <1>3, <1>4

(* uartintr clears tx_busy and wakes the writers if the FIFO is empty; if  *)
(* it is not, the device will interrupt again.                             *)
LEMMA IntrTxStep ==
    ASSUME UartInv, IntrTx
    PROVE  UartInv'
<1> USE OwnersDiffer DEF UartInv, IntrTx, TxWakeup, device, NoOwner, Handler
<1>1. InterruptNotMissed'
  BY DEF InterruptNotMissed, UartTypeOK
<1>2. TxLockInv'
  BY DEF TxLockInv
<1>3. ChunkInv'
  BY DEF ChunkInv
<1>4. FifoInv'
  BY PuttingFinite DEF FifoInv, Putting, Echo
<1> QED
  BY <1>1, <1>2, <1>3, <1>4

(* uartintr reads an input character and begins to echo it. *)
LEMMA IntrGetcStep ==
    ASSUME UartInv, IntrGetc
    PROVE  UartInv'
<1> USE DEF UartInv, IntrGetc, writers
<1>1. InterruptNotMissed'
  BY UartSizes DEF InterruptNotMissed, UartTypeOK
<1>2. TxLockInv'
  BY DEF TxLockInv
<1>3. ChunkInv'
  BY DEF ChunkInv
<1>4. FifoInv'
  BY DEF FifoInv, Putting, Echo
<1> QED
  BY <1>1, <1>2, <1>3, <1>4

(* The echo sees LSR idle and makes its claim to the FIFO. *)
LEMMA IntrEchoIdleStep ==
    ASSUME UartInv, IntrEchoIdle
    PROVE  UartInv'
<1> USE DEF UartInv, IntrEchoIdle, SeesIdle, device, writers
<1>1. InterruptNotMissed'
  BY DEF InterruptNotMissed, UartTypeOK
<1>2. TxLockInv'
  BY DEF TxLockInv
<1>3. ChunkInv'
  BY DEF ChunkInv
<1>4. FifoInv'
  BY PuttingFinite DEF InterruptNotMissed, UartTypeOK, FifoInv, Putting, Echo
<1> QED
  BY <1>1, <1>2, <1>3, <1>4

(* The echo writes THR. *)
LEMMA IntrEchoPutStep ==
    ASSUME UartInv, IntrEchoPut
    PROVE  UartInv'
<1> USE DEF UartInv, IntrEchoPut, writers
<1>1. InterruptNotMissed'
  BY DEF InterruptNotMissed, UartTypeOK
<1>2. TxLockInv'
  BY DEF TxLockInv
<1>3. ChunkInv'
  BY DEF ChunkInv
<1>4. FifoInv'
  BY PuttingFinite DEF InterruptNotMissed, UartTypeOK, FifoInv, Putting, Echo
<1> QED
  BY <1>1, <1>2, <1>3, <1>4

(* uartintr returns, having looked at the transmitter. *)
LEMMA IntrEndsStep ==
    ASSUME UartInv, IntrEnds
    PROVE  UartInv'
<1> USE DEF UartInv, IntrEnds, device, writers
<1>1. InterruptNotMissed'
  BY DEF InterruptNotMissed, UartTypeOK
<1>2. TxLockInv'
  BY DEF TxLockInv
<1>3. ChunkInv'
  BY DEF ChunkInv
<1>4. FifoInv'
  BY DEF FifoInv, Putting, Echo
<1> QED
  BY <1>1, <1>2, <1>3, <1>4

(* The device sends a byte, and interrupts after the last one. *)
LEMMA DeviceSendsStep ==
    ASSUME UartInv, DeviceSends
    PROVE  UartInv'
<1> USE DEF UartInv, DeviceSends, writers
<1>1. InterruptNotMissed'
  BY DEF InterruptNotMissed, UartTypeOK
<1>2. TxLockInv'
  BY DEF TxLockInv
<1>3. ChunkInv'
  BY DEF ChunkInv
<1>4. FifoInv'
  BY PuttingFinite DEF InterruptNotMissed, UartTypeOK, FifoInv, Putting, Echo
<1> QED
  BY <1>1, <1>2, <1>3, <1>4

(* The device receives a character and interrupts. *)
LEMMA DeviceReceivesStep ==
    ASSUME UartInv, DeviceReceives
    PROVE  UartInv'
<1> USE DEF UartInv, DeviceReceives, writers
<1>1. InterruptNotMissed'
  BY UartSizes DEF InterruptNotMissed, UartTypeOK
<1>2. TxLockInv'
  BY DEF TxLockInv
<1>3. ChunkInv'
  BY DEF ChunkInv
<1>4. FifoInv'
  BY DEF FifoInv, Putting, Echo
<1> QED
  BY <1>1, <1>2, <1>3, <1>4

(* Steps that change nothing keep the invariant. *)
LEMMA UartStutter == UartInv /\ UNCHANGED uartVars => UartInv'
BY DEF uartVars, device, writers, UartInv, InterruptNotMissed, UartTypeOK,
   TxLockInv, ChunkInv, FifoInv, Putting, Echo

(* Every state of the driver satisfies the invariant. *)
THEOREM UartInvariant == UartSpec => []UartInv
<1>1. UartInv /\ [UartNext]_uartVars => UartInv'
  <2> SUFFICES ASSUME UartInv, UartNext PROVE UartInv'
    BY UartStutter
  <2>1. ASSUME NEW p \in Writers,
               \/ \E k \in Writes : ConsoleWrite(p, k)
               \/ CopyIn(p) \/ ConsoleWriteReturns(p)
               \/ TxAcquire(p) \/ TxSleep(p) \/ TxSend(p) \/ TxDone(p)
        PROVE  UartInv'
    BY <2>1, ConsoleWriteStep, CopyInStep, ConsoleWriteReturnsStep, TxAcquireStep,
       TxSleepStep, TxSendStep, TxDoneStep
  <2>2. ASSUME NEW c \in Pollers, PollStart(c) \/ PollIdle(c) \/ PollPut(c)
        PROVE  UartInv'
    BY <2>2, PollStartStep, PollIdleStep, PollPutStep
  <2>3. CASE \/ IntrAck \/ IntrLock \/ IntrTx \/ IntrGetc \/ IntrEchoIdle
             \/ IntrEchoPut \/ IntrEnds
    BY <2>3, IntrAckStep, IntrLockStep, IntrTxStep, IntrGetcStep, IntrEchoIdleStep,
       IntrEchoPutStep, IntrEndsStep
  <2>4. CASE DeviceSends \/ DeviceReceives
    BY <2>4, DeviceSendsStep, DeviceReceivesStep
  <2> QED
    BY <2>1, <2>2, <2>3, <2>4 DEF UartNext
<1> QED
  BY UartInitEstablishes, <1>1, PTL DEF UartSpec

(* While a writer sleeps in uartwrite the device will interrupt again, and *)
(* writers under tx_lock and CPUs that poll without it never overrun the   *)
(* device.                                                                 *)
THEOREM TransmitterIsSafe == UartSpec => []TransmitterSafe
<1>1. UartInv => TransmitterSafe
  BY PuttingFinite DEF UartInv, TransmitterSafe, FifoNeverOverruns, FifoInv,
     Putting, Echo, InterruptNotMissed, UartTypeOK
<1> QED
  BY UartInvariant, <1>1, PTL
=============================================================================
