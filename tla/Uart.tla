-------------------------------- MODULE Uart --------------------------------
(***************************************************************************)
(* The serial port (kernel/uart.c) and console output (consolewrite and    *)
(* consputc in kernel/console.c).  uartwrite sends the bytes of write()    *)
(* one transmit interrupt at a time; uartputc_sync, for printf and echo,   *)
(* polls the device and takes no lock; uartintr answers the device.  The   *)
(* device keeps the bytes it has not sent in a FIFO.  It interrupts when   *)
(* that becomes empty and when input arrives; the interrupt controller     *)
(* gives its interrupts to one CPU at a time.                              *)
(***************************************************************************)
EXTENDS Naturals, FiniteSets, FiniteSetsExt

CONSTANTS
    Writers,        \* processes in consolewrite
    Pollers,        \* CPUs in printf
    Writes,         \* values of n in calls of write
    ChunkSize,      \* consolewrite's buffer (32)
    MaxRx           \* input bytes the device can hold

NoOwner == "none"
Handler == "intr"

ASSUME UartSizes == Writes \subseteq Nat /\ MaxRx \in Nat /\ ChunkSize \in Nat \ {0}
ASSUME PollersFinite == IsFiniteSet(Pollers)
ASSUME OwnersDiffer == {NoOwner, Handler} \cap (Writers \cup Pollers) = {}

VARIABLES
    tx_busy,        \* is a byte of uartwrite on its way?
    tx_lock,        \* who holds tx_lock: a writer, Handler or NoOwner
    fifo, rx,       \* bytes in the device: to be sent, and received
    pending,        \* is the device's interrupt pending?
    at,             \* writers: where they are
    left, nn,       \* bytes of the write, and of its chunk, still to send
    poll,           \* pollers: "off", "spin" or, having seen LSR idle, "put"
    intr            \* uartintr: "off", "acked", "locked", "input", or echoing

device == <<fifo, rx, pending>>
writers == <<at, left, nn>>
uartVars == <<tx_busy, tx_lock, device, writers, poll, intr>>

UartTypeOK ==
    /\ tx_busy \in {0, 1} /\ pending \in {0, 1}
    /\ tx_lock \in Writers \cup {NoOwner, Handler}
    /\ fifo \in Nat /\ rx \in 0 .. MaxRx
    /\ at \in [Writers -> {"user", "copy", "call", "loop", "asleep"}]
    /\ left \in [Writers -> Nat] /\ nn \in [Writers -> 0 .. ChunkSize]
    /\ poll \in [Pollers -> {"off", "spin", "put"}]
    /\ intr \in {"off", "acked", "locked", "input", "echospin", "echoput"}

UartInit ==
    /\ tx_busy = 0 /\ tx_lock = NoOwner
    /\ fifo = 0 /\ rx = 0 /\ pending = 0
    /\ at = [p \in Writers |-> "user"]
    /\ left = [p \in Writers |-> 0] /\ nn = [p \in Writers |-> 0]
    /\ poll = [c \in Pollers |-> "off"]
    /\ intr = "off"

-----------------------------------------------------------------------------
(* consolewrite: the bytes are copied in and sent a buffer at a time.      *)
ConsoleWrite(p, n) ==
    /\ at[p] = "user"
    /\ at' = [at EXCEPT ![p] = "copy"]
    /\ left' = [left EXCEPT ![p] = n]
    /\ UNCHANGED <<tx_busy, tx_lock, device, nn, poll, intr>>

CopyIn(p) ==
    /\ at[p] = "copy" /\ left[p] > 0
    /\ nn' = [nn EXCEPT ![p] = Min({ChunkSize, left[p]})]
    /\ at' = [at EXCEPT ![p] = "call"]
    /\ UNCHANGED <<tx_busy, tx_lock, device, left, poll, intr>>

(* All is written, or either_copyin fails. *)
ConsoleWriteReturns(p) ==
    /\ at[p] = "copy"
    /\ at' = [at EXCEPT ![p] = "user"]
    /\ left' = [left EXCEPT ![p] = 0]
    /\ UNCHANGED <<tx_busy, tx_lock, device, nn, poll, intr>>

(* uartwrite: acquire(&tx_lock), at the start and at the end of sleep() *)
TxAcquire(p) ==
    /\ at[p] = "call" /\ tx_lock = NoOwner
    /\ tx_lock' = p
    /\ at' = [at EXCEPT ![p] = "loop"]
    /\ UNCHANGED <<tx_busy, device, left, nn, poll, intr>>

TxSleep(p) ==
    /\ at[p] = "loop" /\ nn[p] > 0 /\ tx_busy # 0
    /\ at' = [at EXCEPT ![p] = "asleep"]
    /\ tx_lock' = NoOwner
    /\ UNCHANGED <<tx_busy, device, left, nn, poll, intr>>

TxSend(p) ==
    /\ at[p] = "loop" /\ nn[p] > 0 /\ tx_busy = 0
    /\ fifo' = fifo + 1
    /\ nn' = [nn EXCEPT ![p] = @ - 1] /\ left' = [left EXCEPT ![p] = @ - 1]
    /\ tx_busy' = 1
    /\ UNCHANGED <<tx_lock, rx, pending, at, poll, intr>>

TxDone(p) ==
    /\ at[p] = "loop" /\ nn[p] = 0
    /\ tx_lock' = NoOwner
    /\ at' = [at EXCEPT ![p] = "copy"]
    /\ UNCHANGED <<tx_busy, device, left, nn, poll, intr>>

(* uartputc_sync: wait for LSR_TX_IDLE, then write THR. *)
SeesIdleAnyway(c) == TRUE
SeesIdle(c) == fifo = 0

PollStart(c) ==
    /\ poll[c] = "off"
    /\ poll' = [poll EXCEPT ![c] = "spin"]
    /\ UNCHANGED <<tx_busy, tx_lock, device, writers, intr>>

PollIdle(c) ==
    /\ poll[c] = "spin" /\ SeesIdle(c)
    /\ poll' = [poll EXCEPT ![c] = "put"]
    /\ UNCHANGED <<tx_busy, tx_lock, device, writers, intr>>

PollPut(c) ==
    /\ poll[c] = "put"
    /\ fifo' = fifo + 1
    /\ poll' = [poll EXCEPT ![c] = "off"]
    /\ UNCHANGED <<tx_busy, tx_lock, rx, pending, writers, intr>>

-----------------------------------------------------------------------------
(* uartintr: reading ISR acknowledges the interrupt ... *)
IntrAck ==
    /\ intr = "off" /\ pending = 1
    /\ pending' = 0
    /\ intr' = "acked"
    /\ UNCHANGED <<tx_busy, tx_lock, fifo, rx, writers, poll>>

IntrLock ==
    /\ intr = "acked" /\ tx_lock = NoOwner
    /\ tx_lock' = Handler
    /\ intr' = "locked"
    /\ UNCHANGED <<tx_busy, device, writers, poll>>

(* ... an idle transmitter ends the wait of every writer ... *)
TxWakeupNone(f) == f
TxWakeup(f) == [p \in Writers |-> IF f[p] = "asleep" THEN "call" ELSE f[p]]

IntrTx ==
    /\ intr = "locked"
    /\ IF fifo = 0 THEN tx_busy' = 0 /\ at' = TxWakeup(at)
       ELSE UNCHANGED <<tx_busy, at>>
    /\ tx_lock' = NoOwner
    /\ intr' = "input"
    /\ UNCHANGED <<device, left, nn, poll>>

(* ... and all input goes to consoleintr (module Console), which echoes    *)
(* the character or not.                                                   *)
IntrGetc ==
    /\ intr = "input" /\ rx > 0
    /\ rx' = rx - 1
    /\ intr' \in {"input", "echospin"}
    /\ UNCHANGED <<tx_busy, tx_lock, fifo, pending, writers, poll>>

IntrEchoIdle ==
    /\ intr = "echospin" /\ SeesIdle(Handler)
    /\ intr' = "echoput"
    /\ UNCHANGED <<tx_busy, tx_lock, device, writers, poll>>

IntrEchoPut ==
    /\ intr = "echoput"
    /\ fifo' = fifo + 1
    /\ intr' = "input"
    /\ UNCHANGED <<tx_busy, tx_lock, rx, pending, writers, poll>>

IntrEnds ==
    /\ intr = "input" /\ rx = 0
    /\ intr' = "off"
    /\ UNCHANGED <<tx_busy, tx_lock, device, writers, poll>>

(* The device sends a byte, or receives one. *)
DeviceSends ==
    /\ fifo > 0
    /\ fifo' = fifo - 1
    /\ pending' = IF fifo = 1 THEN 1 ELSE pending
    /\ UNCHANGED <<tx_busy, tx_lock, rx, writers, poll, intr>>

DeviceReceives ==
    /\ rx < MaxRx
    /\ rx' = rx + 1
    /\ pending' = 1
    /\ UNCHANGED <<tx_busy, tx_lock, fifo, writers, poll, intr>>

UartNext ==
    \/ \E p \in Writers :
        \/ \E n \in Writes : ConsoleWrite(p, n)
        \/ CopyIn(p) \/ ConsoleWriteReturns(p)
        \/ TxAcquire(p) \/ TxSleep(p) \/ TxSend(p) \/ TxDone(p)
    \/ \E c \in Pollers : PollStart(c) \/ PollIdle(c) \/ PollPut(c)
    \/ IntrAck \/ IntrLock \/ IntrTx \/ IntrGetc \/ IntrEchoIdle \/ IntrEchoPut
    \/ IntrEnds \/ DeviceSends \/ DeviceReceives

UartSpec == UartInit /\ [][UartNext]_uartVars

(* The scheduler runs every runnable process (module Scheduler), pending   *)
(* interrupts are taken, a spin-lock is passed on to every CPU that wants  *)
(* it, and the device goes on sending.                                     *)
UartFairness ==
    /\ \A p \in Writers :
        /\ WF_uartVars(CopyIn(p) \/ TxSleep(p) \/ TxSend(p) \/ TxDone(p))
        /\ SF_uartVars(TxAcquire(p))
    /\ WF_uartVars(IntrAck \/ IntrTx \/ IntrGetc \/ IntrEchoIdle \/ IntrEchoPut \/ IntrEnds)
    /\ SF_uartVars(IntrLock)
    /\ WF_uartVars(DeviceSends)

-----------------------------------------------------------------------------
(* No interrupt is missed: while a writer sleeps, or a byte keeps tx_busy  *)
(* set, the device has something to send, or its interrupt is pending or   *)
(* not yet past the test of LSR; and input does not wait without one.      *)
(* Polling CPUs and echo fill the same FIFO without the lock meanwhile.    *)
InterruptNotMissed ==
    /\ UartTypeOK
    /\ tx_busy = 1 \/ (\E p \in Writers : at[p] = "asleep") =>
          fifo > 0 \/ pending = 1 \/ intr \in {"acked", "locked"}
    /\ rx > 0 => pending = 1 \/ intr # "off"

(* Bytes are not lost in the device: the writers, which trust tx_busy, and *)
(* the pollers, which trust LSR and take no lock, together never put more  *)
(* than one byte each into the FIFO.                                       *)
FifoNeverOverruns == fifo <= 2 + Cardinality(Pollers)

(* Writers under the lock and pollers without it share the device safely:  *)
(* no interrupt is missed and no byte is lost.                             *)
TransmitterSafe == InterruptNotMissed /\ FifoNeverOverruns

(* No kernel message and no input is under way. *)
Quiet == rx = 0 /\ \A c \in Pollers : poll[c] = "off"

(* A writer that waits for the transmitter is woken, whatever the other    *)
(* writers do, provided that kernel messages and input stop some time:     *)
(* both fill the FIFO without the lock, so that the handler may again and  *)
(* again find it busy.                                                     *)
SleeperIsWoken ==
    <>[]Quiet => \A p \in Writers : at[p] = "asleep" ~> at[p] # "asleep"
=============================================================================
