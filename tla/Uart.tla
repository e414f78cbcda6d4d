-------------------------------- MODULE Uart --------------------------------
(***************************************************************************)
(* UartT (src/common/include/spacket/uart.h): the driver that uart2.h has  *)
(* replaced.  Its client hands it buffers to fill and buffers to send,     *)
(* through two request queues; the interrupt handlers hand them back       *)
(* through two completion queues that belong to the client.                *)
(*                                                                         *)
(* A call of a request queue is one step, since the client makes it        *)
(* between lock() and unlock(); a step of an interrupt handler is the      *)
(* whole handler.  stop() is a step per critical section, with what its    *)
(* lock guard (guard_utils.h) really does.  Rings are sequences: Executor  *)
(* shows that RingT is one.                                                *)
(*                                                                         *)
(* Operators named ...Faulty are wrong on purpose and used nowhere.        *)
(***************************************************************************)
EXTENDS Integers, Sequences, FiniteSets, SequencesExt

CONSTANTS Buffer,
          RxRingCapacity, TxRingCapacity,
          RxDoneCapacity, TxDoneCapacity,   \* of the client's completion queues
          MaxSize,                          \* Buffer::maxSize
          MaxBytes                          \* bound: bytes that arrive on the line

(* The client never has more buffers in flight than it can take back: the  *)
(* driver halts when the queue of sent buffers is full.                    *)
ASSUME UartAssumption ==
    /\ IsFiniteSet(Buffer)
    /\ TxDoneCapacity \in Nat /\ Cardinality(Buffer) <= TxDoneCapacity
    /\ {RxRingCapacity, TxRingCapacity, RxDoneCapacity, MaxSize} \subseteq Nat \ {0}
    /\ MaxBytes \in Nat

VARIABLES rxRing, txRing, rxDone, txDone,
          held,      \* the client's own buffers and those of the pool, of full size
          rx, tx,    \* the HAL's state of reception and transmission
          data,      \* the bytes in each buffer, numbered as they arrived
          arrived,   \* how many bytes have arrived
          pc,        \* where in start() and stop() the client is
          locked,    \* whether the client holds the system lock
          disarmed,  \* of the guard in stop()
          fault      \* a FATAL_ERROR

rings == <<rxRing, txRing, rxDone, txDone, held>>
client == <<pc, locked, disarmed>>
uartVars == <<rings, rx, tx, data, arrived, client, fault>>

Idle == [state |-> "IDLE"]

UartInit == /\ rxRing = <<>> /\ txRing = <<>> /\ rxDone = <<>> /\ txDone = <<>>
            /\ held = Buffer
            /\ rx = Idle /\ tx = Idle
            /\ data = [b \in Buffer |-> <<>>]
            /\ arrived = 0
            /\ pc = "stopped" /\ locked = FALSE /\ disarmed = TRUE
            /\ fault = FALSE

-----------------------------------------------------------------------------
(* The HAL. *)
StartReceive(b) == /\ rx' = [state |-> "ACTIVE", dma |-> b]
                   /\ data' = [data EXCEPT ![b] = <<>>]
StopReceive == rx' = Idle /\ UNCHANGED data
StartSend(b) == tx' = [state |-> "ACTIVE", dma |-> b]

Filled == rx.state = "ACTIVE" /\ Len(data[rx.dma]) = MaxSize

RxByte == /\ arrived < MaxBytes
          /\ arrived' = arrived + 1
          /\ data' = IF rx.state = "ACTIVE" /\ ~Filled
                     THEN [data EXCEPT ![rx.dma] = Append(@, arrived)]
                     ELSE data
          /\ UNCHANGED <<rings, rx, tx, client, fault>>

-----------------------------------------------------------------------------
(* The interrupt handlers. *)
rxNextFaulty(ring) == StopReceive
rxNext(ring) == IF ring = <<>> THEN StopReceive ELSE StartReceive(Head(ring))

(* Nothing received: the same buffer again.  No room in the completion     *)
(* queue: the packet is lost, and the same buffer again.                   *)
rxKeeps(bytesReceived) == bytesReceived = 0 \/ Len(rxDone) = RxDoneCapacity

rxFinishI ==
    /\ ~locked
    /\ \/ (rx.state = "IDLE" \/ rxRing = <<>>) /\ UNCHANGED <<rings, rx, data, fault>>
       \/ /\ rx.state # "IDLE" /\ rxRing # <<>>
          /\ rxKeeps(Len(data[rx.dma]))
          /\ StartReceive(Head(rxRing))
          /\ UNCHANGED <<rings, fault>>
       \/ /\ rx.state # "IDLE" /\ rxRing # <<>>
          /\ ~rxKeeps(Len(data[rx.dma]))
          /\ fault' = (Len(rxDone) = RxDoneCapacity)
          /\ rxDone' = Append(rxDone, Head(rxRing))
          /\ rxRing' = Tail(rxRing)
          /\ rxNext(Tail(rxRing))
          /\ UNCHANGED <<txRing, txDone, held>>
    /\ UNCHANGED <<tx, arrived, client>>

rxEndI == Filled /\ rxFinishI
rxIdleI == rxFinishI
rxErrorI(flags) == "BREAK" \notin flags /\ rxFinishI

txNext(ring) == IF ring = <<>> THEN tx' = Idle ELSE StartSend(Head(ring))

(* The DMA has sent the last byte.  The handler would return on an empty   *)
(* ring, which DmaAtTail excludes.                                         *)
txFinishI ==
    /\ ~locked /\ tx.state = "ACTIVE" /\ txRing # <<>>
    /\ fault' = (Len(txDone) = TxDoneCapacity)
    /\ txDone' = Append(txDone, Head(txRing))
    /\ txRing' = Tail(txRing)
    /\ txNext(Tail(txRing))
    /\ UNCHANGED <<rxRing, rxDone, held, rx, data, arrived, client>>

-----------------------------------------------------------------------------
(* The client's calls. *)
rxRequestPut(b) ==
    /\ pc = "started" /\ b \in held /\ Len(rxRing) < RxRingCapacity
    /\ held' = held \ {b}
    /\ rxRing' = Append(rxRing, b)
    /\ IF rxRing = <<>> THEN StartReceive(b) ELSE UNCHANGED <<rx, data>>
    /\ UNCHANGED <<txRing, rxDone, txDone, tx, arrived, client, fault>>

txRequestPut(b) ==
    /\ pc = "started" /\ b \in held /\ Len(txRing) < TxRingCapacity
    /\ held' = held \ {b}
    /\ txRing' = Append(txRing, b)
    /\ IF txRing = <<>> THEN StartSend(b) ELSE UNCHANGED tx
    /\ UNCHANGED <<rxRing, rxDone, txDone, rx, data, arrived, client, fault>>

TakeReceived == /\ rxDone # <<>>
                /\ held' = held \union {Head(rxDone)}
                /\ rxDone' = Tail(rxDone)
                /\ data' = [data EXCEPT ![Head(rxDone)] = <<>>]
                /\ UNCHANGED <<rxRing, txRing, txDone, rx, tx, arrived, client, fault>>

TakeSent == /\ txDone # <<>>
            /\ held' = held \union {Head(txDone)}
            /\ txDone' = Tail(txDone)
            /\ UNCHANGED <<rxRing, txRing, rxDone, rx, tx, data, arrived, client, fault>>

Goto(from, to) == pc = from /\ pc' = to

start == /\ Goto("stopped", "started")
         /\ UNCHANGED <<rings, rx, tx, data, arrived, locked, disarmed, fault>>

(* uartStopReceive takes the lock itself and leaves it. *)
stop == /\ Goto("started", "lockRx")
        /\ StopReceive
        /\ UNCHANGED <<rings, tx, arrived, locked, disarmed, fault>>

LockRx == /\ Goto("lockRx", "drainRx")
          /\ locked' = TRUE /\ disarmed' = FALSE
          /\ UNCHANGED <<rings, rx, tx, data, arrived, fault>>

(* A turn of the loop: only the first has the lock. *)
DrainRx == /\ Goto("drainRx", "drainRx")
           /\ rxRing # <<>>
           /\ held' = held \union {Head(rxRing)} /\ rxRing' = Tail(rxRing)
           /\ locked' = FALSE /\ disarmed' = TRUE
           /\ UNCHANGED <<txRing, rxDone, txDone, rx, tx, data, arrived, fault>>

(* uartStopSend leaves the lock, whoever had taken it. *)
StopSend == /\ Goto("drainRx", "lockTx")
            /\ rxRing = <<>>
            /\ tx' = Idle
            /\ locked' = FALSE
            /\ UNCHANGED <<rings, rx, data, arrived, disarmed, fault>>

(* The assignment of a new guard takes over its function only: the         *)
(* temporary gives back the lock at once, and disarmed stays.              *)
LockTx == /\ Goto("lockTx", "drainTx")
          /\ UNCHANGED <<rings, rx, tx, data, arrived, locked, disarmed, fault>>

DrainTx == /\ Goto("drainTx", "drainTx")
           /\ txRing # <<>>
           /\ held' = held \union {Head(txRing)} /\ txRing' = Tail(txRing)
           /\ locked' = FALSE /\ disarmed' = TRUE
           /\ UNCHANGED <<rxRing, rxDone, txDone, rx, tx, data, arrived, fault>>

Stopped == /\ Goto("drainTx", "stopped")
           /\ txRing = <<>>
           /\ locked' = (locked /\ disarmed)
           /\ UNCHANGED <<rings, rx, tx, data, arrived, disarmed, fault>>

Stopping == LockRx \/ DrainRx \/ StopSend \/ LockTx \/ DrainTx \/ Stopped

UartNext == \/ RxByte \/ rxEndI \/ rxIdleI \/ txFinishI
            \/ \E flags \in SUBSET {"BREAK", "FRAMING"} : rxErrorI(flags)
            \/ \E b \in Buffer : rxRequestPut(b) \/ txRequestPut(b)
            \/ TakeReceived \/ TakeSent \/ start \/ stop \/ Stopping

(* The DMA sends, and stop() runs on. *)
UartSpec == UartInit /\ [][UartNext]_uartVars /\ WF_uartVars(txFinishI) /\ WF_uartVars(Stopping)

-----------------------------------------------------------------------------
UartTypeOK == /\ {rxRing, txRing, rxDone, txDone} \subseteq Seq(Buffer)
              /\ Len(rxRing) <= RxRingCapacity /\ Len(txRing) <= TxRingCapacity
              /\ Len(rxDone) <= RxDoneCapacity
              /\ held \subseteq Buffer
              /\ {rx, tx} \subseteq {Idle} \union [state : {"ACTIVE"}, dma : Buffer]
              /\ data \in [Buffer -> Seq(0 .. MaxBytes)]
              /\ \A b \in Buffer : Len(data[b]) <= MaxSize
              /\ arrived \in 0 .. MaxBytes
              /\ {locked, disarmed, fault} \subseteq BOOLEAN

(* Every buffer is with the client, in a ring or in a completion queue,    *)
(* and in one place only, whatever stop() interrupts (uart.h:141-279).     *)
Everywhere == rxRing \o txRing \o rxDone \o txDone
BuffersConserved == /\ IsInjective(Everywhere)
                    /\ held = Buffer \ ToSet(Everywhere)

(* "uartStartReceive invoked only if the ring was not empty" and its like  *)
(* for sending (uart.h:214-215,253-254): the DMA works on the tail of its  *)
(* ring, and it works whenever the ring has one, so that no request is     *)
(* ever forgotten.                                                         *)
DmaAtTail == /\ rx # Idle => rxRing # <<>> /\ rx.dma = Head(rxRing)
             /\ tx # Idle => txRing # <<>> /\ tx.dma = Head(txRing)
             /\ pc = "started" => (rx = Idle <=> rxRing = <<>>) /\ (tx = Idle <=> txRing = <<>>)

(* No handler finds a completion queue without room where it would halt    *)
(* (uart.h:239,251-270).                                                   *)
NoFault == ~fault

(* What the client is given is a run of bytes without a gap, and later     *)
(* runs came later; the gaps between the runs are lost packets             *)
(* (uart.h:221-245).                                                       *)
Run(d) == d # <<>> /\ \A i \in DOMAIN d : d[i] = Head(d) + i - 1
RunsInOrder == /\ \A k \in DOMAIN rxDone : Run(data[rxDone[k]])
               /\ \A k, l \in DOMAIN rxDone :
                     k < l => Last(data[rxDone[k]]) < Head(data[rxDone[l]])

(* After stop() the hardware rests, the rings are empty, and the system is *)
(* not left locked, though the guard forgets what it holds (uart.h:141-158,*)
(* guard_utils.h:31-57).                                                   *)
StopsClean == pc = "stopped" => /\ rx = Idle /\ tx = Idle
                                /\ rxRing = <<>> /\ txRing = <<>>
                                /\ ~locked

(* No buffer is lost or in two places, the DMA works on the tail of its    *)
(* ring, packets are runs of bytes in their order, and stop() leaves the   *)
(* driver idle, empty and unlocked.                                        *)
UartSafe == /\ UartTypeOK /\ BuffersConserved /\ DmaAtTail
            /\ NoFault /\ RunsInOrder /\ StopsClean

(* A buffer to send is sent or given back by stop() (uart.h:191-201,       *)
(* 248-279).                                                               *)
RequestsComplete == \A b \in Buffer : b \in ToSet(txRing) ~> b \notin ToSet(txRing)
=============================================================================
