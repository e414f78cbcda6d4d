------------------------------- MODULE Uart2 -------------------------------
(***************************************************************************)
(* Uart2T (spacket/uart2.h): a UART driver with a ring of receive buffers  *)
(* and a ring of transmit buffers.                                         *)
(*                                                                         *)
(* One thread calls the driver; the interrupt handlers run between any two *)
(* of the thread's critical sections.  A step of the thread is what it     *)
(* does up to the end of one critical section (or of one unlocked access   *)
(* to the rings); a step of an interrupt handler is the whole handler,     *)
(* which holds the lock of the system and is not preempted by the thread.  *)
(*                                                                         *)
(* The UART and its DMA belong to the operating system's HAL; they are     *)
(* modelled from how uart2.h uses them: a reception has a target buffer    *)
(* and a count of bytes left, a transmission has a source buffer, and both *)
(* have a state that the driver reads.                                     *)
(*                                                                         *)
(* Operators named ...Faulty are wrong on purpose and used nowhere: each   *)
(* stands before the definition it varies, for which it is substituted to  *)
(* see a property violated.                                                *)
(***************************************************************************)
EXTENDS Integers, Sequences, FiniteSets

CONSTANTS
  Buffer,       \* the buffers of the pool
  NoBuffer,
  RX_CAPACITY,
  TX_CAPACITY,
  MaxSize,      \* Buffer::maxSize, in bytes
  MaxHeld       \* bound: how many buffers the client keeps at a time

ASSUME ConstantsAssumption ==
  /\ RX_CAPACITY \in Nat \ {0}
  /\ TX_CAPACITY \in Nat \ {0}
  /\ MaxSize \in Nat \ {0}
  /\ MaxHeld \in Nat
  /\ NoBuffer \notin Buffer

VARIABLES
  rxRing, txRing,  \* the two rings of the driver
  free,            \* the buffers in the allocator's pool
  held,            \* the buffers the client owns
  size,            \* size of each buffer as its owner sees it
  stored,          \* bytes the DMA has written to each buffer
  state,           \* driver.state
  rx,              \* reception: driver.rxstate, DMA target, bytes left
  tx,              \* transmission: driver.txstate, DMA source
  pc,              \* where in the driver the thread is
  tmp,             \* the buffer in a local variable of the thread
  events,          \* what the last poll() reported and is not used up yet
  rxServiced,      \* result of the last serviceRx()
  fault            \* a FATAL_ERROR or a failed check of the HAL

pools  == <<free, held, tmp, size, stored>>
thread == <<pc, events, rxServiced>>
vars   == <<rxRing, txRing, free, held, size, stored, state, rx, tx, pc, tmp,
            events, rxServiced, fault>>

Rx == INSTANCE SpecialRing
        WITH T <- Buffer, Hole <- NoBuffer, Capacity <- RX_CAPACITY, ring <- rxRing
Tx == INSTANCE SpecialRing
        WITH T <- Buffer, Hole <- NoBuffer, Capacity <- TX_CAPACITY, ring <- txRing

Event == {"RX_READY", "TX_READY", "RX_NEEDS_SERVICE", "TX_NEEDS_SERVICE"}

Init ==
  /\ rxRing = Rx!Empty
  /\ txRing = Tx!Empty
  /\ free = Buffer
  /\ held = {}
  /\ size = [b \in Buffer |-> 0]
  /\ stored = [b \in Buffer |-> 0]
  /\ state = "STOP"
  /\ rx = [state |-> "IDLE", dma |-> NoBuffer, left |-> 0]
  /\ tx = [state |-> "IDLE", dma |-> NoBuffer]
  /\ pc = "boot"
  /\ tmp = NoBuffer
  /\ events = {}
  /\ rxServiced = "none"
  /\ fault = "none"

-----------------------------------------------------------------------------
(* The HAL as the driver uses it. *)

\* uartStartReceiveI: the DMA fills the buffer from its beginning.  The HAL
\* checks that no reception is active.
StartReceive(b, n) ==
  /\ rx' = [state |-> "ACTIVE", dma |-> b, left |-> n]
  /\ stored' = [stored EXCEPT ![b] = 0]

\* uartStartSendI.
StartSend(b) == tx' = [state |-> "ACTIVE", dma |-> b]

\* A received byte reaches memory while the DMA has room for it; a byte that
\* arrives otherwise is lost without a trace in the driver's state.
RxByte ==
  /\ rx.state = "ACTIVE"
  /\ rx.left > 0
  /\ rx' = [rx EXCEPT !.left = @ - 1]
  /\ stored' = [stored EXCEPT ![rx.dma] = @ + 1]
  /\ UNCHANGED <<rxRing, txRing, free, held, size, state, tx, tmp, thread, fault>>

-----------------------------------------------------------------------------
(* Interrupt handlers. *)

startRxI(r) == StartReceive(Rx!point(r), size[Rx!point(r)])

\* stopRxI: how many bytes were not received; 0 unless the reception was active.
stopRxI(entry) == IF entry = "ACTIVE" THEN rx.left ELSE 0

rxIsIdle(entry) == entry = "IDLE"

ResizeFaulty(b, n) == UNCHANGED size

Resize(b, n) == size' = [size EXCEPT ![b] = n]

rxContinueFaulty(advanced) == startRxI(rxRing)

\* rxFinishI once it has advanced the point: the next buffer, or rxStalled.
rxContinue(advanced) ==
  \/ Rx!hasPoint(advanced) /\ startRxI(advanced)
  \/ /\ ~Rx!hasPoint(advanced)
     /\ rx' = [state |-> "IDLE", dma |-> NoBuffer, left |-> 0]
     /\ UNCHANGED stored

\* rxFinishI, entered with driver.rxstate = entry.
rxFinishI(entry) ==
  LET b        == Rx!point(rxRing)
      received == size[b] - stopRxI(entry)
  IN
  /\ \/ /\ rxIsIdle(entry)
        /\ UNCHANGED <<rxRing, size, stored, rx, fault>>
     \/ /\ ~rxIsIdle(entry) /\ ~Rx!hasPoint(rxRing)
        /\ fault' = "rxRing point is null"
        /\ rx' = [rx EXCEPT !.state = "IDLE"]
        /\ UNCHANGED <<rxRing, size, stored>>
     \/ /\ ~rxIsIdle(entry) /\ Rx!hasPoint(rxRing) /\ received = 0
        /\ startRxI(rxRing)
        /\ UNCHANGED <<rxRing, size, fault>>
     \/ /\ ~rxIsIdle(entry) /\ Rx!hasPoint(rxRing) /\ received # 0
        /\ Resize(b, received)
        /\ rxRing' = Rx!advancePoint(rxRing)
        /\ rxContinue(Rx!advancePoint(rxRing))
        /\ UNCHANGED fault
  /\ UNCHANGED <<txRing, free, held, state, tx, tmp, thread>>

\* The DMA has filled the buffer: the HAL enters rxEnd_ with rxstate COMPLETE
\* and makes it IDLE afterwards unless the handler restarted the reception.
rxEndI == rx.state = "ACTIVE" /\ rx.left = 0 /\ rxFinishI("COMPLETE")

\* The line has been idle for a character's time.
rxIdleI == state = "READY" /\ rxFinishI(rx.state)

\* A line error; a break alone is ignored.
rxErrorI(flags) ==
  /\ state = "READY"
  /\ \/ flags \ {"BREAK"} = {} /\ UNCHANGED vars
     \/ flags \ {"BREAK"} # {} /\ rxFinishI(rx.state)

txContinueFaulty(advanced) == tx' = [state |-> "IDLE", dma |-> NoBuffer]

\* txFinishI once it has advanced the point.
txContinue(advanced) ==
  \/ Tx!hasPoint(advanced) /\ StartSend(Tx!point(advanced))
  \/ ~Tx!hasPoint(advanced) /\ tx' = [state |-> "IDLE", dma |-> NoBuffer]

\* The DMA has sent the last byte: the HAL enters txEnd1_ with txstate COMPLETE
\* and makes it IDLE afterwards unless the handler started the next buffer.
txFinishI ==
  /\ tx.state = "ACTIVE"
  /\ txRing' = Tx!advancePoint(txRing)
  /\ txContinue(Tx!advancePoint(txRing))
  /\ UNCHANGED <<rxRing, pools, state, rx, thread, fault>>

-----------------------------------------------------------------------------
(* The thread inside the driver. *)

Goto(from, to) == pc = from /\ pc' = to

start ==
  /\ Goto("boot", "idle")
  /\ state' = "READY"
  /\ UNCHANGED <<rxRing, txRing, pools, rx, tx, events, rxServiced, fault>>

\* allocateRx, the unlocked test before its loop.
serviceRx ==
  /\ Goto("idle", IF Rx!canPut(rxRing) THEN "rxCreate" ELSE "rxStart")
  /\ events' = events \ {"RX_NEEDS_SERVICE"}
  /\ UNCHANGED <<rxRing, txRing, pools, state, rx, tx, rxServiced, fault>>

\* Buffer::create in the loop of allocateRx; without a buffer serviceRx fails
\* and does not come to startRx.
rxCreate ==
  /\ pc = "rxCreate"
  /\ \/ /\ free = {}
        /\ pc' = "idle"
        /\ rxServiced' = "fail"
        /\ UNCHANGED pools
     \/ \E b \in free :
          /\ free' = free \ {b}
          /\ tmp' = b
          /\ size' = [size EXCEPT ![b] = MaxSize]
          /\ pc' = "rxPut"
          /\ UNCHANGED <<held, stored, rxServiced>>
  /\ UNCHANGED <<rxRing, txRing, state, rx, tx, events, fault>>

\* Returns a buffer to the pool; its size and its contents are nobody's then.
Deallocate(b) ==
  /\ free' = free \union {b}
  /\ size' = [size EXCEPT ![b] = 0]
  /\ stored' = [stored EXCEPT ![b] = 0]

\* The critical section of allocateRx: the loop ends with one buffer more than
\* the ring can take, which goes back to the pool.
rxPut ==
  /\ \/ /\ ~Rx!canPut(rxRing)
        /\ Goto("rxPut", "rxStart")
        /\ Deallocate(tmp)
        /\ UNCHANGED rxRing
     \/ /\ Rx!canPut(rxRing)
        /\ Goto("rxPut", "rxCreate")
        /\ rxRing' = Rx!put(rxRing, tmp)
        /\ UNCHANGED <<free, size, stored>>
  /\ tmp' = NoBuffer
  /\ UNCHANGED <<txRing, held, state, rx, tx, events, rxServiced, fault>>

startRx ==
  /\ Goto("rxStart", "idle")
  /\ rxServiced' = "ok"
  /\ \/ /\ state # "READY" \/ rx.state # "IDLE" \/ ~Rx!hasPoint(rxRing)
        /\ UNCHANGED <<rx, stored>>
     \/ /\ state = "READY" /\ rx.state = "IDLE" /\ Rx!hasPoint(rxRing)
        /\ startRxI(rxRing)
  /\ UNCHANGED <<rxRing, txRing, free, held, size, state, tx, tmp, events, fault>>

\* rx() of a ring with nothing ready returns Driver2RxNotReady.
rxCall ==
  /\ pc = "idle"
  /\ Cardinality(held) < MaxHeld
  /\ \/ ~Rx!canGet(rxRing) /\ UNCHANGED <<rxRing, held, events>>
     \/ /\ Rx!canGet(rxRing)
        /\ held' = held \union {Rx!front(rxRing)}
        /\ rxRing' = Rx!get(rxRing)
        /\ events' = events \ {"RX_READY"}
  /\ UNCHANGED <<txRing, free, size, stored, state, rx, tx, pc, tmp, rxServiced, fault>>

serviceTx ==
  /\ Goto("idle", "txDeallocate")
  /\ events' = events \ {"TX_NEEDS_SERVICE"}
  /\ UNCHANGED <<rxRing, txRing, pools, state, rx, tx, rxServiced, fault>>

\* One turn of the loop of deallocateTx; the buffer is freed after the unlock.
deallocateTx ==
  /\ \/ /\ Tx!canGet(txRing)
        /\ pc = "txDeallocate" /\ UNCHANGED pc
        /\ Deallocate(Tx!front(txRing))
        /\ txRing' = Tx!get(txRing)
     \/ /\ ~Tx!canGet(txRing)
        /\ Goto("txDeallocate", "txStart")
        /\ UNCHANGED <<txRing, free, size, stored>>
  /\ UNCHANGED <<rxRing, held, state, rx, tx, tmp, events, rxServiced, fault>>

txCallFaulty(b) ==
  /\ pc = "idle"
  /\ txRing' = Tx!put(txRing, b)
  /\ held' = IF Tx!canPut(txRing) THEN held \ {b} ELSE held
  /\ events' = events \ {"TX_READY"}
  /\ UNCHANGED <<rxRing, free, size, stored, state, rx, tx, pc, tmp, rxServiced, fault>>

\* The critical section of tx(); with the ring full tx() returns
\* Driver2TxNotReady and leaves the buffer with the caller.
txCall(b) ==
  /\ \/ /\ ~Tx!canPut(txRing)
        /\ pc = "idle"
        /\ UNCHANGED <<txRing, held, pc, events>>
     \/ /\ Tx!canPut(txRing)
        /\ Goto("idle", "txStart")
        /\ txRing' = Tx!put(txRing, b)
        /\ held' = held \ {b}
        /\ events' = events \ {"TX_READY"}
  /\ UNCHANGED <<rxRing, free, size, stored, state, rx, tx, tmp, rxServiced, fault>>

startTx ==
  /\ Goto("txStart", "idle")
  /\ \/ /\ state # "READY" \/ tx.state # "IDLE" \/ ~Tx!hasPoint(txRing)
        /\ UNCHANGED tx
     \/ /\ state = "READY" /\ tx.state = "IDLE" /\ Tx!hasPoint(txRing)
        /\ StartSend(Tx!point(txRing))
  /\ UNCHANGED <<rxRing, txRing, pools, state, rx, events, rxServiced, fault>>

\* poll() reads the rings without the lock; interrupt handlers move only the
\* two point indices, so the reads of those two matter and are two steps.
poll ==
  /\ Goto("idle", "poll")
  /\ events' = {e \in {"RX_READY"} : Rx!canGet(rxRing)}
  /\ UNCHANGED <<rxRing, txRing, pools, state, rx, tx, rxServiced, fault>>

pollRestFaulty ==
  /\ Goto("poll", "idle")
  /\ events' = events
       \union {e \in {"TX_READY"} : Tx!canPut(txRing)}
       \union {e \in {"RX_NEEDS_SERVICE"} : Rx!canPut(rxRing)}
       \union {e \in {"TX_NEEDS_SERVICE"} : Tx!hasPoint(txRing)}
  /\ UNCHANGED <<rxRing, txRing, pools, state, rx, tx, rxServiced, fault>>

pollRest ==
  /\ Goto("poll", "idle")
  /\ events' = events
       \union {e \in {"TX_READY"} : Tx!canPut(txRing)}
       \union {e \in {"RX_NEEDS_SERVICE"} : Rx!canPut(rxRing)}
       \union {e \in {"TX_NEEDS_SERVICE"} : Tx!canGet(txRing)}
  /\ UNCHANGED <<rxRing, txRing, pools, state, rx, tx, rxServiced, fault>>

-----------------------------------------------------------------------------
(* The client's own buffers. *)

CreateBuffer(b, n) ==
  /\ pc = "idle"
  /\ Cardinality(held) < MaxHeld
  /\ free' = free \ {b}
  /\ held' = held \union {b}
  /\ size' = [size EXCEPT ![b] = n]
  /\ stored' = stored
  /\ UNCHANGED <<rxRing, txRing, state, rx, tx, pc, tmp, events, rxServiced, fault>>

ReleaseBuffer(b) ==
  /\ pc = "idle"
  /\ held' = held \ {b}
  /\ Deallocate(b)
  /\ UNCHANGED <<rxRing, txRing, state, rx, tx, pc, tmp, events, rxServiced, fault>>

-----------------------------------------------------------------------------

\* What the thread does once it is inside a call of the driver.
InCall ==
  rxCreate \/ rxPut \/ startRx \/ deallocateTx \/ startTx \/ pollRest

Client ==
  \/ start \/ serviceRx \/ rxCall \/ serviceTx \/ poll
  \/ \E b \in held : txCall(b) \/ ReleaseBuffer(b)
  \/ \E b \in free, n \in 1 .. MaxSize : CreateBuffer(b, n)

Interrupt ==
  \/ rxEndI \/ rxIdleI \/ txFinishI
  \/ \E flags \in SUBSET {"BREAK", "OTHER"} : rxErrorI(flags)

Next == InCall \/ Client \/ Interrupt \/ RxByte

Spec == Init /\ [][Next]_vars

\* The thread does not stop inside the driver, and a transmission that was
\* started ends; that bytes arrive, and that the client calls, is not assumed.
Fairness == WF_vars(InCall) /\ WF_vars(txFinishI)

FairSpec == Spec /\ Fairness

-----------------------------------------------------------------------------

RingBuffers(r) == {r.array[i] : i \in DOMAIN r.array} \ {NoBuffer}

RxQueue == INSTANCE StagedQueue
  WITH Item <- Buffer, Capacity <- RX_CAPACITY,
       queued <- Rx!Queued(rxRing), ready <- Rx!Ready(rxRing)
TxQueue == INSTANCE StagedQueue
  WITH Item <- Buffer, Capacity <- TX_CAPACITY,
       queued <- Tx!Queued(txRing), ready <- Tx!Ready(txRing)

TypeOK ==
  /\ rxRing \in Rx!Ring
  /\ txRing \in Tx!Ring
  /\ free \subseteq Buffer
  /\ held \subseteq Buffer
  /\ size \in [Buffer -> 0 .. MaxSize]
  /\ stored \in [Buffer -> 0 .. MaxSize]
  /\ state \in {"STOP", "READY"}
  /\ rx \in [state : {"IDLE", "ACTIVE"}, dma : Buffer \union {NoBuffer}, left : 0 .. MaxSize]
  /\ tx \in [state : {"IDLE", "ACTIVE"}, dma : Buffer \union {NoBuffer}]
  /\ pc \in {"boot", "idle", "rxCreate", "rxPut", "rxStart", "txDeallocate", "txStart", "poll"}
  /\ tmp \in Buffer \union {NoBuffer}
  /\ events \subseteq Event
  /\ rxServiced \in {"none", "ok", "fail"}
  /\ fault \in {"none", "rxRing point is null"}

\* No interleaving of the thread and the interrupt handlers reaches the
\* FATAL_ERROR of rxFinishI (uart2.h:244): a reception in progress always has
\* its buffer at the point of the ring.
NoFault == fault = "none"

\* The DMA reads and writes only the buffer at the point of its ring: never one
\* that the client, the pool or another transfer owns (uart2.h:196-199, 221-232,
\* 254-258).
DmaAtPoint ==
  /\ rx.state = "ACTIVE" => Rx!hasPoint(rxRing) /\ rx.dma = Rx!point(rxRing)
  /\ tx.state = "ACTIVE" => Tx!hasPoint(txRing) /\ tx.dma = Tx!point(txRing)

\* No buffer is leaked and none has two owners, whatever the handlers do while
\* the thread is inside allocateRx or deallocateTx (uart2.h:163-186).
BuffersConserved ==
  LET owners == <<free, held, {tmp} \ {NoBuffer}, RingBuffers(rxRing), RingBuffers(txRing)>>
  IN
  /\ Buffer = UNION {owners[i] : i \in 1 .. 5}
  /\ \A i, j \in 1 .. 5 : i # j => owners[i] \cap owners[j] = {}

\* A buffer that rx() will deliver is not empty and is exactly as long as what
\* was received into it, however often its reception was stopped and restarted
\* by an idle line, an error or the end of the buffer (uart2.h:234-261).
DeliveredAsReceived ==
  \A k \in DOMAIN Rx!Ready(rxRing) :
    LET b == Rx!Ready(rxRing)[k] IN size[b] = stored[b] /\ size[b] > 0

\* poll() reads without the lock, yet what it reports stays true until the
\* client acts on it: the handlers only make more of it true (uart2.h:110-118).
PollStaysTrue ==
  /\ "RX_READY" \in events => Rx!canGet(rxRing)
  /\ "TX_READY" \in events => Tx!canPut(txRing)
  /\ "RX_NEEDS_SERVICE" \in events => Rx!canPut(rxRing)
  /\ "TX_NEEDS_SERVICE" \in events => Tx!canGet(txRing)

\* A buffer accepted by tx() never waits for an idle transmitter once the call
\* has returned, however txFinishI falls between its two critical sections
\* (uart2.h:137-148, 263-274).
TransmitterNeverStalls ==
  tx.state = "IDLE" /\ Tx!hasPoint(txRing) => pc \in {"txDeallocate", "txStart"}

\* Receive buffers wait for an idle receiver only inside serviceRx, or after
\* a serviceRx that found the pool empty (uart2.h:100-108, 176-186).
ReceiverStallsOnlyWithoutBuffers ==
  rx.state = "IDLE" /\ Rx!hasPoint(rxRing)
    => pc \in {"rxCreate", "rxPut", "rxStart"} \/ rxServiced = "fail"

\* Neither direction stops for good, and no handler is fatal.
NeverStalls == NoFault /\ TransmitterNeverStalls /\ ReceiverStallsOnlyWithoutBuffers

\* Buffers leave each ring in the order they entered it, each once and after its
\* transfer, and no ring holds more than its capacity.
RingsAreStagedQueues == RxQueue!Spec /\ TxQueue!Spec

CallsReturn == (pc \notin {"boot", "idle"}) ~> (pc = "idle")

\* Every buffer accepted by tx() is sent (uart2.h:137-148, 263-274), and every
\* call of the driver returns, although allocateRx and deallocateTx loop until a
\* condition that interrupt handlers may change (uart2.h:164, 179).
AcceptedIsSent ==
  /\ CallsReturn
  /\ \A b \in Buffer :
       (\E k \in DOMAIN Tx!Queued(txRing) : Tx!Queued(txRing)[k] = b)
         ~> (\E k \in DOMAIN Tx!Ready(txRing) : Tx!Ready(txRing)[k] = b)
=============================================================================
