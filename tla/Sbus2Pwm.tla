------------------------------ MODULE Sbus2Pwm -----------------------------
(***************************************************************************)
(* The firmware examples/sbus2pwm: two UARTs, each with a BottomModule,    *)
(* the SBUS decoder on top of the first one, and the application, which    *)
(* reads packets through the decoder and writes a line of text for each to *)
(* the second one.  All of it runs in the main loop, one deferred          *)
(* procedure after another, out of the ring of one executor; interrupt     *)
(* handlers of the UARTs run in between.                                   *)
(*                                                                         *)
(* Everything lives in three pools of fixed size.  Objects are destroyed   *)
(* as their owners are, so how much of a pool is in use is a function of   *)
(* which objects exist.  Allocating from an exhausted pool is fatal (the   *)
(* firmware is built with SPACKET_STATIC_POOL_ALLOCATOR_ALL_ERRORS_FATAL), *)
(* so the model is of the firmware up to that point, and the property      *)
(* PoolsSuffice says it is never reached.                                   *)
(* The rings of the drivers are counters here; Uart2 models them in full.  *)
(*                                                                         *)
(* Operators named ...Faulty are wrong on purpose and used nowhere: each   *)
(* stands before the definition it varies, for which it is substituted to  *)
(* see a property violated.                                                *)
(***************************************************************************)
EXTENDS Integers, Sequences, FiniteSets, SequencesExt

CONSTANTS
  NUM_PROC,          \* size of the pool of functions
  POOL_NUM_BUFFERS,  \* size of the pool of buffers (and of BottomModule's operations)
  NUM_TXT_BUFFERS,   \* size of the pool of text buffers
  EXECUTOR_CAPACITY,
  RX_CAPACITY,
  TX_CAPACITY

\* With room for one buffer in the transmit ring, the two completions a write can
\* have are under way together only after a line has overtaken another.
ASSUME PoolsAssumption ==
  /\ {NUM_PROC, POOL_NUM_BUFFERS, NUM_TXT_BUFFERS, EXECUTOR_CAPACITY, RX_CAPACITY, TX_CAPACITY}
       \subseteq Nat \ {0}
  /\ POOL_NUM_BUFFERS >= 2 * RX_CAPACITY + 4
  /\ NUM_TXT_BUFFERS >= TX_CAPACITY + 2
  /\ \/ TX_CAPACITY = 1 /\ EXECUTOR_CAPACITY >= 4 /\ NUM_PROC >= 12
     \/ EXECUTOR_CAPACITY >= 5 /\ NUM_PROC >= 13

Uart == {"sbus", "monitor"}

VARIABLES
  ring,      \* the executor's ring: the deferred procedures, oldest first
  running,   \* the procedure being executed
  step,      \* what it does next
  events,    \* what driver.poll() reported to the running BottomModule::poll
  rx,        \* per UART: buffers received, buffers waiting, reception active
  tx,        \* per UART: buffers sent, buffers waiting (the first is being sent)
  readOp,    \* per BottomModule: is a read pending
  writeOp,   \* per BottomModule: is a write pending
  decoderOp, \* is a read of the decoder pending
  failed,    \* the errors that were returned and logged
  late,      \* history: whether a packet overtook the line of text of an earlier one
  overtook   \* history: whether a line of text overtook one that was pending

vars == <<ring, running, step, events, rx, tx, readOp, writeOp, decoderOp, failed, late, overtook>>

\* The deferred procedures, named for what they do and what they captured.
PollOf == [sbus |-> "sbusPoll", monitor |-> "monitorPoll"]  \* BottomModule::poll

Proc ==
  {"sbusPoll", "monitorPoll",
   "readDoneOp",   \* read completion of a pending BottomModule::read, with a packet
   "readDone",     \* read completion of a read that found a packet ready
   "decoded",      \* completion of the decoder's operation, with a decoded packet
   "notDecoded",   \* completion of the decoder's operation, with an error
   "writtenOp",    \* completion of a pending BottomModule::write
   "written"}      \* completion of a write that found room in the driver

-----------------------------------------------------------------------------
(* How much of each pool is in use. *)

\* The functions a procedure holds: its own closure, the completion in it, and
\* the decoder's operation, which comes from the same pool.
ProcFuncs(p) ==
  CASE p \in {"sbusPoll", "monitorPoll"} -> 1
    [] p \in {"readDoneOp", "readDone", "writtenOp", "written"} -> 2
    [] p \in {"decoded", "notDecoded"} -> 3
    [] OTHER -> 0

\* The buffers and the operations of BottomModule that a procedure holds.
ProcBuffers(p) ==
  CASE p = "readDoneOp" -> 2
    [] p \in {"readDone", "decoded", "writtenOp"} -> 1
    [] OTHER -> 0

Count(exists) == IF exists THEN 1 ELSE 0

\* How often p is in the ring, and what all of the ring holds of a pool.
Occurrences(p) == Cardinality({i \in DOMAIN ring : ring[i] = p})

RingHolds(holds(_)) ==
  LET of(p) == holds(p) * Occurrences(p)
  IN  of("sbusPoll") + of("monitorPoll") + of("readDoneOp") + of("readDone")
        + of("decoded") + of("notDecoded") + of("writtenOp") + of("written")

FuncsUsed ==
  RingHolds(ProcFuncs) + ProcFuncs(running)
    + Count(readOp["sbus"]) + Count(readOp["monitor"])
    + Count(writeOp["sbus"]) + Count(writeOp["monitor"])
    + (IF decoderOp THEN 2 ELSE 0)

RxBuffers(u) == rx[u].ready + rx[u].waiting

BuffersUsed ==
  RingHolds(ProcBuffers) + ProcBuffers(running)
    + Count(readOp["sbus"]) + Count(readOp["monitor"])
    + Count(writeOp["sbus"]) + Count(writeOp["monitor"])
    + RxBuffers("sbus") + RxBuffers("monitor")

TxtBuffersUsed ==
  Count(writeOp["monitor"]) + tx["monitor"].sent + tx["monitor"].waiting

-----------------------------------------------------------------------------
(* The drivers. *)

rxCanPut(u) == RxBuffers(u) < RX_CAPACITY

txCanPut(u) == tx[u].sent + tx[u].waiting < TX_CAPACITY

driverPollFaulty(u) ==
  {e \in {"RX_READY"} : rx[u].ready > 0}
    \union {e \in {"TX_READY"} : tx[u].waiting = 0}
    \union {e \in {"RX_NEEDS_SERVICE"} : rxCanPut(u)}
    \union {e \in {"TX_NEEDS_SERVICE"} : tx[u].sent > 0}

driverPoll(u) ==
  {e \in {"RX_READY"} : rx[u].ready > 0}
    \union {e \in {"TX_READY"} : txCanPut(u)}
    \union {e \in {"RX_NEEDS_SERVICE"} : rxCanPut(u)}
    \union {e \in {"TX_NEEDS_SERVICE"} : tx[u].sent > 0}

ServicePeakFaulty(u) == RX_CAPACITY + 1

\* How many buffers allocateRx takes: as many as there is room for, and one
\* more, with which it finds the ring full.
ServicePeak(u) == IF rxCanPut(u) THEN RX_CAPACITY - RxBuffers(u) + 1 ELSE 0

serviceRx(u) ==
  rx' = [rx EXCEPT ![u] = [ready |-> @.ready, waiting |-> RX_CAPACITY - @.ready, active |-> RX_CAPACITY > @.ready]]

\* The packet at the ring's tail goes to the caller.
TakeReceived(u) == rx' = [rx EXCEPT ![u].ready = @ - 1]

\* tx() and serviceTx() of a ring, as functions of its counters.
Accept(t)   == [t EXCEPT !.waiting = @ + 1]
FreeSent(t) == [t EXCEPT !.sent = 0]

\* A line of text takes about 1 ms to send (97 bytes at 921600 baud), a packet
\* 3 ms to receive (25 bytes of 12 bits at 100000 baud): on a board the line of a
\* packet has been sent before the next one is complete, and late stays FALSE.
LineSent == tx["monitor"].waiting = 0 /\ ~writeOp["monitor"]

\* rxFinishI with bytes received.
Receive(u) ==
  /\ rx[u].active
  /\ late' = (late \/ (u = "sbus" /\ ~LineSent))
  /\ rx' = [rx EXCEPT ![u] =
       [ready |-> @.ready + 1, waiting |-> @.waiting - 1, active |-> @.waiting > 1]]
  /\ UNCHANGED <<ring, running, step, events, tx, readOp, writeOp, decoderOp, failed, overtook>>

\* txFinishI.
Sent(u) ==
  /\ tx[u].waiting > 0
  /\ tx' = [tx EXCEPT ![u] = [sent |-> @.sent + 1, waiting |-> @.waiting - 1]]
  /\ UNCHANGED <<ring, running, step, events, rx, readOp, writeOp, decoderOp, failed, late, overtook>>

-----------------------------------------------------------------------------
(* The executor. *)

\* RingT::put, for which defer() destroys what it cannot take.
defer(p) ==
  IF Len(ring) < EXECUTOR_CAPACITY
  THEN ring' = Append(ring, p) /\ UNCHANGED failed
  ELSE failed' = failed \union {"ExecutorRingFull"} /\ UNCHANGED ring

CanDefer == Len(ring) < EXECUTOR_CAPACITY

FirstStep(p) ==
  CASE p \in {"sbusPoll", "monitorPoll"} -> "poll"
    [] p \in {"readDoneOp", "readDone"} -> "readCompleted"
    [] p = "decoded" -> "write"
    [] p = "notDecoded" -> "startRead"
    [] p \in {"writtenOp", "written"} -> "finish"

executeOne ==
  /\ running = "none"
  /\ ring # << >>
  /\ running' = Head(ring)
  /\ ring' = Tail(ring)
  /\ step' = FirstStep(Head(ring))
  /\ UNCHANGED <<events, rx, tx, readOp, writeOp, decoderOp, failed>>

Continue(from, to) == step = from /\ step' = to

\* The procedure returns and everything it still holds is destroyed.
Return == running' = "none" /\ step' = "none"

finish ==
  /\ step = "finish"
  /\ Return
  /\ UNCHANGED <<ring, events, rx, tx, readOp, writeOp, decoderOp, failed>>

-----------------------------------------------------------------------------
(* BottomModule::poll of the UART u, one step per access to the driver. *)

Polling(u) == running = PollOf[u]

poll(u) ==
  /\ Polling(u)
  /\ Continue("poll", "serviceRx")
  /\ events' = driverPoll(u)
  /\ UNCHANGED <<ring, running, rx, tx, readOp, writeOp, decoderOp, failed>>

pollServiceRx(u) ==
  /\ Polling(u)
  /\ \/ /\ "RX_NEEDS_SERVICE" \in events
        /\ serviceRx(u)
     \/ "RX_NEEDS_SERVICE" \notin events /\ UNCHANGED rx
  /\ Continue("serviceRx", "serviceTx")
  /\ UNCHANGED <<ring, running, events, tx, readOp, writeOp, decoderOp, failed>>

pollServiceTx(u) ==
  /\ Polling(u)
  /\ Continue("serviceTx", "completeRead")
  /\ tx' = IF "TX_NEEDS_SERVICE" \in events THEN [tx EXCEPT ![u] = FreeSent(@)] ELSE tx
  /\ UNCHANGED <<ring, running, events, rx, readOp, writeOp, decoderOp, failed>>

\* completeRead up to its serviceRx: without a pending read the packet is
\* dropped; when the completion cannot be deferred the receiver is not serviced.
completeRead(u) ==
  /\ Polling(u)
  /\ step = "completeRead"
  /\ \/ /\ "RX_READY" \notin events
        /\ step' = "completeWrite"
        /\ UNCHANGED <<rx, readOp, ring, failed>>
     \/ /\ "RX_READY" \in events /\ ~readOp[u]
        /\ TakeReceived(u)
        /\ step' = "refill"
        /\ UNCHANGED <<readOp, ring, failed>>
     \/ /\ "RX_READY" \in events /\ readOp[u]
        /\ TakeReceived(u)
        /\ readOp' = [readOp EXCEPT ![u] = FALSE]
        /\ defer("readDoneOp")
        /\ step' = IF CanDefer THEN "refill" ELSE "completeWrite"
  /\ UNCHANGED <<running, events, tx, writeOp, decoderOp>>

refill(u) ==
  /\ Polling(u)
  /\ Continue("refill", "completeWrite")
  /\ serviceRx(u)
  /\ UNCHANGED <<ring, running, events, tx, readOp, writeOp, decoderOp, failed>>

completeWrite(u) ==
  /\ Polling(u)
  /\ Continue("completeWrite", "deferPoll")
  /\ \/ /\ "TX_READY" \in events /\ writeOp[u]
        /\ tx' = [tx EXCEPT ![u] = Accept(@)]
        /\ writeOp' = [writeOp EXCEPT ![u] = FALSE]
        /\ defer("writtenOp")
     \/ /\ ~("TX_READY" \in events /\ writeOp[u])
        /\ UNCHANGED <<tx, writeOp, ring, failed>>
  /\ UNCHANGED <<running, events, rx, readOp, decoderOp>>

deferPollFaulty(u) ==
  /\ Polling(u)
  /\ step = "deferPoll"
  /\ IF events # {} THEN defer(PollOf[u]) ELSE UNCHANGED <<ring, failed>>
  /\ Return
  /\ events' = {}
  /\ UNCHANGED <<rx, tx, readOp, writeOp, decoderOp>>

\* The running poll holds its own function until it has returned.
deferPoll(u) ==
  /\ Polling(u)
  /\ step = "deferPoll"
  /\ defer(PollOf[u])
  /\ Return
  /\ events' = {}
  /\ UNCHANGED <<rx, tx, readOp, writeOp, decoderOp>>

-----------------------------------------------------------------------------
(* The decoder and the application. *)

\* sbus::Decoder::readCompleted; whether the packet is a valid one is open.  The
\* decoded packet is in a buffer of its own.
readCompleted(valid) ==
  /\ step = "readCompleted"
  /\ \/ ~decoderOp /\ UNCHANGED <<ring, failed>>
     \/ decoderOp /\ defer(IF valid THEN "decoded" ELSE "notDecoded")
  /\ decoderOp' = FALSE
  /\ Return
  /\ UNCHANGED <<events, rx, tx, readOp, writeOp>>

\* main's read completion, the successful case, up to BottomModule::write of the
\* text: driver.poll(), and tx() with the deferred completion, or the pending
\* write, which replaces an older one.  A write that finds room does so although
\* an older one may be pending.  When no completion can be deferred the driver is
\* not serviced.  The packet is released when the write has returned, and
\* the completion continues as it does after an error.
Written == running' = "notDecoded" /\ step' = "startRead"

write ==
  LET m == "monitor" IN
  /\ step = "write"
  /\ \/ /\ txCanPut(m)
        /\ tx' = [tx EXCEPT ![m] = Accept(@)]
        /\ defer("written")
        /\ overtook' = (overtook \/ writeOp[m])
        /\ IF CanDefer THEN step' = "freeSent" /\ UNCHANGED running ELSE Written
        /\ UNCHANGED writeOp
     \/ /\ ~txCanPut(m)
        /\ writeOp' = [writeOp EXCEPT ![m] = TRUE]
        /\ Written
        /\ UNCHANGED <<tx, ring, failed, overtook>>
  /\ UNCHANGED <<events, rx, readOp, decoderOp>>

\* Its serviceTx(): the line may have been sent since tx().
writeServiceTx ==
  /\ step = "freeSent"
  /\ tx' = [tx EXCEPT !["monitor"] = FreeSent(@)]
  /\ Written
  /\ UNCHANGED <<ring, events, rx, readOp, writeOp, decoderOp, failed, overtook>>

\* startRead: Decoder::read, and BottomModule::read below it.
startRead ==
  LET s == "sbus" IN
  /\ step = "startRead"
  /\ \/ /\ decoderOp
        /\ failed' = failed \union {"ModuleOperationInProgress"}
        /\ UNCHANGED <<ring, rx, readOp>>
     \/ /\ ~decoderOp /\ rx[s].ready > 0
        /\ TakeReceived(s)
        /\ defer("readDone")
        /\ UNCHANGED readOp
     \/ /\ ~decoderOp /\ rx[s].ready = 0
        /\ readOp' = [readOp EXCEPT ![s] = TRUE]
        /\ UNCHANGED <<ring, rx, failed>>
  /\ decoderOp' = TRUE
  /\ Return
  /\ UNCHANGED <<events, tx, writeOp>>

-----------------------------------------------------------------------------

Init ==
  /\ ring = <<PollOf["sbus"], PollOf["monitor"]>>
  /\ running = "main"
  /\ step = "startRead"
  /\ events = {}
  /\ rx = [u \in Uart |-> [ready |-> 0, waiting |-> 0, active |-> FALSE]]
  /\ tx = [u \in Uart |-> [sent |-> 0, waiting |-> 0]]
  /\ readOp = [u \in Uart |-> FALSE]
  /\ writeOp = [u \in Uart |-> FALSE]
  /\ decoderOp = FALSE
  /\ failed = {}
  /\ late = FALSE
  /\ overtook = FALSE

PollStep(u) ==
  \/ poll(u) \/ pollServiceRx(u) \/ pollServiceTx(u)
  \/ completeRead(u) \/ refill(u) \/ completeWrite(u) \/ deferPoll(u)

RunStep ==
  \/ \E u \in Uart : PollStep(u)
  \/ \E valid \in BOOLEAN : readCompleted(valid)
  \/ startRead \/ finish

MainLoop ==
  /\ \/ (executeOne \/ RunStep) /\ UNCHANGED overtook
     \/ write \/ writeServiceTx
  /\ UNCHANGED late

Next == MainLoop \/ \E u \in Uart : Receive(u) \/ Sent(u)

Spec == Init /\ [][Next]_vars

\* The main loop never stops, bytes keep arriving on the SBUS line and a line of
\* text that is being sent is sent at last.
FairSpec ==
  /\ Spec
  /\ WF_vars(MainLoop)
  /\ WF_vars(Receive("sbus"))
  /\ WF_vars(Sent("monitor"))

-----------------------------------------------------------------------------

\* What the next step of the running procedure takes from the pools at its peak,
\* on top of what is in use before it: functions, buffers, text buffers.
Peak ==
  LET polling == CHOOSE u \in Uart : Polling(u)
      nothing == <<0, 0, 0>>
  IN
  CASE step = "serviceRx" /\ "RX_NEEDS_SERVICE" \in events -> <<0, ServicePeak(polling), 0>>
    [] step = "refill" -> <<0, ServicePeak(polling), 0>>
    [] step = "completeRead" /\ "RX_READY" \in events /\ readOp[polling] -> <<1, 0, 0>>
    [] step = "completeWrite" /\ "TX_READY" \in events /\ writeOp[polling] -> <<1, 0, 0>>
    [] step = "deferPoll" -> <<1, 0, 0>>
    [] step = "readCompleted" /\ decoderOp -> <<1, 1, 0>>
    [] step = "write" -> IF txCanPut("monitor") THEN <<2, 0, 1>> ELSE <<1, 1, 1>>
    [] step = "startRead" /\ decoderOp -> <<1, 0, 0>>
    [] step = "startRead" /\ ~decoderOp -> IF rx["sbus"].ready > 0 THEN <<4, 0, 0>> ELSE <<3, 1, 0>>
    [] OTHER -> nothing

TypeOK ==
  /\ ring \in BoundedSeq(Proc, EXECUTOR_CAPACITY)
  /\ running \in Proc \union {"none", "main"}
  /\ step \in {"none", "poll", "serviceRx", "serviceTx", "completeRead", "refill",
               "completeWrite", "deferPoll", "readCompleted", "write", "freeSent", "startRead", "finish"}
  /\ events \subseteq {"RX_READY", "TX_READY", "RX_NEEDS_SERVICE", "TX_NEEDS_SERVICE"}
  /\ rx \in [Uart -> [ready : 0 .. RX_CAPACITY, waiting : 0 .. RX_CAPACITY, active : BOOLEAN]]
  /\ tx \in [Uart -> [sent : 0 .. TX_CAPACITY, waiting : 0 .. TX_CAPACITY]]
  /\ readOp \in [Uart -> BOOLEAN]
  /\ writeOp \in [Uart -> BOOLEAN]
  /\ decoderOp \in BOOLEAN
  /\ failed \subseteq {"ExecutorRingFull", "ModuleOperationInProgress"}
  /\ late \in BOOLEAN /\ overtook \in BOOLEAN

FuncsSuffice == FuncsUsed + Peak[1] <= NUM_PROC
BuffersSuffice == BuffersUsed + Peak[2] <= POOL_NUM_BUFFERS + Count(late)
TxtSuffice == TxtBuffersUsed + Peak[3] <= NUM_TXT_BUFFERS

\* No pool is ever exhausted, at the peak of any step, whatever the two drivers
\* interrupt, so FATAL_ERROR (static_pool_allocator.h:51) is not reached: not the
\* pool of functions; not the one that receive buffers, decoded packets and the
\* operations of BottomModule share, although allocateRx asks for a buffer it does
\* not need - it would take one more if packets overtook lines of text; and not
\* the pool of text buffers.
PoolsSuffice == TypeOK /\ FuncsSuffice /\ BuffersSuffice /\ TxtSuffice

InRing(procs) == Cardinality({i \in DOMAIN ring : ring[i] \in procs})

\* The application's read loop is in exactly one place: waiting in BottomModule,
\* or on its way through the executor, and the decoder's operation is pending
\* exactly while the packet has not reached the decoder.
OneReadInFlight ==
  running = "none" =>
    /\ Count(readOp["sbus"]) + InRing({"readDoneOp", "readDone", "decoded", "notDecoded"}) = 1
    /\ decoderOp <=> InRing({"decoded", "notDecoded"}) = 0

\* What driver.poll() reported holds when BottomModule::poll acts on it, several
\* calls later: rx() and tx() are not called in vain (bottom_module.h:26-56).
SnapshotStillTrue ==
  \A u \in Uart : Polling(u) =>
    /\ step = "completeRead" /\ "RX_READY" \in events => rx[u].ready > 0
    /\ step \in {"serviceTx", "completeRead", "refill", "completeWrite"} /\ "TX_READY" \in events
         => txCanPut(u)

\* Each poll is in the ring once while nothing runs; that of the monitor is gone
\* when it found the ring full.
PollsInRing ==
  running = "none" => /\ InRing({"sbusPoll"}) = 1
                      /\ InRing({"monitorPoll"}) = Count(failed = {})

\* Every procedure that is deferred finds a place in the executor's ring
\* (executor.h:33-38), with the four places of the firmware as long as no line of
\* text overtakes a pending one (bottom_module.h:78), and with five always.
PlaceForAll == EXECUTOR_CAPACITY > 4 \/ ~overtook => failed = {}

\* No completion and no poll is lost.  If a line has overtaken another, the worst
\* that can come of it is that the poll of the monitor finds the ring full and is
\* lost: the application's read is still in exactly one place, the SBUS is still
\* polled, the decoder is never asked to read while a read is pending
\* (sbus_decoder.h:101), and what poll() acts on still holds.
NothingFails ==
  /\ PlaceForAll /\ failed \subseteq {"ExecutorRingFull"}
  /\ OneReadInFlight /\ PollsInRing /\ SnapshotStillTrue

ReadLoopLives == []<>(step = "startRead")
PollLives(u) == []<>Polling(u)

\* The application goes on reading for ever: packet after packet is decoded, or
\* found invalid, and the next read started, so that no error, ring that was
\* full for a moment or pending write ends the loop (main.cpp:137-172).  The
\* BottomModule of the SBUS is polled for ever (bottom_module.h:32), whatever the
\* transmitter does, and that of the monitor unless a line overtakes another.
LoopsLive == /\ ReadLoopLives /\ PollLives("sbus")
             /\ EXECUTOR_CAPACITY > 4 \/ []~overtook => PollLives("monitor")
=============================================================================
