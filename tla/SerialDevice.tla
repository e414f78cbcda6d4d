---------------------------- MODULE SerialDevice ----------------------------
(***************************************************************************)
(* SerialDeviceImpl of the ChibiOS port                                    *)
(* (lib/chibios/include/spacket/impl/serial_device_impl_p.h): one object   *)
(* of the application, a read thread, three interrupt handlers, and the    *)
(* static mailbox and thread references they share.                        *)
(*                                                                         *)
(* A step is a critical section or what a thread does between two of them. *)
(* The contents of a packet are left out, its buffer and length are kept.  *)
(* Urgent says that the read thread has a higher priority than the threads *)
(* that use the device, as it has in every firmware of the repository:     *)
(* these run only while the read thread sleeps.  Quiet says that nothing   *)
(* arrives until open() has returned.                                      *)
(*                                                                         *)
(* Operators named ...Faulty are wrong on purpose and used nowhere.        *)
(***************************************************************************)
EXTENDS Integers

CONSTANTS Buffer, NoBuffer, Writer, Reader, maxSize, Urgent, Quiet

ASSUME MaxSizeAssumption == maxSize \in Nat \ {0}
ASSUME BufferAssumption == NoBuffer \notin Buffer
ASSUME PriorityAssumption == Urgent \in BOOLEAN /\ Quiet \in BOOLEAN

VARIABLES free,        \* the buffers in the allocator's pool
          device,      \* where the application is between open() and the destructor
          readBuffer,  \* the buffer of the object `instance' points to
          newBuffer, message,  \* the locals of handleReceivedData_
          mailbox,     \* the buffer in readMailbox, which is static
          stale,       \* whether it was received by an earlier device
          held,        \* the buffer the last read of each reader returned
          thread, stop, notReceived,  \* the read thread, its stop flag, what it was resumed with
          rx, received,        \* the receiver's state, the bytes of this reception
          line, idle,          \* whether a burst is under way, a pending idle interrupt
          full,                \* the burst's last bytes ended a full reception
          tx, left, tc,        \* the transmitter's state, bytes left, a pending TC interrupt
          writing,             \* where each writer is
          fault                \* an assertion of the HAL failed or a moved-from buffer was used

pool == <<free, held>>
app == <<device, readBuffer>>
worker == <<thread, stop, notReceived, newBuffer, message>>
box == <<mailbox, stale>>
receiver == <<rx, received, line, idle, full>>
sender == <<tx, left, tc, writing>>
vars == <<pool, app, worker, box, receiver, sender, fault>>

Init == /\ free = Buffer /\ held = [r \in Reader |-> NoBuffer]
        /\ device = "closed" /\ readBuffer = NoBuffer
        /\ thread = "none" /\ stop = FALSE /\ notReceived = 0
        /\ newBuffer = NoBuffer /\ message = NoBuffer
        /\ mailbox = NoBuffer /\ stale = FALSE
        /\ rx = "IDLE" /\ received = 0 /\ line = "silent" /\ idle = FALSE /\ full = FALSE
        /\ tx = "IDLE" /\ left = 0 /\ tc = FALSE
        /\ writing = [w \in Writer |-> "none"]
        /\ fault = FALSE

(* A user of the device runs. *)
Turn == Urgent => thread \in {"none", "asleep"}

(* chThdResume, osalThreadResumeI: nothing happens when no thread sleeps. *)
ResumeReader(n) == IF thread = "asleep"
                   THEN thread' = "awake" /\ notReceived' = n
                   ELSE UNCHANGED <<thread, notReceived>>

uartStopReceive == rx' = "IDLE" /\ UNCHANGED <<received, line, idle, full>>

-----------------------------------------------------------------------------
(* The read thread. *)

Check == /\ thread = "check"
         /\ thread' = IF stop THEN "none" ELSE "start"
         /\ UNCHANGED <<pool, app, stop, notReceived, newBuffer, message, box, receiver, sender, fault>>

StartReception == /\ thread = "start"
                  /\ fault' = (fault \/ rx = "ACTIVE" \/ readBuffer = NoBuffer)
                  /\ rx' = "ACTIVE" /\ received' = 0
                  /\ thread' = "asleep"
                  /\ UNCHANGED <<pool, app, stop, notReceived, newBuffer, message, box,
                                 line, idle, full, sender>>

(* MSG_RESET, which stop() resumes the thread with, is negative. *)
Wake == /\ thread = "awake"
        /\ thread' = IF notReceived >= 0 THEN "handle" ELSE "check"
        /\ UNCHANGED <<pool, app, stop, notReceived, newBuffer, message, box, receiver, sender, fault>>

(* Without a buffer for the next packet this one is dropped. *)
CreateFails == /\ thread = "handle"
               /\ free = {}
               /\ thread' = "check"
               /\ fault' = (fault \/ readBuffer = NoBuffer)
               /\ UNCHANGED <<pool, app, newBuffer, message, stop, notReceived, box, receiver, sender>>

Create == /\ thread = "handle"
          /\ \E b \in free : newBuffer' = b /\ free' = free \ {b}
          /\ message' = readBuffer
          /\ readBuffer' = NoBuffer
          /\ thread' = "discard"
          /\ fault' = (fault \/ readBuffer = NoBuffer)
          /\ UNCHANGED <<held, device, stop, notReceived, box, receiver, sender>>

DiscardFaulty == /\ thread = "discard"
                 /\ mailbox' = NoBuffer
                 /\ thread' = "post"
                 /\ UNCHANGED <<free, held, app, stop, notReceived, newBuffer, message, stale, receiver, sender, fault>>
(* The two critical sections of MailboxImplT::replace. *)
Discard == /\ thread = "discard"
           /\ free' = free \union ({mailbox} \ {NoBuffer})
           /\ mailbox' = NoBuffer
           /\ thread' = "post"
           /\ UNCHANGED <<held, app, stop, notReceived, newBuffer, message, stale, receiver, sender, fault>>

Post == /\ thread = "post"
        /\ mailbox' = message /\ stale' = FALSE
        /\ readBuffer' = newBuffer
        /\ message' = NoBuffer /\ newBuffer' = NoBuffer
        /\ thread' = "check"
        /\ UNCHANGED <<pool, device, stop, notReceived, receiver, sender, fault>>

ReadThread == Check \/ StartReception \/ Wake \/ CreateFails \/ Create \/ Discard \/ Post

-----------------------------------------------------------------------------
(* The receive interrupts and the line. *)

rxCompletedFaulty == UNCHANGED rx /\ ResumeReader(maxSize - received)
rxCompleted == /\ rx' = "IDLE"
               /\ ResumeReader(maxSize - received)

(* rxCompleted_: the DMA has filled the buffer. *)
RxEnd == /\ rx = "ACTIVE" /\ received = maxSize
         /\ rxCompleted
         /\ full' = TRUE
         /\ UNCHANGED <<pool, app, stop, newBuffer, message, box, received, line, idle, sender, fault>>

(* rxIdle_: the line has been silent for the time of a byte. *)
RxIdle == /\ idle
          /\ idle' = FALSE /\ full' = FALSE
          /\ IF rx = "ACTIVE" THEN rxCompleted ELSE UNCHANGED <<rx, thread, notReceived>>
          /\ UNCHANGED <<pool, app, stop, newBuffer, message, box, received, line, sender, fault>>

(* A byte arrives; the receiver drops it when no reception is active. *)
Byte == /\ device \notin IF Quiet THEN {"closed", "opening", "moving"} ELSE {"closed"}
        /\ line' = "busy" /\ full' = FALSE
        /\ ~ (rx = "ACTIVE" /\ received = maxSize)
        /\ received' = IF rx = "ACTIVE" THEN received + 1 ELSE received
        /\ UNCHANGED <<pool, app, worker, box, rx, idle, sender, fault>>

BurstEnds == /\ line = "busy"
             /\ line' = "silent" /\ idle' = TRUE
             /\ UNCHANGED <<pool, app, worker, box, rx, received, full, sender, fault>>

-----------------------------------------------------------------------------
(* The life of the device. *)

(* The constructor sets instance and the callbacks and starts the thread. *)
Open == /\ device = "closed" /\ Turn
        /\ \E b \in free : readBuffer' = b /\ free' = free \ {b}
        /\ device' = "opening"
        /\ thread' = "check" /\ stop' = FALSE
        /\ UNCHANGED <<held, notReceived, newBuffer, message, box, receiver, sender, fault>>

(* open() returns the object through moves; each takes the buffer out of   *)
(* the old object before instance is made to point to the new one.  While  *)
(* the device is moving, the buffer `instance' has is none.                *)
Move == /\ device = "opening" /\ Turn
        /\ device' = "moving"
        /\ readBuffer' = NoBuffer /\ newBuffer' = readBuffer
        /\ UNCHANGED <<pool, thread, stop, notReceived, message, box, receiver, sender, fault>>

Moved == /\ device = "moving" /\ Turn
         /\ device' \in {"opening", "open"}
         /\ readBuffer' = newBuffer /\ newBuffer' = NoBuffer
         /\ UNCHANGED <<pool, thread, stop, notReceived, message, box, receiver, sender, fault>>

(* ~SerialDeviceImpl; an object is not destroyed while a call uses it. *)
StopReceive == /\ device = "open" /\ Turn
               /\ \A w \in Writer : writing[w] \notin {"asleep"}
               /\ uartStopReceive
               /\ device' = "stopped"
               /\ UNCHANGED <<pool, readBuffer, worker, box, sender, fault>>

requestStopFaulty == UNCHANGED stop
requestStop == stop' = TRUE

RequestStop == /\ device = "stopped" /\ Turn
               /\ requestStop
               /\ device' = "requested"
               /\ UNCHANGED <<pool, readBuffer, thread, notReceived, newBuffer, message, box, receiver, sender, fault>>

Resume == /\ device = "requested" /\ Turn
          /\ ResumeReader(-1)
          /\ device' = "waiting"
          /\ UNCHANGED <<pool, readBuffer, stop, newBuffer, message, box, receiver, sender, fault>>

wait == thread = "none"

(* The thread has ended: uartStop, and the object and its buffer are gone. *)
Close == /\ device = "waiting" /\ Turn
         /\ wait
         /\ device' = "closed"
         /\ rx' = "IDLE" /\ tx' = "IDLE" /\ left' = 0 /\ tc' = FALSE
         /\ line' = "silent" /\ idle' = FALSE /\ full' = FALSE
         /\ free' = free \union ({readBuffer} \ {NoBuffer})
         /\ readBuffer' = NoBuffer
         /\ stale' = (mailbox # NoBuffer)
         /\ UNCHANGED <<held, worker, mailbox, received, writing, fault>>

Life == Open \/ Move \/ Moved \/ StopReceive \/ RequestStop \/ Resume \/ Close

-----------------------------------------------------------------------------
(* The calls of the device's users. *)

Read(r) == /\ device = "open" /\ Turn
           /\ held[r] = NoBuffer
           /\ mailbox # NoBuffer
           /\ held' = [held EXCEPT ![r] = mailbox]
           /\ mailbox' = NoBuffer
           /\ UNCHANGED <<free, app, worker, stale, receiver, sender, fault>>

Drop(r) == /\ held[r] # NoBuffer /\ Turn
           /\ free' = free \union {held[r]}
           /\ held' = [held EXCEPT ![r] = NoBuffer]
           /\ UNCHANGED <<app, worker, box, receiver, sender, fault>>

(* uartStartSendI and the suspension assert that no other writer is there. *)
Write(w) == /\ device = "open" /\ Turn
            /\ writing[w] # "asleep"
            /\ fault' = (fault \/ tx = "ACTIVE" \/ \E v \in Writer : writing[v] = "asleep")
            /\ tx' = "ACTIVE" /\ left' = 1
            /\ writing' = [writing EXCEPT ![w] = "asleep"]
            /\ UNCHANGED <<pool, app, worker, box, receiver, tc>>

ResumeWriter(msg) == writing' = [w \in Writer |-> IF writing[w] # "asleep" THEN writing[w]
                                                  ELSE IF msg = 0 THEN "ok" ELSE "failed"]

uartStopSend == tx' = "IDLE" /\ left' = 0

WriteTimesOut == /\ \E w \in Writer : writing[w] = "asleep"
                 /\ uartStopSend
                 /\ ResumeWriter(1)
                 /\ UNCHANGED <<pool, app, worker, box, receiver, tc, fault>>

TxByte == /\ tx = "ACTIVE" /\ left > 0
          /\ left' = left - 1
          /\ UNCHANGED <<pool, app, worker, box, receiver, tx, tc, writing, fault>>

(* The DMA interrupt; the interrupt that the last bit is sent follows it. *)
TxEnd1 == /\ tx = "ACTIVE" /\ left = 0
          /\ tx' = "IDLE" /\ tc' = TRUE
          /\ UNCHANGED <<pool, app, worker, box, receiver, left, writing, fault>>

txCompletedFaulty == uartStopSend /\ ResumeWriter(0)
txCompleted == uartStopSend /\ ResumeWriter(left)

TxEnd2 == /\ tc
          /\ tc' = FALSE
          /\ txCompleted
          /\ UNCHANGED <<pool, app, worker, box, receiver, fault>>

Transmit == TxByte \/ TxEnd1 \/ TxEnd2

Next == \/ ReadThread \/ RxEnd \/ RxIdle \/ Byte \/ BurstEnds \/ Life
        \/ \E r \in Reader : Read(r) \/ Drop(r)
        \/ \E w \in Writer : Write(w)
        \/ WriteTimesOut \/ Transmit

(* The scheduler runs a ready thread, interrupts are served, the hardware  *)
(* transmits, and the destructor once begun goes on.                       *)
Spec == /\ Init /\ [][Next]_vars
        /\ WF_vars(ReadThread) /\ WF_vars(RxEnd) /\ WF_vars(RxIdle) /\ WF_vars(Transmit)
        /\ WF_vars(Move \/ Moved) /\ WF_vars(RequestStop \/ Resume \/ Close)

-----------------------------------------------------------------------------
TypeOK == /\ free \subseteq Buffer /\ held \in [Reader -> Buffer \union {NoBuffer}]
          /\ device \in {"closed", "opening", "moving", "open", "stopped", "requested", "waiting"}
          /\ {readBuffer, newBuffer, message, mailbox} \subseteq Buffer \union {NoBuffer}
          /\ thread \in {"none", "check", "start", "asleep", "awake", "handle", "discard", "post"}
          /\ stop \in BOOLEAN /\ stale \in BOOLEAN /\ notReceived \in -1 .. maxSize
          /\ rx \in {"IDLE", "ACTIVE"} /\ received \in 0 .. maxSize
          /\ line \in {"silent", "busy"} /\ idle \in BOOLEAN /\ full \in BOOLEAN
          /\ tx \in {"IDLE", "ACTIVE"} /\ left \in 0 .. 1 /\ tc \in BOOLEAN
          /\ writing \in [Writer -> {"none", "asleep", "ok", "failed"}]
          /\ fault \in BOOLEAN

(* Every buffer is in exactly one place: the pool, the device, a packet on *)
(* its way, the mailbox or a reader.  None is lost when a packet is        *)
(* dropped, replaced, or left in the mailbox by a device that is closed.   *)
Holders(b) == {p \in {"readBuffer", "newBuffer", "message", "mailbox"} :
                 CASE p = "readBuffer" -> readBuffer = b [] p = "newBuffer" -> newBuffer = b
                   [] p = "message" -> message = b [] p = "mailbox" -> mailbox = b}
              \union {r \in Reader : held[r] = b}
              \union (IF b \in free THEN {"free"} ELSE {})
BuffersConserved == \A b \in Buffer : \E p \in Holders(b) : Holders(b) = {p}

(* No assertion of the HAL fails: a reception or a transmission is never   *)
(* started over an active one, and the read thread never uses the buffer   *)
(* of an object that was moved from.                                       *)
NoFault == ~fault

(* While bytes are received the read thread sleeps on its reference, so    *)
(* the interrupt that ends the reception wakes it; and the buffer the DMA  *)
(* fills belongs to the device, or is on its way from one object to the    *)
(* next, and to nobody else.                                               *)
ReceptionHasListener ==
    rx = "ACTIVE" => /\ thread = "asleep"
                     /\ (IF device = "moving" THEN newBuffer ELSE readBuffer) \in Buffer

(* The DMA reads the caller's bytes only while the caller is in write(),   *)
(* also when the write has timed out.                                      *)
SendsOnlyDuringWrite == tx = "ACTIVE" => \E w \in Writer : writing[w] = "asleep"

(* The thread does not outlive the object it works on. *)
ThreadEndsFirst == device = "closed" => thread = "none" /\ rx = "IDLE"

(* The DMA and the HAL are used as they allow, and by a live device alone. *)
HardwareSafe == TypeOK /\ NoFault /\ ReceptionHasListener /\ SendsOnlyDuringWrite /\ ThreadEndsFirst

(* A write returns ok only after its last byte has left. *)
OkMeansSent == [][\A w \in Writer : writing[w] = "asleep" /\ writing'[w] = "ok" => left = 0]_vars

(* Every write returns, and so does the destructor: the read thread sees   *)
(* the request to stop.  This rests on the priority of the read thread:    *)
(* one that has just found no request and has not yet gone to sleep would  *)
(* miss chThdResume.                                                       *)
CallsReturn == /\ device = "waiting" ~> device = "closed"
               /\ \A w \in Writer : writing[w] = "asleep" ~> writing[w] # "asleep"

(* rxIdle_ does nothing when it ends a burst of exactly maxSize bytes      *)
(* (serial_device_impl_p.h:224-226).                                       *)
IdleIgnoredAfterFull == [][full /\ idle /\ ~idle' => rx' = rx]_vars

(* A read of a device returns a packet that this device received: with     *)
(* nothing on the line a read of a device just opened times out.           *)
ReadsOwnPackets == [][\A r \in Reader : held[r] = NoBuffer /\ held'[r] # NoBuffer => ~stale]_vars
=============================================================================
