------------------------ MODULE SerialDevice_proofs ------------------------
(***************************************************************************)
(* The buffers and the hardware of SerialDevice, for any buffers, readers  *)
(* and size of a buffer.  The types, write() and the end of the thread     *)
(* need no assumption.  The rest needs the priority of the read thread     *)
(* (Urgent) and a line that is silent until open() has returned (Quiet):   *)
(* while the object is moved the thread would else work on the buffer of   *)
(* an object that has none.                                                *)
(*                                                                         *)
(* The inductive invariant says what the thread and the receiver may do at *)
(* each point of the life of the device (Phases), which of its pointers    *)
(* have a buffer meanwhile (Buffers), and from these that every buffer has *)
(* one place (Single, Somewhere).                                          *)
(***************************************************************************)
EXTENDS SerialDevice, TLAPS

USE MaxSizeAssumption, BufferAssumption
USE DEF pool, app, worker, box, receiver, sender

-----------------------------------------------------------------------------
\* Nothing at first.
LEMMA InitTypes == Init => TypeOK
<1> SUFFICES ASSUME Init PROVE TypeOK
  OBVIOUS
<1>1. notReceived \in -1 .. maxSize /\ received \in 0 .. maxSize /\ left \in 0 .. 1
  BY DEF Init
<1>2. {readBuffer, newBuffer, message, mailbox} \subseteq Buffer \union {NoBuffer}
  BY DEF Init
<1>3. /\ stop \in BOOLEAN /\ stale \in BOOLEAN /\ idle \in BOOLEAN /\ full \in BOOLEAN
      /\ tc \in BOOLEAN /\ fault \in BOOLEAN
  BY DEF Init
<1> QED
  BY <1>1, <1>2, <1>3 DEF Init, TypeOK

\* Every step keeps the types.
LEMMA TypesKept == TypeOK /\ [Next]_vars => TypeOK'
<1> SUFFICES ASSUME TypeOK, [Next]_vars PROVE TypeOK'
  OBVIOUS
<1> USE DEF TypeOK
<1>1. CASE Check
  BY <1>1 DEF Check
<1>2. CASE StartReception
  BY <1>2 DEF StartReception
<1>3. CASE Wake
  BY <1>3 DEF Wake
<1>4. CASE CreateFails
  BY <1>4 DEF CreateFails
<1>5. CASE Create
  BY <1>5 DEF Create
<1>6. CASE Discard
  BY <1>6 DEF Discard
<1>7. CASE Post
  BY <1>7 DEF Post
<1>8. CASE RxEnd
  <2>1. notReceived' \in -1 .. maxSize
    BY <1>8 DEF RxEnd, rxCompleted, ResumeReader
  <2> QED
    BY <1>8, <2>1 DEF RxEnd, rxCompleted, ResumeReader
<1>9. CASE RxIdle
  <2>1. UNCHANGED <<pool, app, stop, newBuffer, message, box, received, line, sender, fault>>
    BY <1>9 DEF RxIdle
  <2>2. idle' \in BOOLEAN /\ full' \in BOOLEAN
    BY <1>9 DEF RxIdle
  <2>3. /\ rx' \in {"IDLE", "ACTIVE"} /\ notReceived' \in -1 .. maxSize
        /\ thread' \in {"none", "check", "start", "asleep", "awake", "handle", "discard", "post"}
    BY <1>9 DEF RxIdle, rxCompleted, ResumeReader
  <2> QED
    BY <2>1, <2>2, <2>3
<1>10. CASE Byte
  <2>1. received' \in 0 .. maxSize
    BY <1>10 DEF Byte
  <2> QED
    BY <1>10, <2>1, ZenonT(60) DEF Byte
<1>11. CASE BurstEnds
  BY <1>11 DEF BurstEnds
<1>12. CASE Open
  BY <1>12 DEF Open
<1>13. CASE Move
  BY <1>13 DEF Move
<1>14. CASE Moved
  BY <1>14 DEF Moved
<1>15. CASE StopReceive
  BY <1>15 DEF StopReceive, uartStopReceive
<1>16. CASE RequestStop
  BY <1>16 DEF RequestStop, requestStop
<1>17. CASE Resume
  BY <1>17 DEF Resume, ResumeReader
<1>18. CASE Close
  <2>1. /\ free' \subseteq Buffer /\ device' = "closed" /\ readBuffer' = NoBuffer
        /\ rx' = "IDLE" /\ tx' = "IDLE" /\ left' = 0 /\ line' = "silent"
        /\ UNCHANGED <<held, worker, mailbox, received, writing, fault>>
    BY <1>18 DEF Close
  <2>2. /\ tc' \in BOOLEAN /\ idle' \in BOOLEAN
        /\ full' \in BOOLEAN /\ stale' \in BOOLEAN
    BY <1>18 DEF Close
  <2> QED
    BY <2>1, <2>2
<1>19. ASSUME NEW r \in Reader, Read(r) PROVE TypeOK'
  BY <1>19 DEF Read
<1>20. ASSUME NEW r \in Reader, Drop(r) PROVE TypeOK'
  BY <1>20 DEF Drop
<1>21. ASSUME NEW w \in Writer, Write(w) PROVE TypeOK'
  BY <1>21 DEF Write
<1>22. CASE WriteTimesOut
  BY <1>22 DEF WriteTimesOut, uartStopSend, ResumeWriter
<1>23. CASE TxByte
  BY <1>23 DEF TxByte
<1>24. CASE TxEnd1
  BY <1>24 DEF TxEnd1
<1>25. CASE TxEnd2
  <2>1. /\ writing' \in [Writer -> {"none", "asleep", "ok", "failed"}]
        /\ tx' = "IDLE" /\ left' = 0 /\ tc' \in BOOLEAN
        /\ UNCHANGED <<pool, app, worker, box, receiver, fault>>
    BY <1>25 DEF TxEnd2, txCompleted, uartStopSend, ResumeWriter
  <2> QED
    BY <2>1
<1>26. CASE UNCHANGED vars
  BY <1>26 DEF vars
<1> QED
  BY <1>1, <1>2, <1>3, <1>4, <1>5, <1>6, <1>7, <1>8, <1>9, <1>10, <1>11, <1>12, <1>13, <1>14,
     <1>15, <1>16, <1>17, <1>18, <1>19, <1>20, <1>21, <1>22, <1>23, <1>24, <1>25, <1>26
     DEF Next, ReadThread, Life, Transmit

\* The transmitter works for a writer that sleeps in write().
LEMMA SendingKept == TypeOK /\ SendsOnlyDuringWrite /\ [Next]_vars => SendsOnlyDuringWrite'
<1> SUFFICES ASSUME TypeOK, SendsOnlyDuringWrite, [Next]_vars PROVE SendsOnlyDuringWrite'
  OBVIOUS
<1> USE DEF TypeOK, SendsOnlyDuringWrite
<1>1. CASE UNCHANGED <<tx, writing>>
  BY <1>1
<1>2. ASSUME NEW w \in Writer, Write(w) PROVE SendsOnlyDuringWrite'
  BY <1>2 DEF Write
<1>3. CASE tx' = "IDLE"
  BY <1>3
<1> QED
  BY <1>1, <1>2, <1>3 DEF Next, vars, ReadThread, Check, StartReception, Wake, CreateFails, Create,
     Discard, Post, RxEnd, RxIdle, Byte, BurstEnds, Life, Open, Move, Moved, StopReceive,
     RequestStop, Resume, Close, Read, Drop, WriteTimesOut, uartStopSend, Transmit, TxByte,
     TxEnd1, TxEnd2, txCompleted

\* No thread runs and nothing is received without a device.
LEMMA EndKept == TypeOK /\ ThreadEndsFirst /\ [Next]_vars => ThreadEndsFirst'
<1> SUFFICES ASSUME TypeOK, ThreadEndsFirst, [Next]_vars PROVE ThreadEndsFirst'
  OBVIOUS
<1> USE DEF TypeOK, ThreadEndsFirst
<1>1. CASE Check
  BY <1>1 DEF Check
<1>2. CASE StartReception
  BY <1>2 DEF StartReception
<1>3. CASE Wake
  BY <1>3 DEF Wake
<1>4. CASE CreateFails
  BY <1>4 DEF CreateFails
<1>5. CASE Create
  BY <1>5 DEF Create
<1>6. CASE Discard
  BY <1>6 DEF Discard
<1>7. CASE Post
  BY <1>7 DEF Post
<1>8. CASE RxEnd
  BY <1>8 DEF RxEnd, rxCompleted, ResumeReader
<1>9. CASE RxIdle
  BY <1>9 DEF RxIdle, rxCompleted, ResumeReader
<1>10. CASE Byte
  BY <1>10 DEF Byte
<1>11. CASE BurstEnds
  BY <1>11 DEF BurstEnds
<1>12. CASE Open
  BY <1>12 DEF Open
<1>13. CASE Move
  BY <1>13 DEF Move
<1>14. CASE Moved
  BY <1>14 DEF Moved
<1>15. CASE StopReceive
  BY <1>15 DEF StopReceive, uartStopReceive
<1>16. CASE RequestStop
  BY <1>16 DEF RequestStop, requestStop
<1>17. CASE Resume
  BY <1>17 DEF Resume, ResumeReader
<1>18. CASE Close
  BY <1>18 DEF Close, wait
<1>19. ASSUME NEW r \in Reader, Read(r) PROVE ThreadEndsFirst'
  BY <1>19 DEF Read
<1>20. ASSUME NEW r \in Reader, Drop(r) PROVE ThreadEndsFirst'
  BY <1>20 DEF Drop
<1>21. ASSUME NEW w \in Writer, Write(w) PROVE ThreadEndsFirst'
  BY <1>21 DEF Write
<1>22. CASE WriteTimesOut
  BY <1>22 DEF WriteTimesOut, uartStopSend, ResumeWriter
<1>23. CASE TxByte
  BY <1>23 DEF TxByte
<1>24. CASE TxEnd1
  BY <1>24 DEF TxEnd1
<1>25. CASE TxEnd2
  BY <1>25 DEF TxEnd2, txCompleted, uartStopSend, ResumeWriter
<1>26. CASE UNCHANGED vars
  BY <1>26 DEF vars
<1> QED
  BY <1>1, <1>2, <1>3, <1>4, <1>5, <1>6, <1>7, <1>8, <1>9, <1>10, <1>11, <1>12, <1>13, <1>14,
     <1>15, <1>16, <1>17, <1>18, <1>19, <1>20, <1>21, <1>22, <1>23, <1>24, <1>25, <1>26
     DEF Next, ReadThread, Life, Transmit

(* The DMA reads the bytes of a caller only while that caller is in        *)
(* write(), and the read thread ends before the object it works on, with   *)
(* any number of writers and whatever the priorities are                   *)
(* (serial_device_impl_p.h:109-135,167-197).                               *)
THEOREM WritersAndThreadOutlived == Spec => [](TypeOK /\ SendsOnlyDuringWrite /\ ThreadEndsFirst)
<1>1. Init => SendsOnlyDuringWrite /\ ThreadEndsFirst
  BY DEF Init, SendsOnlyDuringWrite, ThreadEndsFirst
<1> QED
  BY <1>1, InitTypes, TypesKept, SendingKept, EndKept, PTL DEF Spec

(* A write returns ok only after its last byte has left.                   *)
THEOREM OkAfterLastByte == Spec => OkMeansSent
<1>1. TypeOK /\ [Next]_vars
        => [\A w \in Writer : writing[w] = "asleep" /\ writing'[w] = "ok" => left = 0]_vars
  <2> SUFFICES ASSUME TypeOK, Next, NEW w \in Writer, writing[w] = "asleep", writing'[w] = "ok"
               PROVE  left = 0
    OBVIOUS
  <2>1. CASE \E v \in Writer : Write(v)
    BY <2>1 DEF TypeOK, Write
  <2>2. CASE WriteTimesOut
    BY <2>2 DEF TypeOK, WriteTimesOut, ResumeWriter
  <2>3. CASE TxEnd2
    BY <2>3 DEF TypeOK, TxEnd2, txCompleted, ResumeWriter
  <2>4. CASE writing' = writing
    BY <2>4
  <2> QED
    BY <2>1, <2>2, <2>3, <2>4 DEF Next, ReadThread, Check, StartReception, Wake, CreateFails,
       Create, Discard, Post, RxEnd, RxIdle, Byte, BurstEnds, Life, Open, Move, Moved,
       StopReceive, RequestStop, Resume, Close, Read, Drop, Transmit, TxByte, TxEnd1
<1> QED
  BY <1>1, InitTypes, TypesKept, PTL DEF Spec, OkMeansSent

-----------------------------------------------------------------------------
(* A thread that hands a packet on has the next buffer in newBuffer and    *)
(* the packet in message; otherwise `instance' has a buffer, except while  *)
(* it is moved.                                                            *)
Handing == thread \in {"discard", "post"}

Buffers ==
  /\ Handing => /\ device \notin {"closed", "moving"}
                /\ readBuffer = NoBuffer /\ message \in Buffer /\ newBuffer \in Buffer
  /\ ~Handing => message = NoBuffer
  /\ thread = "post" => mailbox = NoBuffer
  /\ device = "closed" => readBuffer = NoBuffer /\ newBuffer = NoBuffer
  /\ device = "moving" => readBuffer = NoBuffer /\ newBuffer \in Buffer
  /\ device \notin {"closed", "moving"} /\ ~Handing
       => readBuffer \in Buffer /\ newBuffer = NoBuffer

(* The thread sleeps through every step of the application; the request to *)
(* stop finds it asleep with the receiver at rest, and is the only thing   *)
(* that wakes it then.                                                     *)
Phases ==
  /\ rx = "ACTIVE" => thread = "asleep"
  /\ device = "closed" => thread = "none" /\ rx = "IDLE"
  /\ device = "opening" => thread \in {"check", "start", "asleep"} /\ ~stop
  /\ device = "moving" => thread = "asleep" /\ ~stop
  /\ device = "open" => thread # "none" /\ ~stop
  /\ device = "stopped" => thread = "asleep" /\ ~stop /\ rx = "IDLE"
  /\ device = "requested" => thread = "asleep" /\ stop /\ rx = "IDLE"
  /\ device = "waiting" => /\ thread \in {"awake", "check", "none"} /\ stop /\ rx = "IDLE"
                           /\ thread = "awake" => notReceived < 0
  /\ device \in {"closed", "opening", "moving"}
       => line = "silent" /\ ~idle /\ (rx = "ACTIVE" => received = 0)

\* No buffer is in two places.
Single ==
  /\ \A r, s \in Reader : held[r] = held[s] /\ held[r] # NoBuffer => r = s
  /\ \A r \in Reader : held[r] # NoBuffer =>
        held[r] \notin free \union {readBuffer, newBuffer, message, mailbox}
  /\ {readBuffer, newBuffer, message, mailbox} \intersect free = {}
  /\ readBuffer # NoBuffer => readBuffer \notin {newBuffer, message, mailbox}
  /\ newBuffer # NoBuffer => newBuffer \notin {message, mailbox}
  /\ message # NoBuffer => message # mailbox

\* Every buffer is in a place.
Somewhere ==
  \A b \in Buffer : \/ b \in free \union {readBuffer, newBuffer, message, mailbox}
                    \/ \E r \in Reader : held[r] = b

IInv == TypeOK /\ Buffers /\ Phases /\ Single /\ Somewhere

\* All buffers are free at first.
LEMMA InitInvariant == Init => IInv
  BY InitTypes DEF Init, IInv, Buffers, Phases, Handing, Single, Somewhere

\* Every step keeps what the thread may do, and the buffers it needs for it.
LEMMA PhasesKept ==
  ASSUME TypeOK, Buffers, Phases, Urgent, Quiet, [Next]_vars
  PROVE  Buffers' /\ Phases'
<1> USE DEF TypeOK, Buffers, Phases, Handing
<1>1. CASE Check
  BY <1>1 DEF Check
<1>2. CASE StartReception
  BY <1>2 DEF StartReception
<1>3. CASE Wake
  BY <1>3 DEF Wake
<1>4. CASE CreateFails
  BY <1>4 DEF CreateFails
<1>5. CASE Create
  BY <1>5 DEF Create
<1>6. CASE Discard
  BY <1>6 DEF Discard
<1>7. CASE Post
  BY <1>7 DEF Post
<1>8. CASE RxEnd
  BY <1>8 DEF RxEnd, rxCompleted, ResumeReader
<1>9. CASE RxIdle
  BY <1>9 DEF RxIdle, rxCompleted, ResumeReader
<1>10. CASE Byte
  BY <1>10 DEF Byte
<1>11. CASE BurstEnds
  BY <1>11 DEF BurstEnds
<1>12. CASE Open
  BY <1>12 DEF Open, Turn
<1>13. CASE Move
  BY <1>13 DEF Move, Turn
<1>14. CASE Moved
  BY <1>14 DEF Moved, Turn
<1>15. CASE StopReceive
  BY <1>15 DEF StopReceive, uartStopReceive, Turn
<1>16. CASE RequestStop
  BY <1>16 DEF RequestStop, requestStop, Turn
<1>17. CASE Resume
  BY <1>17 DEF Resume, ResumeReader, Turn
<1>18. CASE Close
  BY <1>18 DEF Close, wait, Turn
<1>19. ASSUME NEW r \in Reader, Read(r) PROVE Buffers' /\ Phases'
  BY <1>19 DEF Read, Turn
<1>20. ASSUME NEW r \in Reader, Drop(r) PROVE Buffers' /\ Phases'
  BY <1>20 DEF Drop, Turn
<1>21. ASSUME NEW w \in Writer, Write(w) PROVE Buffers' /\ Phases'
  BY <1>21 DEF Write, Turn
<1>22. CASE WriteTimesOut
  BY <1>22 DEF WriteTimesOut, uartStopSend, ResumeWriter
<1>23. CASE TxByte
  BY <1>23 DEF TxByte
<1>24. CASE TxEnd1
  BY <1>24 DEF TxEnd1
<1>25. CASE TxEnd2
  BY <1>25 DEF TxEnd2, txCompleted, uartStopSend, ResumeWriter
<1>26. CASE UNCHANGED vars
  BY <1>26 DEF vars
<1> QED
  BY <1>1, <1>2, <1>3, <1>4, <1>5, <1>6, <1>7, <1>8, <1>9, <1>10, <1>11, <1>12, <1>13, <1>14,
     <1>15, <1>16, <1>17, <1>18, <1>19, <1>20, <1>21, <1>22, <1>23, <1>24, <1>25, <1>26
     DEF Next, ReadThread, Life, Transmit

\* No step copies a buffer: where one is put there was none.
LEMMA SingleKept ==
  ASSUME TypeOK, Buffers, Phases, Single, Urgent, Quiet, [Next]_vars
  PROVE  Single'
<1> USE DEF TypeOK, Buffers, Phases, Handing, Single
<1>1. CASE Check
  BY <1>1 DEF Check
<1>2. CASE StartReception
  BY <1>2 DEF StartReception
<1>3. CASE Wake
  BY <1>3 DEF Wake
<1>4. CASE CreateFails
  BY <1>4 DEF CreateFails
<1>5. CASE Create
  BY <1>5 DEF Create
<1>6. CASE Discard
  BY <1>6 DEF Discard
<1>7. CASE Post
  BY <1>7 DEF Post
<1>8. CASE RxEnd
  BY <1>8 DEF RxEnd, rxCompleted, ResumeReader
<1>9. CASE RxIdle
  BY <1>9 DEF RxIdle, rxCompleted, ResumeReader
<1>10. CASE Byte
  BY <1>10 DEF Byte
<1>11. CASE BurstEnds
  BY <1>11 DEF BurstEnds
<1>12. CASE Open
  BY <1>12 DEF Open, Turn
<1>13. CASE Move
  BY <1>13 DEF Move, Turn
<1>14. CASE Moved
  BY <1>14 DEF Moved, Turn
<1>15. CASE StopReceive
  BY <1>15 DEF StopReceive, uartStopReceive, Turn
<1>16. CASE RequestStop
  BY <1>16 DEF RequestStop, requestStop, Turn
<1>17. CASE Resume
  BY <1>17 DEF Resume, ResumeReader, Turn
<1>18. CASE Close
  BY <1>18 DEF Close, wait, Turn
<1>19. ASSUME NEW r \in Reader, Read(r) PROVE Single'
  BY <1>19 DEF Read, Turn
<1>20. ASSUME NEW r \in Reader, Drop(r) PROVE Single'
  BY <1>20 DEF Drop, Turn
<1>21. ASSUME NEW w \in Writer, Write(w) PROVE Single'
  BY <1>21 DEF Write, Turn
<1>22. CASE WriteTimesOut
  BY <1>22 DEF WriteTimesOut, uartStopSend, ResumeWriter
<1>23. CASE TxByte
  BY <1>23 DEF TxByte
<1>24. CASE TxEnd1
  BY <1>24 DEF TxEnd1
<1>25. CASE TxEnd2
  BY <1>25 DEF TxEnd2, txCompleted, uartStopSend, ResumeWriter
<1>26. CASE UNCHANGED vars
  BY <1>26 DEF vars
<1> QED
  BY <1>1, <1>2, <1>3, <1>4, <1>5, <1>6, <1>7, <1>8, <1>9, <1>10, <1>11, <1>12, <1>13, <1>14,
     <1>15, <1>16, <1>17, <1>18, <1>19, <1>20, <1>21, <1>22, <1>23, <1>24, <1>25, <1>26
     DEF Next, ReadThread, Life, Transmit

\* No step loses one: what is overwritten was moved, dropped or none.
LEMMA SomewhereKept ==
  ASSUME TypeOK, Buffers, Phases, Somewhere, Urgent, Quiet, [Next]_vars
  PROVE  Somewhere'
<1> USE DEF TypeOK, Buffers, Phases, Handing, Somewhere
<1>1. CASE Check
  BY <1>1 DEF Check
<1>2. CASE StartReception
  BY <1>2 DEF StartReception
<1>3. CASE Wake
  BY <1>3 DEF Wake
<1>4. CASE CreateFails
  BY <1>4 DEF CreateFails
<1>5. CASE Create
  BY <1>5 DEF Create
<1>6. CASE Discard
  BY <1>6 DEF Discard
<1>7. CASE Post
  BY <1>7 DEF Post
<1>8. CASE RxEnd
  BY <1>8 DEF RxEnd, rxCompleted, ResumeReader
<1>9. CASE RxIdle
  BY <1>9 DEF RxIdle, rxCompleted, ResumeReader
<1>10. CASE Byte
  BY <1>10 DEF Byte
<1>11. CASE BurstEnds
  BY <1>11 DEF BurstEnds
<1>12. CASE Open
  BY <1>12 DEF Open, Turn
<1>13. CASE Move
  BY <1>13 DEF Move, Turn
<1>14. CASE Moved
  BY <1>14 DEF Moved, Turn
<1>15. CASE StopReceive
  BY <1>15 DEF StopReceive, uartStopReceive, Turn
<1>16. CASE RequestStop
  BY <1>16 DEF RequestStop, requestStop, Turn
<1>17. CASE Resume
  BY <1>17 DEF Resume, ResumeReader, Turn
<1>18. CASE Close
  BY <1>18 DEF Close, wait, Turn
<1>19. ASSUME NEW r \in Reader, Read(r) PROVE Somewhere'
  BY <1>19 DEF Read, Turn
<1>20. ASSUME NEW r \in Reader, Drop(r) PROVE Somewhere'
  BY <1>20 DEF Drop, Turn
<1>21. ASSUME NEW w \in Writer, Write(w) PROVE Somewhere'
  BY <1>21 DEF Write, Turn
<1>22. CASE WriteTimesOut
  BY <1>22 DEF WriteTimesOut, uartStopSend, ResumeWriter
<1>23. CASE TxByte
  BY <1>23 DEF TxByte
<1>24. CASE TxEnd1
  BY <1>24 DEF TxEnd1
<1>25. CASE TxEnd2
  BY <1>25 DEF TxEnd2, txCompleted, uartStopSend, ResumeWriter
<1>26. CASE UNCHANGED vars
  BY <1>26 DEF vars
<1> QED
  BY <1>1, <1>2, <1>3, <1>4, <1>5, <1>6, <1>7, <1>8, <1>9, <1>10, <1>11, <1>12, <1>13, <1>14,
     <1>15, <1>16, <1>17, <1>18, <1>19, <1>20, <1>21, <1>22, <1>23, <1>24, <1>25, <1>26
     DEF Next, ReadThread, Life, Transmit

\* IInv holds in every reachable state.
LEMMA Invariance ==
  ASSUME Urgent, Quiet
  PROVE  Spec => []IInv
<1>1. IInv /\ [Next]_vars => IInv'
  BY TypesKept, PhasesKept, SingleKept, SomewhereKept DEF IInv
<1> QED
  BY <1>1, InitInvariant, PTL DEF Spec

\* The places of a buffer as Holders lists them.
LEMMA HoldersAre ==
  ASSUME NEW b, NEW p
  PROVE  p \in Holders(b) <=> \/ p = "readBuffer" /\ readBuffer = b
                              \/ p = "newBuffer" /\ newBuffer = b
                              \/ p = "message" /\ message = b
                              \/ p = "mailbox" /\ mailbox = b
                              \/ p \in Reader /\ held[p] = b
                              \/ p = "free" /\ b \in free
  BY DEF Holders

(* Every buffer is in the pool, with the device, on its way to the         *)
(* mailbox, in it or with a reader, and in one of these places only        *)
(* (serial_device_impl_p.h:200-283).                                       *)
THEOREM BuffersNeverLost ==
  ASSUME Urgent, Quiet
  PROVE  Spec => []BuffersConserved
<1>1. IInv => BuffersConserved
  <2> SUFFICES ASSUME IInv, NEW b \in Buffer
               PROVE  \E p \in Holders(b) : Holders(b) = {p}
    BY DEF BuffersConserved
  <2>1. PICK p : p \in Holders(b)
    BY HoldersAre DEF IInv, Somewhere
  <2>2. ASSUME NEW q \in Holders(b) PROVE q = p
    BY <2>1, <2>2, HoldersAre DEF IInv, Single
  <2> QED
    BY <2>1, <2>2
<1> QED
  BY <1>1, Invariance, PTL

-----------------------------------------------------------------------------
(* Writers that take turns.  A second one would start the transmitter over *)
(* an active one.                                                          *)
TakeTurns == \A v, w \in Writer : v = w

\* With them no assertion of the HAL fails.
LEMMA NoFaultKept ==
  ASSUME IInv, SendsOnlyDuringWrite, NoFault, Urgent, Quiet, TakeTurns, [Next]_vars
  PROVE  NoFault'
<1> USE DEF NoFault
<1>1. CASE StartReception
  BY <1>1 DEF StartReception, IInv, TypeOK, Phases, Buffers, Handing
<1>2. CASE CreateFails
  BY <1>2 DEF CreateFails, IInv, TypeOK, Phases, Buffers, Handing
<1>3. CASE Create
  BY <1>3 DEF Create, IInv, TypeOK, Phases, Buffers, Handing
<1>4. ASSUME NEW w \in Writer, Write(w) PROVE NoFault'
  <2>1. \A v \in Writer : writing[v] # "asleep"
    BY <1>4 DEF Write, TakeTurns
  <2> QED
    BY <1>4, <2>1 DEF Write, SendsOnlyDuringWrite
<1>5. CASE fault' = fault
  BY <1>5
<1> QED
  BY <1>1, <1>2, <1>3, <1>4, <1>5 DEF Next, vars, ReadThread, Check, Wake, Discard, Post, RxEnd,
     RxIdle, Byte, BurstEnds, Life, Open, Move, Moved, StopReceive, RequestStop, Resume, Close,
     Read, Drop, WriteTimesOut, Transmit, TxByte, TxEnd1, TxEnd2

(* The HAL and the DMA are used as they allow: no reception or send is     *)
(* started over an active one, the thread listens while bytes come in, and *)
(* the DMA's buffers have an owner (serial_device_impl_p.h:109-135,        *)
(* 167-283).                                                               *)
THEOREM HardwareUsedAsAllowed ==
  ASSUME Urgent, Quiet, TakeTurns
  PROVE  Spec => []HardwareSafe
<1>1. Init => NoFault
  BY DEF Init, NoFault
<1>2. IInv /\ SendsOnlyDuringWrite /\ NoFault /\ [Next]_vars => NoFault'
  BY NoFaultKept
<1>3. IInv => ReceptionHasListener
  BY DEF IInv, TypeOK, Phases, Buffers, Handing, ReceptionHasListener
<1> QED
  BY <1>1, <1>2, <1>3, Invariance, WritersAndThreadOutlived, PTL DEF Spec, HardwareSafe
=============================================================================
