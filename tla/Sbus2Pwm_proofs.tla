--------------------------- MODULE Sbus2Pwm_proofs --------------------------
(***************************************************************************)
(* The firmware examples/sbus2pwm, for pools, an executor and drivers of   *)
(* any size that satisfies PoolsAssumption, and the SBUS packets it        *)
(* decodes, for every one of them: every channel is its own eleven bits of *)
(* the frame.                                                              *)
(*                                                                         *)
(* The invariant of the firmware says how often a procedure can be in the  *)
(* executor's ring (Deferred: once), where the application's read is       *)
(* (OneRead), what the order of the ring excludes (Order: a completion of  *)
(* a write has run when the next one is deferred), that the read and the   *)
(* two polls take turns (Cycle), and what the transmit ring of the monitor *)
(* excludes (NoThird, NoSecond).  So many procedures as that leaves find a *)
(* place in the ring (Room, PollRoom), but for one, which is lost          *)
(* (PollLost), and a place in the pools (Functions, Buffers, Texts).       *)
(***************************************************************************)
EXTENDS Sbus2Pwm, SbusPacket, SequenceTheorems, FiniteSetTheorems, TLAPS

\* Wherever both are in the ring s, p is before q.
Before(s, p, q) == \A i, j \in DOMAIN s : s[i] = p /\ s[j] = q => i < j

\* A procedure at the end of the ring.
LEMMA Appended ==
  ASSUME NEW s \in Seq(Proc), IsInjective(s), NEW p \in Proc, p \notin Range(s)
  PROVE  /\ Append(s, p) \in Seq(Proc)
         /\ Len(Append(s, p)) = Len(s) + 1
         /\ IsInjective(Append(s, p))
         /\ Range(Append(s, p)) = Range(s) \union {p}
         /\ \A x, y : x # y /\ Before(s, x, y) /\ (x = p => y \notin Range(s))
                        => Before(Append(s, p), x, y)
<1> DEFINE t == Append(s, p)
<1>1. /\ t \in Seq(Proc) /\ Len(t) = Len(s) + 1 /\ t[Len(s) + 1] = p
      /\ DOMAIN s = 1 .. Len(s) /\ DOMAIN t = 1 .. Len(s) + 1
      /\ \A i \in 1 .. Len(s) : t[i] = s[i]
      /\ Len(s) \in Nat
  OBVIOUS
<1> HIDE DEF t
<1>2. \A i \in 1 .. Len(s) : s[i] # p
  BY <1>1 DEF Range
<1>3. IsInjective(t)
  BY <1>1, <1>2 DEF IsInjective
<1>4. Range(t) = Range(s) \union {p}
  BY <1>1 DEF Range
<1>5. ASSUME NEW x, NEW y, x # y, Before(s, x, y), x = p => y \notin Range(s)
      PROVE  Before(t, x, y)
  <2>1. ASSUME NEW i \in 1 .. Len(s) + 1, NEW j \in 1 .. Len(s) + 1, t[i] = x, t[j] = y
        PROVE  i < j
    <3>1. CASE i = Len(s) + 1
      <4>1. j \in 1 .. Len(s)
        BY <1>1, <1>5, <2>1, <3>1
      <4> QED BY <1>1, <1>5, <2>1, <3>1 DEF Range
    <3>2. CASE i # Len(s) + 1 /\ j = Len(s) + 1
      BY <2>1, <3>2, <1>1
    <3>3. CASE i # Len(s) + 1 /\ j # Len(s) + 1
      <4>1. i \in 1 .. Len(s) /\ j \in 1 .. Len(s)
        BY <1>1, <2>1, <3>3
      <4> QED BY <1>1, <1>5, <2>1, <4>1 DEF Before
    <3> QED BY <3>1, <3>2, <3>3
  <2> QED BY <1>1, <2>1 DEF Before
<1> QED BY <1>3, <1>4, <1>5 DEF t

\* The ring without its oldest procedure.
LEMMA Removed ==
  ASSUME NEW s \in Seq(Proc), IsInjective(s), s # << >>
  PROVE  /\ Head(s) \in Range(s) /\ Head(s) \in Proc
         /\ Tail(s) \in Seq(Proc)
         /\ Len(Tail(s)) < Len(s)
         /\ IsInjective(Tail(s))
         /\ Range(Tail(s)) = Range(s) \ {Head(s)}
         /\ \A x, y : Before(s, x, y) => Before(Tail(s), x, y)
         /\ \A x : x # Head(s) /\ Before(s, x, Head(s)) => x \notin Range(s)
<1> DEFINE t == Tail(s)
<1>1. /\ t \in Seq(Proc) /\ Len(t) = Len(s) - 1 /\ Head(s) = s[1]
      /\ DOMAIN s = 1 .. Len(s) /\ DOMAIN t = 1 .. Len(s) - 1
      /\ \A i \in 1 .. Len(s) - 1 : t[i] = s[i + 1]
      /\ Len(s) \in Nat /\ Len(s) > 0 /\ Head(s) \in Proc
  OBVIOUS
<1> HIDE DEF t
<1>2. IsInjective(t)
  BY <1>1 DEF IsInjective
<1>3. Range(t) = Range(s) \ {Head(s)}
  <2>1. ASSUME NEW i \in 1 .. Len(s) - 1 PROVE t[i] \in Range(s) \ {Head(s)}
    BY <1>1 DEF Range, IsInjective
  <2>2. ASSUME NEW i \in 1 .. Len(s), s[i] # Head(s) PROVE s[i] \in Range(t)
    <3>1. i - 1 \in 1 .. Len(s) - 1 /\ t[i - 1] = s[i]
      BY <1>1, <2>2
    <3> QED BY <1>1, <3>1 DEF Range
  <2> QED BY <1>1, <2>1, <2>2 DEF Range
<1>4. ASSUME NEW x, NEW y, Before(s, x, y) PROVE Before(t, x, y)
  <2>1. ASSUME NEW i \in 1 .. Len(s) - 1, NEW j \in 1 .. Len(s) - 1, t[i] = x, t[j] = y
        PROVE  i < j
    <3>1. i + 1 \in 1 .. Len(s) /\ j + 1 \in 1 .. Len(s) /\ s[i + 1] = x /\ s[j + 1] = y
      BY <1>1, <2>1
    <3>2. i + 1 < j + 1
      BY <1>1, <1>4, <3>1 DEF Before
    <3> QED BY <3>2
  <2> QED BY <1>1, <2>1 DEF Before
<1>5. ASSUME NEW x, x # Head(s), Before(s, x, Head(s)) PROVE x \notin Range(s)
  <2>1. 1 \in 1 .. Len(s)
    BY <1>1
  <2>2. ASSUME NEW i \in 1 .. Len(s), s[i] = x PROVE FALSE
    <3>1. i < 1
      BY <1>5, <2>2 DEF Before
    <3> QED BY <3>1
  <2> QED BY <1>1, <2>2 DEF Range
<1>6. Head(s) \in Range(s)
  BY <1>1 DEF Range
<1> QED BY <1>2, <1>3, <1>4, <1>5, <1>6 DEF t

\* A procedure that is not in the ring is before and behind every other.
LEMMA Absent ==
  ASSUME NEW s, NEW p, p \notin Range(s), NEW q
  PROVE  Before(s, p, q) /\ Before(s, q, p)
BY DEF Before, Range

\* A ring of three procedures at most.
LEMMA ThreeDeferred ==
  ASSUME NEW s \in Seq(Proc), IsInjective(s), NEW a, NEW b, NEW c, Range(s) \subseteq {a, b, c}
  PROVE  Len(s) <= 3
<1> SUFFICES ASSUME Len(s) >= 4 PROVE FALSE
  OBVIOUS
<1>1. DOMAIN s = 1 .. Len(s)
  OBVIOUS
<1>2. \A i \in 1 .. 4 : s[i] \in {a, b, c}
  BY <1>1 DEF Range
<1>3. \A i, j \in 1 .. 4 : i # j => s[i] # s[j]
  BY <1>1 DEF IsInjective
<1> QED BY <1>2, <1>3

\* And of four.
LEMMA FourDeferred ==
  ASSUME NEW s \in Seq(Proc), IsInjective(s), NEW a, NEW b, NEW c, NEW d,
         Range(s) \subseteq {a, b, c, d}
  PROVE  Len(s) <= 4
<1> SUFFICES ASSUME Len(s) >= 5 PROVE FALSE
  OBVIOUS
<1>1. DOMAIN s = 1 .. Len(s)
  OBVIOUS
<1>2. \A i \in 1 .. 5 : s[i] \in {a, b, c, d}
  <2>1. \A i \in 1 .. 5 : s[i] \in Range(s)
    BY <1>1 DEF Range
  <2> QED BY <2>1
<1>3. \A i, j \in 1 .. 5 : i # j => s[i] # s[j]
  BY <1>1 DEF IsInjective
<1> QED BY <1>2, <1>3

-----------------------------------------------------------------------------
Queued == Range(ring)
Reading == {"readDoneOp", "readDone", "decoded", "notDecoded"}
PollSteps == {"poll", "serviceRx", "serviceTx", "completeRead", "refill", "completeWrite", "deferPoll"}

\* The values of the variables; the ring is never longer than it may be.
Types ==
  /\ ring \in Seq(Proc) /\ Len(ring) <= EXECUTOR_CAPACITY
  /\ running \in Proc \union {"none", "main"}
  /\ step \in PollSteps \union {"none", "readCompleted", "write", "freeSent", "startRead", "finish"}
  /\ events \subseteq {"RX_READY", "TX_READY", "RX_NEEDS_SERVICE", "TX_NEEDS_SERVICE"}
  /\ rx \in [Uart -> [ready : Nat, waiting : Nat, active : BOOLEAN]]
  /\ tx \in [Uart -> [sent : Nat, waiting : Nat]]
  /\ readOp \in [Uart -> BOOLEAN]
  /\ writeOp \in [Uart -> BOOLEAN]
  /\ decoderOp \in BOOLEAN
  /\ failed \subseteq {"ExecutorRingFull"} /\ PlaceForAll
  /\ late \in BOOLEAN /\ overtook \in BOOLEAN

\* Which steps the running procedure has.
Steps ==
  /\ running = "none" <=> step = "none"
  /\ running \in {"sbusPoll", "monitorPoll"} <=> step \in PollSteps
  /\ running \in {"readDoneOp", "readDone"} <=> step = "readCompleted"
  /\ running = "decoded" <=> step \in {"write", "freeSent"}
  /\ running \in {"notDecoded", "main"} <=> step = "startRead"
  /\ running \in {"written", "writtenOp"} <=> step = "finish"

\* No procedure is deferred twice, and a poll is deferred or running, unless it is
\* that of the monitor and has found the ring full.
Deferred ==
  /\ IsInjective(ring)
  /\ "sbusPoll" \in Queued <=> running # "sbusPoll"
  /\ "monitorPoll" \in Queued <=> running # "monitorPoll" /\ failed = {}
  /\ running = "monitorPoll" => failed = {}

\* The application's read is in one place.
Handling == running \in Reading \union {"main"}
OneRead ==
  /\ \A p, q \in Reading : p \in Queued /\ q \in Queued => p = q
  /\ readOp["sbus"] => ~Handling /\ Queued \intersect Reading = {}
  /\ Handling => Queued \intersect Reading = {}
  /\ readOp["sbus"] \/ Handling \/ Queued \intersect Reading # {}
  /\ decoderOp <=> \/ readOp["sbus"]
                   \/ "readDoneOp" \in Queued \/ "readDone" \in Queued
                   \/ running \in {"readDoneOp", "readDone"}

\* The drivers stay within their rings; nobody reads from the monitor or
\* writes to the SBUS.
Drivers ==
  /\ \A u \in Uart : /\ RxBuffers(u) <= RX_CAPACITY
                     /\ tx[u].sent + tx[u].waiting <= TX_CAPACITY
                     /\ rx[u].active => rx[u].waiting > 0
  /\ ~readOp["monitor"] /\ ~writeOp["sbus"]
  /\ tx["sbus"].sent = 0 /\ tx["sbus"].waiting = 0

\* The completions of writes run before what comes after them could write, or
\* complete a write, again.
Order ==
  /\ \A p \in Reading : Before(ring, "written", p)
  /\ running \in {"readDoneOp", "readDone", "decoded"} /\ step # "freeSent" => "written" \notin Queued
  /\ Before(ring, "writtenOp", "monitorPoll")
  /\ running = "monitorPoll" /\ step # "deferPoll" => "writtenOp" \notin Queued

\* The read, or the completion of its line, the poll of the SBUS and that of the
\* monitor take turns: their order in the ring is always the same.
InTurn(s, p) ==
  \/ Before(s, p, "sbusPoll") /\ Before(s, "sbusPoll", "monitorPoll")
  \/ Before(s, "sbusPoll", "monitorPoll") /\ Before(s, "monitorPoll", p)
  \/ Before(s, "monitorPoll", p) /\ Before(s, p, "sbusPoll")

Cycle ==
  /\ \A p \in Reading \union {"written"} :
       /\ InTurn(ring, p)
       /\ running = "monitorPoll" => Before(ring, p, "sbusPoll")
       /\ running = "sbusPoll" => Before(ring, "monitorPoll", p)
  /\ Handling => Before(ring, "sbusPoll", "monitorPoll")

\* A completed write fills the transmit ring until the next poll of the monitor, or
\* until a line finds room in it.
NoThird ==
  /\ "writtenOp" \in Queued /\ writeOp["monitor"] => ~txCanPut("monitor") /\ step # "freeSent"
  /\ "writtenOp" \in Queued /\ "written" \in Queued => ~writeOp["monitor"]

\* With room for one buffer there are two completions only between a poll of the
\* monitor and the next one of the SBUS, when no read is handled.
TwoWritten == "written" \in Queued /\ "writtenOp" \in Queued
NoSecond == TX_CAPACITY = 1 =>
  /\ "writtenOp" \in Queued => ~txCanPut("monitor") /\ step # "freeSent"
  /\ TwoWritten => ~Handling /\ running # "sbusPoll" /\ Before(ring, "written", "sbusPoll")

\* While no line has overtaken another, a pending write is the only one.
OneLine == ~overtook =>
  /\ "written" \in Queued => ~writeOp["monitor"]
  /\ TX_CAPACITY = 1 => ~TwoWritten

\* What poll() saw still holds.
Snapshot == \A u \in Uart : Polling(u) =>
  /\ step \in {"serviceRx", "serviceTx", "completeRead"} /\ "RX_READY" \in events
       => rx[u].ready > 0
  /\ step \in PollSteps \ {"poll", "deferPoll"} /\ "TX_READY" \in events => txCanPut(u)

\* While no packet has overtaken a line, none is waiting or being handed over
\* before the lines of the earlier ones have been sent.
Timely == ~late =>
  /\ readOp["sbus"] /\ rx["sbus"].ready > 0 => LineSent
  /\ "readDoneOp" \in Queued \/ running = "readDoneOp" => LineSent

Inv == /\ Types /\ Steps /\ Deferred /\ OneRead /\ Drivers /\ Order /\ Cycle
       /\ NoThird /\ NoSecond /\ OneLine /\ Snapshot /\ Timely

\* What the ring is after defer(p).
Joins(p) ==
  /\ ring' \in Seq(Proc) /\ Len(ring') <= EXECUTOR_CAPACITY
  /\ failed' = failed
  /\ IsInjective(ring')
  /\ Queued' = Queued \union {p}
  /\ \A x, y : x # y /\ Before(ring, x, y) /\ (x = p => y \notin Queued) => Before(ring', x, y)

\* A procedure finds a place.
LEMMA Defers ==
  ASSUME Types, Deferred, NEW p \in Proc, p \notin Queued, Len(ring) < EXECUTOR_CAPACITY, defer(p)
  PROVE  Joins(p) /\ CanDefer
<1>1. ring' = Append(ring, p) /\ failed' = failed
  BY DEF defer
<1>2. EXECUTOR_CAPACITY \in Nat
  BY PoolsAssumption
<1>3. ring \in Seq(Proc) /\ IsInjective(ring) /\ p \notin Range(ring)
  BY DEF Types, Deferred, Queued
<1>4. Len(ring) \in Nat
  BY <1>3
<1> QED BY <1>1, <1>2, <1>3, Appended DEF Joins, CanDefer, Queued

RxType == [Uart -> [ready : Nat, waiting : Nat, active : BOOLEAN]]
TxType == [Uart -> [sent : Nat, waiting : Nat]]

\* The counters of the drivers.
LEMMA Numbers == Inv =>
  /\ rx \in RxType /\ tx \in TxType
  /\ \A u \in Uart : /\ rx[u].ready \in Nat /\ rx[u].waiting \in Nat /\ rx[u].active \in BOOLEAN
                     /\ tx[u].sent \in Nat /\ tx[u].waiting \in Nat
                     /\ rx[u].ready + rx[u].waiting <= RX_CAPACITY
                     /\ tx[u].sent + tx[u].waiting <= TX_CAPACITY
                     /\ rx[u].active => rx[u].waiting > 0
  /\ RX_CAPACITY \in Nat \ {0} /\ TX_CAPACITY \in Nat \ {0} /\ EXECUTOR_CAPACITY \in Nat
<1> SUFFICES ASSUME Inv PROVE Numbers!2
  OBVIOUS
<1>1. rx \in RxType /\ tx \in TxType
  BY DEF Inv, Types, RxType, TxType
<1>2. \A u \in Uart : /\ rx[u].ready + rx[u].waiting <= RX_CAPACITY
                      /\ tx[u].sent + tx[u].waiting <= TX_CAPACITY
                      /\ rx[u].active => rx[u].waiting > 0
  BY DEF Inv, Drivers, RxBuffers
<1>3. RX_CAPACITY \in Nat \ {0} /\ TX_CAPACITY \in Nat \ {0} /\ EXECUTOR_CAPACITY \in Nat
  BY PoolsAssumption
<1> QED BY <1>1, <1>2, <1>3 DEF RxType, TxType

\* The counters of the drivers after a change of one of them.
LEMMA RxUpdated ==
  ASSUME Types, NEW u \in Uart, NEW n \in Nat, NEW w \in Nat, NEW a \in BOOLEAN,
         rx' = [rx EXCEPT ![u] = [ready |-> n, waiting |-> w, active |-> a]]
  PROVE  /\ rx' \in RxType
         /\ rx'[u].ready = n /\ rx'[u].waiting = w /\ rx'[u].active = a
         /\ \A v \in Uart \ {u} : rx'[v] = rx[v]
<1> DEFINE r == [ready |-> n, waiting |-> w, active |-> a]
<1>1. r \in [ready : Nat, waiting : Nat, active : BOOLEAN] /\ r.ready = n /\ r.waiting = w /\ r.active = a
  OBVIOUS
<1>2. rx \in RxType /\ rx' = [rx EXCEPT ![u] = r]
  BY DEF Types, RxType
<1> HIDE DEF r
<1>3. rx' \in RxType /\ rx'[u] = r /\ \A v \in Uart \ {u} : rx'[v] = rx[v]
  BY <1>1, <1>2 DEF RxType
<1> QED BY <1>1, <1>3

\* The same for the transmitter.
LEMMA TxUpdated ==
  ASSUME Types, NEW u \in Uart, NEW n \in Nat, NEW w \in Nat,
         tx' = [tx EXCEPT ![u] = [sent |-> n, waiting |-> w]]
  PROVE  /\ tx' \in TxType
         /\ tx'[u].sent = n /\ tx'[u].waiting = w
         /\ \A v \in Uart \ {u} : tx'[v] = tx[v]
<1> DEFINE r == [sent |-> n, waiting |-> w]
<1>1. r \in [sent : Nat, waiting : Nat] /\ r.sent = n /\ r.waiting = w
  OBVIOUS
<1>2. tx \in TxType /\ tx' = [tx EXCEPT ![u] = r]
  BY DEF Types, TxType
<1> HIDE DEF r
<1>3. tx' \in TxType /\ tx'[u] = r /\ \A v \in Uart \ {u} : tx'[v] = tx[v]
  BY <1>1, <1>2 DEF TxType
<1> QED BY <1>1, <1>3

\* serviceRx() fills the receive ring with waiting buffers.
LEMMA Serviced ==
  ASSUME Inv, NEW u \in Uart, serviceRx(u)
  PROVE  /\ rx' \in RxType
         /\ \A v \in Uart : /\ rx'[v].ready = rx[v].ready
                            /\ rx'[v].ready + rx'[v].waiting <= RX_CAPACITY
                            /\ rx'[v].active => rx'[v].waiting > 0
<1>1. /\ rx[u].ready \in Nat /\ RX_CAPACITY - rx[u].ready \in Nat
      /\ rx[u].ready + (RX_CAPACITY - rx[u].ready) = RX_CAPACITY
      /\ RX_CAPACITY > rx[u].ready => RX_CAPACITY - rx[u].ready > 0
  <2>1. /\ rx[u].ready \in Nat /\ rx[u].waiting \in Nat /\ RX_CAPACITY \in Nat
        /\ rx[u].ready + rx[u].waiting <= RX_CAPACITY
    BY Numbers
  <2> QED BY <2>1
<1>2. (RX_CAPACITY > rx[u].ready) \in BOOLEAN
  OBVIOUS
<1>3. /\ rx' \in RxType
      /\ rx'[u].ready = rx[u].ready /\ rx'[u].waiting = RX_CAPACITY - rx[u].ready
      /\ rx'[u].active = (RX_CAPACITY > rx[u].ready)
      /\ \A v \in Uart \ {u} : rx'[v] = rx[v]
  <2>1. Types
    BY DEF Inv
  <2> QED BY <1>1, <1>2, <2>1, RxUpdated DEF serviceRx
<1>4. RX_CAPACITY \in Nat
  BY Numbers
<1>5. /\ rx'[u].ready = rx[u].ready
      /\ rx'[u].ready + rx'[u].waiting <= RX_CAPACITY
      /\ rx'[u].active => rx'[u].waiting > 0
  <2>1. rx'[u].ready + rx'[u].waiting <= RX_CAPACITY
    BY <1>1, <1>3, <1>4
  <2>2. rx'[u].active => rx'[u].waiting > 0
    BY <1>1, <1>3
  <2> QED BY <1>3, <2>1, <2>2
<1>6. ASSUME NEW v \in Uart, v # u
      PROVE  /\ rx'[v].ready = rx[v].ready
             /\ rx'[v].ready + rx'[v].waiting <= RX_CAPACITY
             /\ rx'[v].active => rx'[v].waiting > 0
  BY <1>3, <1>6, Numbers
<1> QED BY <1>3, <1>5, <1>6

\* rx() takes a packet out of the receive ring.
LEMMA Taken ==
  ASSUME Inv, NEW u \in Uart, TakeReceived(u), rx[u].ready > 0
  PROVE  /\ rx' \in RxType
         /\ rx'[u].ready = rx[u].ready - 1
         /\ \A v \in Uart : /\ rx'[v].ready <= rx[v].ready
                            /\ rx'[v].ready + rx'[v].waiting <= RX_CAPACITY
                            /\ rx'[v].active => rx'[v].waiting > 0
                            /\ v # u => rx'[v] = rx[v]
<1>1. /\ rx[u].ready - 1 \in Nat /\ rx[u].waiting \in Nat /\ rx[u].active \in BOOLEAN
      /\ rx[u].ready - 1 <= rx[u].ready
      /\ (rx[u].ready - 1) + rx[u].waiting <= RX_CAPACITY
      /\ rx[u].active => rx[u].waiting > 0
  <2>1. /\ rx[u].ready \in Nat /\ rx[u].waiting \in Nat /\ rx[u].active \in BOOLEAN /\ RX_CAPACITY \in Nat
        /\ rx[u].ready + rx[u].waiting <= RX_CAPACITY
        /\ rx[u].active => rx[u].waiting > 0
    BY Numbers
  <2> QED BY <2>1
<1>2. rx' = [rx EXCEPT ![u] = [ready |-> rx[u].ready - 1, waiting |-> rx[u].waiting, active |-> rx[u].active]]
  <2>1. rx \in RxType
    BY Numbers
  <2>2. rx[u] \in [ready : Nat, waiting : Nat, active : BOOLEAN]
    BY <2>1 DEF RxType
  <2>3. [rx[u] EXCEPT !.ready = @ - 1]
          = [ready |-> rx[u].ready - 1, waiting |-> rx[u].waiting, active |-> rx[u].active]
    BY <2>2
  <2>4. rx' = [rx EXCEPT ![u] = [rx[u] EXCEPT !.ready = @ - 1]]
    BY DEF TakeReceived
  <2> QED BY <2>3, <2>4
<1>3. /\ rx' \in RxType
      /\ rx'[u].ready = rx[u].ready - 1 /\ rx'[u].waiting = rx[u].waiting
      /\ rx'[u].active = rx[u].active
      /\ \A v \in Uart \ {u} : rx'[v] = rx[v]
  <2>1. Types
    BY DEF Inv
  <2> QED BY <1>1, <1>2, <2>1, RxUpdated
<1>4. /\ rx'[u].ready <= rx[u].ready
      /\ rx'[u].ready + rx'[u].waiting <= RX_CAPACITY
      /\ rx'[u].active => rx'[u].waiting > 0
  BY <1>1, <1>3
<1>5. ASSUME NEW v \in Uart, v # u
      PROVE  /\ rx'[v].ready <= rx[v].ready
             /\ rx'[v].ready + rx'[v].waiting <= RX_CAPACITY
             /\ rx'[v].active => rx'[v].waiting > 0
             /\ rx'[v] = rx[v]
  BY <1>3, <1>5, Numbers
<1> QED BY <1>3, <1>4, <1>5

\* rxFinishI turns a waiting buffer into a packet.
LEMMA Received ==
  ASSUME Inv, NEW u \in Uart, Receive(u)
  PROVE  /\ rx' \in RxType
         /\ \A v \in Uart : /\ rx'[v].ready >= rx[v].ready
                            /\ rx'[v].ready + rx'[v].waiting <= RX_CAPACITY
                            /\ rx'[v].active => rx'[v].waiting > 0
                            /\ v # u => rx'[v] = rx[v]
<1>1. /\ rx[u].ready + 1 \in Nat /\ rx[u].waiting - 1 \in Nat
      /\ rx[u].ready + 1 >= rx[u].ready
      /\ (rx[u].ready + 1) + (rx[u].waiting - 1) <= RX_CAPACITY
      /\ rx[u].waiting > 1 => rx[u].waiting - 1 > 0
  <2>1. /\ rx[u].ready \in Nat /\ rx[u].waiting \in Nat /\ rx[u].active /\ RX_CAPACITY \in Nat
        /\ rx[u].ready + rx[u].waiting <= RX_CAPACITY
        /\ rx[u].active => rx[u].waiting > 0
    BY Numbers DEF Receive
  <2> QED BY <2>1
<1>2. (rx[u].waiting > 1) \in BOOLEAN
  OBVIOUS
<1>3. /\ rx' \in RxType
      /\ rx'[u].ready = rx[u].ready + 1 /\ rx'[u].waiting = rx[u].waiting - 1
      /\ rx'[u].active = (rx[u].waiting > 1)
      /\ \A v \in Uart \ {u} : rx'[v] = rx[v]
  <2>1. Types
    BY DEF Inv
  <2>2. rx' = [rx EXCEPT ![u] = [ready |-> rx[u].ready + 1, waiting |-> rx[u].waiting - 1,
                                 active |-> rx[u].waiting > 1]]
    BY DEF Receive
  <2>3. rx[u].ready + 1 \in Nat /\ rx[u].waiting - 1 \in Nat
    BY <1>1
  <2> DEFINE n == rx[u].ready + 1
             w == rx[u].waiting - 1
             a == rx[u].waiting > 1
  <2> HIDE DEF n, w, a
  <2>4. n \in Nat /\ w \in Nat /\ a \in BOOLEAN /\ rx' = [rx EXCEPT ![u] = [ready |-> n, waiting |-> w, active |-> a]]
    BY <2>2, <2>3 DEF n, w, a
  <2>5. /\ rx' \in RxType
        /\ rx'[u].ready = n /\ rx'[u].waiting = w /\ rx'[u].active = a
        /\ \A v \in Uart \ {u} : rx'[v] = rx[v]
    BY <2>1, <2>4, RxUpdated
  <2> QED BY <2>5 DEF n, w, a
<1>4. /\ rx'[u].ready >= rx[u].ready
      /\ rx'[u].ready + rx'[u].waiting <= RX_CAPACITY
      /\ rx'[u].active => rx'[u].waiting > 0
  BY <1>1, <1>3
<1>5. ASSUME NEW v \in Uart, v # u
      PROVE  /\ rx'[v].ready >= rx[v].ready
             /\ rx'[v].ready + rx'[v].waiting <= RX_CAPACITY
             /\ rx'[v].active => rx'[v].waiting > 0
             /\ rx'[v] = rx[v]
  BY <1>3, <1>5, Numbers
<1> QED BY <1>3, <1>4, <1>5

\* serviceTx() frees the buffers that have been sent.
LEMMA Freed ==
  ASSUME Inv, NEW u \in Uart, tx' = [tx EXCEPT ![u] = FreeSent(@)]
  PROVE  /\ tx' \in TxType
         /\ tx'[u].sent = 0 /\ tx'[u].waiting = tx[u].waiting
         /\ \A v \in Uart \ {u} : tx'[v] = tx[v]
<1>1. tx[u] \in [sent : Nat, waiting : Nat]
  BY Numbers DEF TxType
<1>2. FreeSent(tx[u]) = [sent |-> 0, waiting |-> tx[u].waiting] /\ tx[u].waiting \in Nat
  BY <1>1 DEF FreeSent
<1>3. tx' = [tx EXCEPT ![u] = [sent |-> 0, waiting |-> tx[u].waiting]]
  BY <1>2
<1> QED BY <1>2, <1>3, TxUpdated DEF Inv

\* tx() of a line.
Accepting(u) == tx' = [tx EXCEPT ![u] = Accept(@)]

\* It finds its place.
LEMMA LineAccepted ==
  ASSUME Inv, NEW u \in Uart, txCanPut(u), Accepting(u)
  PROVE  /\ tx' \in TxType
         /\ tx'[u].sent = tx[u].sent /\ tx'[u].waiting = tx[u].waiting + 1
         /\ tx'[u].sent + tx'[u].waiting <= TX_CAPACITY
         /\ \A v \in Uart \ {u} : tx'[v] = tx[v]
<1>1. tx[u] \in [sent : Nat, waiting : Nat] /\ tx[u].sent \in Nat /\ tx[u].waiting \in Nat /\ TX_CAPACITY \in Nat
      /\ tx[u].sent + tx[u].waiting < TX_CAPACITY
  BY Numbers DEF TxType, txCanPut
<1>2. Accept(tx[u]) = [sent |-> tx[u].sent, waiting |-> tx[u].waiting + 1]
  BY <1>1 DEF Accept
<1>3. PICK n \in Nat, w \in Nat : n = tx[u].sent /\ w = tx[u].waiting + 1
  BY <1>1
<1>4. tx' = [tx EXCEPT ![u] = [sent |-> n, waiting |-> w]] /\ n + w <= TX_CAPACITY
  BY <1>1, <1>2, <1>3 DEF Accepting
<1>5. Types
  BY DEF Inv
<1>6. /\ tx' \in TxType /\ tx'[u].sent = n /\ tx'[u].waiting = w
      /\ \A v \in Uart \ {u} : tx'[v] = tx[v]
  BY <1>4, <1>5, TxUpdated
<1> QED BY <1>3, <1>4, <1>6

\* txFinishI.
LEMMA Sends ==
  ASSUME Inv, NEW u \in Uart, Sent(u)
  PROVE  /\ tx' \in TxType
         /\ tx'[u].sent + tx'[u].waiting = tx[u].sent + tx[u].waiting
         /\ tx'[u].waiting < tx[u].waiting
         /\ \A v \in Uart \ {u} : tx'[v] = tx[v]
<1>1. tx[u].sent \in Nat /\ tx[u].waiting \in Nat /\ tx[u].waiting > 0
  BY Numbers DEF Sent
<1>2. /\ tx[u].sent + 1 \in Nat /\ tx[u].waiting - 1 \in Nat /\ tx[u].waiting - 1 < tx[u].waiting
      /\ (tx[u].sent + 1) + (tx[u].waiting - 1) = tx[u].sent + tx[u].waiting
  BY <1>1
<1>3. tx' = [tx EXCEPT ![u] = [sent |-> tx[u].sent + 1, waiting |-> tx[u].waiting - 1]]
  BY DEF Sent
<1>4. /\ tx' \in TxType /\ tx'[u].sent = tx[u].sent + 1 /\ tx'[u].waiting = tx[u].waiting - 1
      /\ \A v \in Uart \ {u} : tx'[v] = tx[v]
  <2> DEFINE n == tx[u].sent + 1
             w == tx[u].waiting - 1
  <2>1. Types /\ n \in Nat /\ w \in Nat
    BY <1>2 DEF Inv
  <2>2. tx' = [tx EXCEPT ![u] = [sent |-> n, waiting |-> w]]
    BY <1>3
  <2> HIDE DEF n, w
  <2>3. tx' \in TxType /\ tx'[u].sent = n /\ tx'[u].waiting = w /\ \A v \in Uart \ {u} : tx'[v] = tx[v]
    BY <2>1, <2>2, TxUpdated
  <2> QED BY <2>3 DEF n, w
<1> QED BY <1>2, <1>4

\* There is room in the ring when of the polls and the read there is one o and
\* one r at most: what else may be there are the completions of writes, of which
\* there is one at most or room for two.
LEMMA Room ==
  ASSUME Inv, NEW o, NEW r, Queued \subseteq {o, r, "written", "writtenOp"},
         TwoWritten => EXECUTOR_CAPACITY > 4
  PROVE  Len(ring) < EXECUTOR_CAPACITY
<1>1. ring \in Seq(Proc) /\ IsInjective(ring) /\ Len(ring) \in Nat
  BY DEF Inv, Types, Deferred
<1>2. EXECUTOR_CAPACITY \in Nat /\ EXECUTOR_CAPACITY >= 4
  BY PoolsAssumption
<1>3. CASE ~TwoWritten
  <2>1. PICK w \in {"written", "writtenOp"} : Queued \subseteq {o, r, w}
    BY <1>3 DEF TwoWritten
  <2>2. Len(ring) <= 3
    BY <1>1, <2>1, ThreeDeferred DEF Queued
  <2> QED BY <1>1, <1>2, <2>2
<1>4. CASE EXECUTOR_CAPACITY > 4
  <2>1. Len(ring) <= 4
    BY <1>1, FourDeferred DEF Queued
  <2> QED BY <1>1, <1>2, <1>4, <2>1
<1> QED BY <1>3, <1>4

-----------------------------------------------------------------------------
\* driver.poll().
LEMMA PollKept ==
  ASSUME Inv, NEW u \in Uart, poll(u), UNCHANGED <<late, overtook>>
  PROVE  Inv'
<1>1. Queued' = Queued /\ UNCHANGED <<ring, failed, decoderOp>>
  BY DEF Queued, poll
<1>2. Types'
  BY DEF Inv, Types, PlaceForAll, PollSteps, poll, Continue, driverPoll
<1>3. Steps'
  BY DEF Steps, PollSteps, Polling, PollOf, Uart, poll, Continue
<1>4. Deferred'
  BY <1>1 DEF Inv, Deferred, poll
<1>5. OneRead'
  BY <1>1 DEF Inv, OneRead, Handling, poll
<1>6. Drivers'
  BY DEF Inv, Drivers, RxBuffers, poll
<1>7. Order'
  BY <1>1 DEF Inv, Order, poll, Continue
<1>8. NoThird'
  BY <1>1 DEF Inv, NoThird, txCanPut, poll, Continue
<1>9. NoSecond'
  BY <1>1 DEF Inv, NoSecond, TwoWritten, Handling, txCanPut, Uart, Polling, PollOf, poll, Continue, driverPoll
<1>10. Snapshot'
  BY DEF Snapshot, Polling, PollOf, Uart, txCanPut, poll, driverPoll
<1>11. Timely'
  BY <1>1 DEF Inv, Timely, LineSent, poll
<1>12. Cycle'
  BY <1>1 DEF Inv, Cycle, Handling, poll
<1>13. OneLine'
  BY <1>1 DEF Inv, OneLine, TwoWritten, poll
<1> QED BY <1>2, <1>3, <1>4, <1>5, <1>6, <1>7, <1>8, <1>9, <1>10, <1>11, <1>12, <1>13 DEF Inv

\* serviceRx().
LEMMA ServiceRxKept ==
  ASSUME Inv, NEW u \in Uart, pollServiceRx(u), UNCHANGED <<late, overtook>>
  PROVE  Inv'
<1>1. Queued' = Queued /\ UNCHANGED <<ring, failed, decoderOp>>
  BY DEF Queued, pollServiceRx
<1>2. rx' \in RxType /\ \A v \in Uart : /\ rx'[v].ready = rx[v].ready
                                        /\ rx'[v].ready + rx'[v].waiting <= RX_CAPACITY
                                        /\ rx'[v].active => rx'[v].waiting > 0
  BY Serviced, Numbers DEF pollServiceRx
<1>3. Polling(u) /\ step = "serviceRx" /\ step' = "serviceTx"
      /\ UNCHANGED <<running, events, tx, readOp, writeOp>>
  BY DEF pollServiceRx, Continue
<1>4. Types'
  BY <1>1, <1>2, <1>3 DEF Inv, Types, PlaceForAll, RxType, PollSteps
<1>5. Steps'
  BY <1>3 DEF Steps, PollSteps, Polling, PollOf, Uart
<1>6. Deferred'
  BY <1>1, <1>3 DEF Inv, Deferred
<1>7. OneRead'
  BY <1>1, <1>3 DEF Inv, OneRead, Handling
<1>8. Drivers'
  BY <1>2, <1>3 DEF Inv, Drivers, RxBuffers
<1>9. Order'
  BY <1>1, <1>3 DEF Inv, Order
<1>10. NoThird'
  BY <1>1, <1>3 DEF Inv, NoThird, txCanPut
<1>11. NoSecond'
  BY <1>1, <1>3 DEF Inv, NoSecond, TwoWritten, Handling, txCanPut, Steps
<1>12. Snapshot'
  BY <1>2, <1>3 DEF Inv, Snapshot, Polling, txCanPut, PollSteps
<1>13. Timely'
  BY <1>1, <1>2, <1>3 DEF Inv, Timely, LineSent, Uart
<1>14. Cycle'
  BY <1>1, <1>3 DEF Inv, Cycle, Handling
<1>15. OneLine'
  BY <1>1, <1>3 DEF Inv, OneLine, TwoWritten
<1> QED BY <1>4, <1>5, <1>6, <1>7, <1>8, <1>9, <1>10, <1>11, <1>12, <1>13, <1>14, <1>15 DEF Inv

\* The serviceRx() of completeRead.
LEMMA RefillKept ==
  ASSUME Inv, NEW u \in Uart, refill(u), UNCHANGED <<late, overtook>>
  PROVE  Inv'
<1>1. Queued' = Queued /\ UNCHANGED <<ring, failed, decoderOp>>
  BY DEF Queued, refill
<1>2. rx' \in RxType /\ \A v \in Uart : /\ rx'[v].ready = rx[v].ready
                                        /\ rx'[v].ready + rx'[v].waiting <= RX_CAPACITY
                                        /\ rx'[v].active => rx'[v].waiting > 0
  BY Serviced, Numbers DEF refill
<1>3. Polling(u) /\ step = "refill" /\ step' = "completeWrite"
      /\ UNCHANGED <<running, events, tx, readOp, writeOp>>
  BY DEF refill, Continue
<1>4. Types'
  BY <1>1, <1>2, <1>3 DEF Inv, Types, PlaceForAll, RxType, PollSteps
<1>5. Steps'
  BY <1>3 DEF Steps, PollSteps, Polling, PollOf, Uart
<1>6. Deferred'
  BY <1>1, <1>3 DEF Inv, Deferred
<1>7. OneRead'
  BY <1>1, <1>3 DEF Inv, OneRead, Handling
<1>8. Drivers'
  BY <1>2, <1>3 DEF Inv, Drivers, RxBuffers
<1>9. Order'
  BY <1>1, <1>3 DEF Inv, Order
<1>10. NoThird'
  BY <1>1, <1>3 DEF Inv, NoThird, txCanPut
<1>11. NoSecond'
  BY <1>1, <1>3 DEF Inv, NoSecond, TwoWritten, Handling, txCanPut, Steps
<1>12. Snapshot'
  BY <1>3 DEF Inv, Snapshot, Polling, txCanPut, PollSteps
<1>13. Timely'
  BY <1>1, <1>2, <1>3 DEF Inv, Timely, LineSent, Uart
<1>14. Cycle'
  BY <1>1, <1>3 DEF Inv, Cycle, Handling
<1>15. OneLine'
  BY <1>1, <1>3 DEF Inv, OneLine, TwoWritten
<1> QED BY <1>4, <1>5, <1>6, <1>7, <1>8, <1>9, <1>10, <1>11, <1>12, <1>13, <1>14, <1>15 DEF Inv

\* serviceTx().
LEMMA ServiceTxKept ==
  ASSUME Inv, NEW u \in Uart, pollServiceTx(u), UNCHANGED <<late, overtook>>
  PROVE  Inv'
<1>1. Queued' = Queued /\ UNCHANGED <<ring, failed, decoderOp>>
  BY DEF Queued, pollServiceTx
<1>2. Polling(u) /\ step = "serviceTx" /\ step' = "completeRead"
      /\ UNCHANGED <<running, events, rx, readOp, writeOp>>
  BY DEF pollServiceTx, Continue
<1>3. /\ tx' \in TxType
      /\ \A v \in Uart : /\ tx'[v].sent <= tx[v].sent /\ tx'[v].waiting = tx[v].waiting
                         /\ tx'[v].sent \in Nat /\ tx'[v].waiting \in Nat
                         /\ tx'[v].sent + tx'[v].waiting <= TX_CAPACITY
                         /\ txCanPut(v) => tx'[v].sent + tx'[v].waiting < TX_CAPACITY
      /\ tx'["sbus"].sent = 0
      /\ u = "sbus" => tx'["monitor"] = tx["monitor"]
  <2>1. tx' = [tx EXCEPT ![u] = FreeSent(@)] \/ UNCHANGED tx
    BY DEF pollServiceTx
  <2>2. tx' \in TxType /\ \A v \in Uart : tx'[v].waiting = tx[v].waiting /\ tx'[v].sent \in {0, tx[v].sent}
    BY <2>1, Freed, Numbers
  <2>3. /\ \A v \in Uart : tx[v].sent \in Nat /\ tx[v].waiting \in Nat /\ tx[v].sent + tx[v].waiting <= TX_CAPACITY
        /\ TX_CAPACITY \in Nat
    BY Numbers
  <2>4. ASSUME NEW v \in Uart
        PROVE  /\ tx'[v].sent <= tx[v].sent /\ tx'[v].waiting = tx[v].waiting
               /\ tx'[v].sent \in Nat /\ tx'[v].waiting \in Nat
               /\ tx'[v].sent + tx'[v].waiting <= TX_CAPACITY
               /\ txCanPut(v) => tx'[v].sent + tx'[v].waiting < TX_CAPACITY
    BY <2>2, <2>3 DEF txCanPut
  <2>5. tx'["sbus"].sent = 0
    BY <2>2 DEF Inv, Drivers, Uart
  <2>6. u = "sbus" => tx'["monitor"] = tx["monitor"]
    BY <2>1, Freed DEF Uart
  <2> QED BY <2>2, <2>4, <2>5, <2>6
<1>4. Types'
  BY <1>1, <1>2, <1>3 DEF Inv, Types, PlaceForAll, TxType, PollSteps
<1>5. Steps'
  BY <1>2 DEF Steps, PollSteps, Polling, PollOf, Uart
<1>6. Deferred'
  BY <1>1, <1>2 DEF Inv, Deferred
<1>7. OneRead'
  BY <1>1, <1>2 DEF Inv, OneRead, Handling
<1>8. Drivers'
  BY <1>2, <1>3 DEF Inv, Drivers, RxBuffers, Uart
<1>9. Order'
  BY <1>1, <1>2 DEF Inv, Order
<1>10. NoThird'
  <2>1. CASE u = "sbus"
    BY <1>1, <1>2, <1>3, <2>1 DEF Inv, NoThird, txCanPut
  <2>2. CASE u = "monitor"
    BY <1>1, <1>2, <2>2 DEF Inv, NoThird, Order, Polling, PollOf
  <2> QED BY <2>1, <2>2 DEF Uart
<1>11. NoSecond'
  <2>1. CASE u = "sbus"
    BY <1>1, <1>2, <1>3, <2>1 DEF Inv, NoSecond, TwoWritten, Handling, txCanPut, PollSteps
  <2>2. CASE u = "monitor"
    BY <1>1, <1>2, <2>2 DEF Inv, NoSecond, TwoWritten, Handling, Order, Polling, PollOf, PollSteps
  <2> QED BY <2>1, <2>2 DEF Uart
<1>12. Snapshot'
  BY <1>2, <1>3 DEF Inv, Snapshot, Polling, txCanPut, PollSteps
<1>13. Timely'
  BY <1>1, <1>2, <1>3 DEF Inv, Timely, LineSent, Uart
<1>14. Cycle'
  BY <1>1, <1>2 DEF Inv, Cycle, Handling
<1>15. OneLine'
  BY <1>1, <1>2 DEF Inv, OneLine, TwoWritten
<1> QED BY <1>4, <1>5, <1>6, <1>7, <1>8, <1>9, <1>10, <1>11, <1>12, <1>13, <1>14, <1>15 DEF Inv

\* A completion of a write.
LEMMA FinishKept ==
  ASSUME Inv, finish, UNCHANGED <<late, overtook>>
  PROVE  Inv'
<1>1. Queued' = Queued /\ UNCHANGED <<ring, failed, decoderOp>>
  BY DEF Queued, finish
<1>2. Types'
  BY DEF Inv, Types, PlaceForAll, finish, Return
<1>3. Steps'
  BY DEF Steps, PollSteps, finish, Return
<1>4. Deferred'
  BY <1>1 DEF Inv, Deferred, Steps, finish, Return
<1>5. OneRead'
  BY <1>1 DEF Inv, OneRead, Handling, Reading, Steps, finish, Return
<1>6. Drivers'
  BY DEF Inv, Drivers, RxBuffers, finish
<1>7. Order'
  BY DEF Inv, Order, finish, Return
<1>8. NoThird'
  BY <1>1 DEF Inv, NoThird, txCanPut, finish, Return
<1>9. NoSecond'
  BY <1>1 DEF Inv, NoSecond, TwoWritten, Handling, Reading, txCanPut, Steps, finish, Return
<1>10. Snapshot'
  BY DEF Snapshot, PollSteps, finish, Return
<1>11. Timely'
  BY <1>1 DEF Inv, Timely, LineSent, finish, Return
<1>12. Cycle'
  BY <1>1 DEF Inv, Cycle, Handling, Reading, finish, Return
<1>13. OneLine'
  BY <1>1 DEF Inv, OneLine, TwoWritten, finish, Return
<1> QED BY <1>2, <1>3, <1>4, <1>5, <1>6, <1>7, <1>8, <1>9, <1>10, <1>11, <1>12, <1>13 DEF Inv

\* A packet arrives.
LEMMA ReceiveKept ==
  ASSUME Inv, NEW u \in Uart, Receive(u)
  PROVE  Inv'
<1>1. Queued' = Queued /\ UNCHANGED <<ring, failed, decoderOp>>
  BY DEF Queued, Receive
<1>2. late' = (late \/ (u = "sbus" /\ ~LineSent))
      /\ UNCHANGED <<running, step, events, tx, readOp, writeOp, overtook>>
  BY DEF Receive
<1>3. rx' \in RxType /\ \A v \in Uart : /\ rx'[v].ready \in Nat /\ rx'[v].ready >= rx[v].ready
                                        /\ v # u => rx'[v] = rx[v]
                                        /\ rx'[v].ready + rx'[v].waiting <= RX_CAPACITY
                                        /\ rx'[v].active => rx'[v].waiting > 0
                                        /\ rx[v].ready > 0 => rx'[v].ready > 0
  <2>1. rx' \in RxType /\ \A v \in Uart : /\ rx'[v].ready >= rx[v].ready
                                          /\ v # u => rx'[v] = rx[v]
                                          /\ rx'[v].ready + rx'[v].waiting <= RX_CAPACITY
                                          /\ rx'[v].active => rx'[v].waiting > 0
    BY Received
  <2>2. \A v \in Uart : rx'[v].ready \in Nat /\ rx[v].ready \in Nat
    BY <2>1, Numbers DEF RxType
  <2>3. \A v \in Uart : rx[v].ready > 0 => rx'[v].ready > 0
    BY <2>1, <2>2
  <2> QED BY <2>1, <2>2, <2>3
<1>4. Types'
  BY <1>1, <1>2, <1>3 DEF Inv, Types, PlaceForAll, RxType
<1>5. Steps'
  BY <1>2 DEF Inv, Steps
<1>6. Deferred'
  BY <1>1, <1>2 DEF Inv, Deferred
<1>7. OneRead'
  BY <1>1, <1>2 DEF Inv, OneRead, Handling
<1>8. Drivers'
  BY <1>2, <1>3 DEF Inv, Drivers, RxBuffers
<1>9. Order'
  BY <1>1, <1>2 DEF Inv, Order
<1>10. NoThird'
  BY <1>1, <1>2 DEF Inv, NoThird, txCanPut
<1>11. NoSecond'
  BY <1>1, <1>2 DEF Inv, NoSecond, TwoWritten, Handling, txCanPut
<1>12. Snapshot'
  BY <1>2, <1>3 DEF Inv, Snapshot, Polling, txCanPut
<1>13. Timely'
  BY <1>1, <1>2, <1>3 DEF Inv, Timely, LineSent, Uart
<1>14. Cycle'
  BY <1>1, <1>2 DEF Inv, Cycle, Handling
<1>15. OneLine'
  BY <1>1, <1>2 DEF Inv, OneLine, TwoWritten
<1> QED BY <1>4, <1>5, <1>6, <1>7, <1>8, <1>9, <1>10, <1>11, <1>12, <1>13, <1>14, <1>15 DEF Inv

\* A buffer has been sent.
LEMMA SentKept ==
  ASSUME Inv, NEW u \in Uart, Sent(u)
  PROVE  Inv'
<1>1. Queued' = Queued /\ UNCHANGED <<ring, failed, decoderOp>>
  BY DEF Queued, Sent
<1>2. UNCHANGED <<running, step, events, rx, readOp, writeOp, late, overtook>>
  BY DEF Sent
<1>3. /\ tx' \in TxType /\ u = "monitor" /\ tx'["sbus"] = tx["sbus"]
      /\ \A v \in Uart : /\ tx'[v].sent + tx'[v].waiting = tx[v].sent + tx[v].waiting
                         /\ tx[v].waiting = 0 => tx'[v].waiting = 0
  <2>1. u = "monitor"
    BY DEF Inv, Drivers, Sent, Uart
  <2>2. /\ tx' \in TxType
        /\ tx'[u].sent + tx'[u].waiting = tx[u].sent + tx[u].waiting
        /\ tx'[u].waiting < tx[u].waiting
        /\ \A v \in Uart \ {u} : tx'[v] = tx[v]
    BY Sends
  <2>3. tx[u].waiting # 0
    BY <2>2, Numbers DEF TxType
  <2> QED BY <2>1, <2>2, <2>3 DEF Uart
<1>4. Types'
  BY <1>1, <1>2, <1>3 DEF Inv, Types, PlaceForAll, TxType
<1>5. Steps'
  BY <1>2 DEF Inv, Steps
<1>6. Deferred'
  BY <1>1, <1>2 DEF Inv, Deferred
<1>7. OneRead'
  BY <1>1, <1>2 DEF Inv, OneRead, Handling
<1>8. Drivers'
  BY <1>2, <1>3 DEF Inv, Drivers, RxBuffers
<1>9. Order'
  BY <1>1, <1>2 DEF Inv, Order
<1>10. NoThird'
  BY <1>1, <1>2, <1>3 DEF Inv, NoThird, txCanPut
<1>11. NoSecond'
  BY <1>1, <1>2, <1>3 DEF Inv, NoSecond, TwoWritten, Handling, txCanPut
<1>12. Snapshot'
  BY <1>2, <1>3 DEF Inv, Snapshot, Polling, txCanPut
<1>13. Timely'
  BY <1>1, <1>2, <1>3 DEF Inv, Timely, LineSent
<1>14. Cycle'
  BY <1>1, <1>2 DEF Inv, Cycle, Handling
<1>15. OneLine'
  BY <1>1, <1>2 DEF Inv, OneLine, TwoWritten
<1> QED BY <1>4, <1>5, <1>6, <1>7, <1>8, <1>9, <1>10, <1>11, <1>12, <1>13, <1>14, <1>15 DEF Inv

\* There is a place for what a running poll defers, but for the poll of the monitor
\* itself when it has completed a write that a line has overtaken.
LEMMA PollRoom ==
  ASSUME Inv, NEW u \in Uart, Polling(u),
         u = "sbus" \/ "writtenOp" \notin Queued \/ ~overtook \/ EXECUTOR_CAPACITY > 4
  PROVE  Len(ring) < EXECUTOR_CAPACITY
<1>1. PICK o \in {"sbusPoll", "monitorPoll"} : Queued \intersect {"sbusPoll", "monitorPoll"} \subseteq {o}
  BY DEF Inv, Deferred, Uart, PollOf, Polling
<1>2. PICK r \in Reading : Queued \intersect Reading \subseteq {r}
  BY DEF Inv, OneRead, Reading
<1>3. Queued \subseteq Proc
  BY DEF Inv, Types, Queued, Range
<1>4. Queued \subseteq {o, r, "written", "writtenOp"}
  BY <1>1, <1>2, <1>3 DEF Proc, Reading
<1>5. TwoWritten => EXECUTOR_CAPACITY > 4
  <2>1. TX_CAPACITY = 1 => ~TwoWritten \/ EXECUTOR_CAPACITY > 4
    BY DEF Inv, NoSecond, OneLine, TwoWritten, Polling, PollOf
  <2>2. TX_CAPACITY # 1 => EXECUTOR_CAPACITY > 4
    BY PoolsAssumption
  <2> QED BY <2>1, <2>2
<1> QED BY <1>4, <1>5, Room

\* The same for the decoder and the application.
LEMMA HandlingDefers ==
  ASSUME Inv, Handling, NEW p \in Proc, p \notin Queued, defer(p)
  PROVE  Joins(p) /\ CanDefer
<1>1. Queued \intersect Reading = {}
  BY DEF Inv, OneRead
<1>2. Queued \subseteq Proc
  BY DEF Inv, Types, Queued, Range
<1>3. Queued \subseteq {"sbusPoll", "monitorPoll", "written", "writtenOp"}
  BY <1>1, <1>2 DEF Proc, Reading
<1>4. TwoWritten => EXECUTOR_CAPACITY > 4
  BY PoolsAssumption DEF Inv, NoSecond
<1>5. Len(ring) < EXECUTOR_CAPACITY
  BY <1>3, <1>4, Room
<1> QED BY <1>5, Defers DEF Inv

\* A completion that joins the ring leaves the order of the others as it is.
LEMMA TurnsKept ==
  ASSUME NEW q, q \notin {"sbusPoll", "monitorPoll"}, Joins(q),
         NEW p, p \notin {q, "sbusPoll", "monitorPoll"}
  PROVE  /\ InTurn(ring, p) => InTurn(ring', p)
         /\ Before(ring, p, "sbusPoll") => Before(ring', p, "sbusPoll")
         /\ Before(ring, "monitorPoll", p) => Before(ring', "monitorPoll", p)
BY DEF Joins, InTurn

\* What is deferred while a read is handled takes its turn behind the polls.
LEMMA HandledInTurn ==
  ASSUME Inv, Handling, NEW q \in Reading \union {"written"}, q \notin Queued, Joins(q)
  PROVE  /\ \A p \in Reading \union {"written"} : InTurn(ring', p)
         /\ Before(ring', "sbusPoll", "monitorPoll")
<1>1. q \notin {"sbusPoll", "monitorPoll"}
  BY DEF Reading
<1>2. Before(ring, "sbusPoll", "monitorPoll")
  BY DEF Inv, Cycle
<1>3. Before(ring', "sbusPoll", "monitorPoll")
  BY <1>1, <1>2 DEF Joins
<1>4. Before(ring, "monitorPoll", q)
  BY Absent DEF Queued
<1>5. InTurn(ring', q)
  BY <1>1, <1>3, <1>4 DEF Joins, InTurn
<1>6. ASSUME NEW p \in Reading \union {"written"}, p # q PROVE InTurn(ring', p)
  BY <1>1, <1>6, TurnsKept DEF Inv, Cycle, Reading
<1> QED BY <1>3, <1>5, <1>6

\* The next procedure.
LEMMA ExecuteKept ==
  ASSUME Inv, executeOne, UNCHANGED <<late, overtook>>
  PROVE  Inv'
<1>1. /\ ring # << >> /\ running = "none" /\ running' = Head(ring) /\ ring' = Tail(ring)
      /\ step' = FirstStep(Head(ring))
      /\ UNCHANGED <<events, rx, tx, readOp, writeOp, decoderOp, failed>>
  BY DEF executeOne
<1>2. /\ Head(ring) \in Queued /\ Head(ring) \in Proc
      /\ ring' \in Seq(Proc) /\ Len(ring') <= EXECUTOR_CAPACITY
      /\ IsInjective(ring')
      /\ Queued' = Queued \ {Head(ring)}
      /\ \A x, y : Before(ring, x, y) => Before(ring', x, y)
      /\ \A x : x # Head(ring) /\ Before(ring, x, Head(ring)) => x \notin Queued
  <2>1. ring \in Seq(Proc) /\ IsInjective(ring) /\ Len(ring) <= EXECUTOR_CAPACITY
    BY DEF Inv, Types, Deferred
  <2>2. Len(ring) \in Nat /\ Len(Tail(ring)) \in Nat /\ EXECUTOR_CAPACITY \in Nat
    BY <1>1, <2>1, PoolsAssumption
  <2> QED BY <1>1, <2>1, <2>2, Removed DEF Queued
<1>3. Types'
  BY <1>1, Numbers DEF Inv, Types, PlaceForAll, Proc, PollSteps, FirstStep
<1>4. Steps'
  BY <1>1, <1>2 DEF Steps, PollSteps, FirstStep, Proc
<1>5. Deferred'
  BY <1>1, <1>2 DEF Inv, Deferred
<1>6. OneRead'
  BY <1>1, <1>2 DEF Inv, OneRead, Handling, Reading, Proc
<1>7. Drivers'
  BY <1>1 DEF Inv, Drivers, RxBuffers
<1>8. Order'
  BY <1>1, <1>2 DEF Inv, Order, Reading
<1>9. NoThird'
  <2>1. step' # "freeSent"
    BY <1>1, <1>2 DEF FirstStep, Proc
  <2> QED BY <1>1, <1>2, <2>1 DEF Inv, NoThird, txCanPut
<1>10. NoSecond'
  <2>1. step' # "freeSent"
    BY <1>1, <1>2 DEF FirstStep, Proc
  <2>2. ASSUME TX_CAPACITY = 1, TwoWritten'
        PROVE  ~Handling' /\ running' # "sbusPoll" /\ Before(ring', "written", "sbusPoll")
    <3>1. TwoWritten /\ Head(ring) # "written" /\ Before(ring, "written", "sbusPoll")
      BY <1>2, <2>2 DEF TwoWritten, Inv, NoSecond
    <3>2. Head(ring) # "sbusPoll" /\ Head(ring) \notin Reading
      BY <1>2, <3>1 DEF TwoWritten, Inv, Order, Reading
    <3> QED BY <1>1, <1>2, <3>1, <3>2 DEF Handling, Proc
  <2> QED BY <1>1, <1>2, <2>1, <2>2 DEF Inv, NoSecond, txCanPut
<1>11. Snapshot'
  BY <1>1, <1>2 DEF Snapshot, PollSteps, FirstStep, Proc
<1>12. Timely'
  BY <1>1, <1>2 DEF Inv, Timely, LineSent
<1>13. Cycle'
  <2> SUFFICES ASSUME NEW p \in Reading \union {"written"}
               PROVE  /\ InTurn(ring', p)
                      /\ Head(ring) = "monitorPoll" => Before(ring', p, "sbusPoll")
                      /\ Head(ring) = "sbusPoll" => Before(ring', "monitorPoll", p)
                      /\ Head(ring) = p /\ p \in Reading => Before(ring', "sbusPoll", "monitorPoll")
    BY <1>1, <1>2 DEF Cycle, Handling, Proc
  <2>1. InTurn(ring, p) /\ p \notin {"sbusPoll", "monitorPoll"}
    BY DEF Inv, Cycle, Reading
  <2>2. InTurn(ring', p)
    BY <1>2, <2>1 DEF InTurn
  <2>3. \A x, y : x \notin Queued \/ y \notin Queued => Before(ring, x, y)
    BY Absent DEF Queued
  <2>4. Head(ring) = "monitorPoll" => Before(ring, p, "sbusPoll")
    BY <1>2, <2>1, <2>3 DEF InTurn
  <2>5. Head(ring) = "sbusPoll" => Before(ring, "monitorPoll", p)
    BY <1>2, <2>1, <2>3 DEF InTurn
  <2>6. Head(ring) = p => Before(ring, "sbusPoll", "monitorPoll")
    BY <1>2, <2>1, <2>3 DEF InTurn
  <2> QED BY <1>2, <2>2, <2>4, <2>5, <2>6
<1>14. OneLine'
  BY <1>1, <1>2 DEF Inv, OneLine, TwoWritten
<1> QED BY <1>3, <1>4, <1>5, <1>6, <1>7, <1>8, <1>9, <1>10, <1>11, <1>12, <1>13, <1>14 DEF Inv

\* A pending write is completed.
LEMMA CompleteWriteKept ==
  ASSUME Inv, NEW u \in Uart, completeWrite(u), "TX_READY" \in events, writeOp[u], UNCHANGED <<late, overtook>>
  PROVE  Inv'
<1>1. /\ Polling(u) /\ step = "completeWrite" /\ step' = "deferPoll" /\ running = PollOf[u]
      /\ UNCHANGED <<running, events, rx, readOp, decoderOp>>
  BY DEF completeWrite, Continue, Polling
<1>2. u = "monitor"
  BY DEF Inv, Drivers, Uart
<1>3. Joins("writtenOp")
  <2>1. "writtenOp" \notin Queued
    BY <1>1, <1>2 DEF Inv, Order, PollOf
  <2>2. defer("writtenOp")
    BY DEF completeWrite
  <2>3. Len(ring) < EXECUTOR_CAPACITY
    BY <1>1, <2>1, PollRoom
  <2> QED BY <2>1, <2>2, <2>3, Defers DEF Inv, Proc
<1>4. /\ writeOp["monitor"] /\ writeOp' = [writeOp EXCEPT !["monitor"] = FALSE] /\ "TX_READY" \in events
  BY <1>1, <1>2 DEF completeWrite
<1>5. /\ tx' \in TxType /\ tx'["sbus"] = tx["sbus"]
      /\ tx["monitor"].sent + tx["monitor"].waiting < TX_CAPACITY
      /\ tx'["monitor"].sent + tx'["monitor"].waiting <= TX_CAPACITY
      /\ tx'["monitor"].sent = tx["monitor"].sent
      /\ tx'["monitor"].waiting = tx["monitor"].waiting + 1
  <2>1. Accepting(u)
    BY DEF completeWrite, Accepting
  <2>2. txCanPut(u)
    BY <1>1 DEF Inv, Snapshot, PollSteps
  <2> QED BY <1>2, <2>1, <2>2, LineAccepted DEF txCanPut, Uart
<1>6. Types'
  BY <1>1, <1>3, <1>4, <1>5 DEF Inv, Types, PlaceForAll, TxType, PollSteps, Joins
<1>7. Steps'
  BY <1>1, <1>2 DEF Steps, PollSteps, PollOf
<1>8. Deferred'
  BY <1>1, <1>3 DEF Inv, Deferred, Steps, Joins
<1>9. OneRead'
  BY <1>1, <1>3 DEF Inv, OneRead, Handling, Reading, Joins
<1>10. Drivers'
  <2>1. writeOp'["sbus"] = writeOp["sbus"]
    BY <1>4
  <2> QED BY <1>1, <1>5, <2>1 DEF Inv, Drivers, RxBuffers, Uart
<1>11. Order'
  <2>1. \A p \in Reading : Before(ring', "written", p)
    BY <1>3 DEF Joins, Inv, Order, Reading
  <2>2. "monitorPoll" \notin Queued
    BY <1>1, <1>2 DEF Inv, Deferred, PollOf
  <2>3. Before(ring', "writtenOp", "monitorPoll")
    BY <1>3, <2>2 DEF Joins, Inv, Order
  <2> QED BY <1>1, <1>2, <2>1, <2>3 DEF Order, PollOf
<1>12. NoThird'
  <2>1. ~writeOp'["monitor"]
    BY <1>4 DEF Inv, Types, Uart
  <2> QED BY <2>1 DEF NoThird
<1>13. NoSecond'
  <2>1. running = "monitorPoll" /\ running' = "monitorPoll"
    BY <1>1, <1>2 DEF PollOf
  <2>2. TX_CAPACITY = 1 => ~txCanPut("monitor")'
    BY <1>5, Numbers DEF txCanPut, Uart
  <2>3. Before(ring', "written", "sbusPoll")
    BY <1>3, <2>1, TurnsKept DEF Inv, Cycle
  <2> QED BY <1>1, <2>1, <2>2, <2>3 DEF NoSecond, Handling, Reading
<1>14. Snapshot'
  BY <1>1 DEF Snapshot
<1>15. Timely'
  BY <1>1, <1>3, <1>4 DEF Inv, Timely, LineSent, Joins
<1>16. Cycle'
  <2>1. \A p \in Reading \union {"written"} : InTurn(ring, p) /\ Before(ring, p, "sbusPoll")
    BY <1>1, <1>2 DEF Inv, Cycle, PollOf
  <2>2. \A p \in Reading \union {"written"} : InTurn(ring', p) /\ Before(ring', p, "sbusPoll")
    BY <1>3, <2>1, TurnsKept DEF Reading
  <2> QED BY <1>1, <1>2, <2>2 DEF Cycle, Handling, Reading, PollOf
<1>17. OneLine'
  BY <1>1, <1>3, <1>4 DEF Inv, OneLine, TwoWritten, Joins
<1> QED BY <1>6, <1>7, <1>8, <1>9, <1>10, <1>11, <1>12, <1>13, <1>14, <1>15, <1>16, <1>17 DEF Inv

\* A poll defers itself.
LEMMA DeferPollKept ==
  ASSUME Inv, NEW u \in Uart, deferPoll(u), CanDefer, UNCHANGED <<late, overtook>>
  PROVE  Inv'
<1>1. /\ running = PollOf[u] /\ step = "deferPoll" /\ running' = "none" /\ step' = "none" /\ events' = {}
      /\ UNCHANGED <<rx, tx, readOp, writeOp, decoderOp>>
  BY DEF deferPoll, Return, Polling
<1>2. Joins(PollOf[u]) /\ PollOf[u] \notin Queued /\ PollOf[u] \in {"sbusPoll", "monitorPoll"}
  <2>1. PollOf[u] \notin Queued /\ PollOf[u] \in Proc /\ PollOf[u] \in {"sbusPoll", "monitorPoll"}
    BY <1>1 DEF Inv, Deferred, PollOf, Uart, Proc
  <2>2. defer(PollOf[u])
    BY DEF deferPoll
  <2> QED BY <2>1, <2>2, Defers DEF Inv, CanDefer
<1>3. Types'
  BY <1>1, <1>2 DEF Inv, Types, PlaceForAll, Joins
<1>4. Steps'
  BY <1>1 DEF Steps, PollSteps
<1>5. Deferred'
  BY <1>1, <1>2 DEF Inv, Deferred, Joins
<1>6. OneRead'
  BY <1>1, <1>2 DEF Inv, OneRead, Handling, Reading, Steps, Joins
<1>7. Drivers'
  BY <1>1 DEF Inv, Drivers, RxBuffers
<1>8. Order'
  BY <1>1, <1>2 DEF Inv, Order, Reading, Steps, Joins
<1>9. NoThird'
  BY <1>1, <1>2 DEF Inv, NoThird, txCanPut, Joins
<1>10. NoSecond'
  BY <1>1, <1>2 DEF Inv, NoSecond, TwoWritten, Handling, Reading, txCanPut, Joins
<1>11. Snapshot'
  BY <1>1 DEF Snapshot
<1>12. Timely'
  BY <1>1, <1>2 DEF Inv, Timely, LineSent, Joins
<1>13. Cycle'
  <2> SUFFICES ASSUME NEW p \in Reading \union {"written"} PROVE InTurn(ring', p)
    BY <1>1 DEF Cycle, Handling, Reading
  <2>1. \A x : Before(ring, PollOf[u], x) /\ Before(ring, x, PollOf[u])
    BY <1>2, Absent DEF Queued
  <2>2. p \notin {"sbusPoll", "monitorPoll"}
    BY DEF Reading
  <2>3. CASE PollOf[u] = "sbusPoll"
    <3>1. Before(ring', "monitorPoll", p) /\ Before(ring', p, "sbusPoll")
      BY <1>1, <1>2, <2>1, <2>2, <2>3 DEF Inv, Cycle, Joins
    <3> QED BY <3>1 DEF InTurn
  <2>4. CASE PollOf[u] = "monitorPoll"
    <3>1. Before(ring', p, "sbusPoll") /\ Before(ring', "sbusPoll", "monitorPoll")
      BY <1>1, <1>2, <2>1, <2>2, <2>4 DEF Inv, Cycle, Joins
    <3> QED BY <3>1 DEF InTurn
  <2> QED BY <1>2, <2>3, <2>4
<1>14. OneLine'
  BY <1>1, <1>2 DEF Inv, OneLine, TwoWritten, Joins
<1> QED BY <1>3, <1>4, <1>5, <1>6, <1>7, <1>8, <1>9, <1>10, <1>11, <1>12, <1>13, <1>14 DEF Inv

\* The poll of the monitor finds the ring full: a line has overtaken another.
LEMMA PollLost ==
  ASSUME Inv, NEW u \in Uart, deferPoll(u), ~CanDefer, UNCHANGED <<late, overtook>>
  PROVE  Inv'
<1>1. /\ running = PollOf[u] /\ running' = "none" /\ step' = "none" /\ events' = {}
      /\ failed' = failed \union {"ExecutorRingFull"} /\ Queued' = Queued
      /\ UNCHANGED <<ring, rx, tx, readOp, writeOp, decoderOp>>
  BY DEF deferPoll, defer, CanDefer, Return, Polling, Queued
<1>2. u = "monitor" /\ overtook /\ ~(EXECUTOR_CAPACITY > 4)
  BY PollRoom DEF deferPoll, CanDefer, Uart, Inv, Types
<1>3. running = "monitorPoll" /\ "monitorPoll" \notin Queued
  BY <1>1, <1>2 DEF PollOf, Inv, Deferred
<1>4. Types'
  BY <1>1, <1>2 DEF Inv, Types, PlaceForAll
<1>5. Steps'
  BY <1>1 DEF Steps, PollSteps
<1>6. Deferred'
  BY <1>1, <1>3 DEF Inv, Deferred
<1>7. OneRead'
  BY <1>1, <1>3 DEF Inv, OneRead, Handling, Reading
<1>8. Drivers'
  BY <1>1 DEF Inv, Drivers, RxBuffers
<1>9. Order'
  BY <1>1 DEF Inv, Order
<1>10. Cycle'
  BY <1>1 DEF Inv, Cycle, Handling, Reading
<1>11. NoThird'
  BY <1>1 DEF Inv, NoThird, txCanPut
<1>12. NoSecond'
  BY <1>1 DEF Inv, NoSecond, TwoWritten, Handling, Reading, txCanPut
<1>13. OneLine'
  BY <1>1 DEF Inv, OneLine, TwoWritten
<1>14. Snapshot' /\ Timely'
  BY <1>1 DEF Inv, Snapshot, Timely, LineSent
<1> QED BY <1>4, <1>5, <1>6, <1>7, <1>8, <1>9, <1>10, <1>11, <1>12, <1>13, <1>14 DEF Inv

\* The decoder.
LEMMA ReadCompletedKept ==
  ASSUME Inv, NEW valid \in BOOLEAN, readCompleted(valid), UNCHANGED <<late, overtook>>
  PROVE  Inv'
<1>1. /\ step = "readCompleted" /\ step' = "none" /\ running' = "none" /\ decoderOp' = FALSE
      /\ UNCHANGED <<events, rx, tx, readOp, writeOp>>
  BY DEF readCompleted, Return
<1>2. decoderOp /\ running \in {"readDoneOp", "readDone"}
  BY <1>1 DEF Inv, OneRead, Steps
<1>3. PICK p \in {"decoded", "notDecoded"} : Joins(p) /\ p \notin Queued
  <2>1. Handling
    BY <1>2 DEF Handling, Reading
  <2>2. \A p \in {"decoded", "notDecoded"} : p \in Proc /\ p \notin Queued
    BY <2>1 DEF Inv, OneRead, Reading, Proc
  <2>3. PICK p \in {"decoded", "notDecoded"} : defer(p)
    BY <1>2 DEF readCompleted
  <2> QED BY <2>1, <2>2, <2>3, HandlingDefers
<1>4. Types'
  BY <1>1, <1>3 DEF Inv, Types, PlaceForAll, Joins
<1>5. Steps'
  BY <1>1 DEF Steps, PollSteps
<1>6. Deferred'
  BY <1>1, <1>2, <1>3 DEF Inv, Deferred, Joins
<1>7. OneRead'
  BY <1>1, <1>2, <1>3 DEF Inv, OneRead, Handling, Reading, Joins
<1>8. Drivers'
  BY <1>1 DEF Inv, Drivers, RxBuffers
<1>9. Order'
  BY <1>1, <1>3 DEF Inv, Order, Reading, Joins
<1>10. NoThird'
  BY <1>1, <1>3 DEF Inv, NoThird, txCanPut, Joins
<1>11. NoSecond'
  BY <1>1, <1>2, <1>3 DEF Inv, NoSecond, TwoWritten, Handling, Reading, txCanPut, Joins
<1>12. Snapshot'
  BY <1>1 DEF Snapshot, PollSteps
<1>13. Timely'
  BY <1>1, <1>3 DEF Inv, Timely, LineSent, Joins
<1>14. Cycle'
  <2>1. \A q \in Reading \union {"written"} : InTurn(ring', q)
    BY <1>2, <1>3, HandledInTurn DEF Handling, Reading
  <2> QED BY <1>1, <2>1 DEF Cycle, Handling, Reading
<1>15. OneLine'
  BY <1>1, <1>3 DEF Inv, OneLine, TwoWritten, Joins
<1> QED BY <1>4, <1>5, <1>6, <1>7, <1>8, <1>9, <1>10, <1>11, <1>12, <1>13, <1>14, <1>15 DEF Inv

\* A line that finds room.
LEMMA WriteKept ==
  ASSUME Inv, write, txCanPut("monitor"), UNCHANGED late
  PROVE  Inv'
<1>1. /\ step = "write" /\ running = "decoded"
      /\ txCanPut("monitor") /\ tx' = [tx EXCEPT !["monitor"] = Accept(@)]
      /\ overtook' = (overtook \/ writeOp["monitor"])
      /\ UNCHANGED <<events, rx, readOp, writeOp, decoderOp>>
  BY DEF write, Inv, Steps
<1>2. Joins("written") /\ "written" \notin Queued /\ CanDefer
  <2>1. Handling
    BY <1>1 DEF Handling, Reading
  <2>2. "written" \notin Queued
    BY <1>1 DEF Inv, Order
  <2>3. defer("written")
    BY DEF write
  <2> QED BY <2>1, <2>2, <2>3, HandlingDefers DEF Proc
<1>3. step' = "freeSent" /\ running' = "decoded"
  BY <1>1, <1>2 DEF write
<1>4. /\ tx' \in TxType /\ tx'["sbus"] = tx["sbus"]
      /\ tx'["monitor"].sent + tx'["monitor"].waiting <= TX_CAPACITY
  BY <1>1, LineAccepted DEF Uart, Accepting
<1>5. Types'
  <2>1. overtook' \in BOOLEAN /\ PlaceForAll'
    BY <1>1, <1>2 DEF Inv, Types, PlaceForAll, Uart, Joins
  <2> QED BY <1>1, <1>2, <1>3, <1>4, <2>1 DEF Inv, Types, TxType, Proc, Joins
<1>6. Steps'
  BY <1>3 DEF Steps, PollSteps
<1>7. Deferred'
  BY <1>1, <1>2, <1>3 DEF Inv, Deferred, Joins
<1>8. OneRead'
  BY <1>1, <1>2, <1>3 DEF Inv, OneRead, Handling, Reading, Joins
<1>9. Drivers'
  BY <1>1, <1>4 DEF Inv, Drivers, RxBuffers, Uart
<1>10. Order'
  <2>1. Queued \intersect Reading = {}
    BY <1>1 DEF Inv, OneRead, Handling, Reading
  <2>2. \A p \in Reading : Before(ring', "written", p)
    BY <1>2, <2>1 DEF Joins, Inv, Order, Reading
  <2>3. Before(ring', "writtenOp", "monitorPoll")
    BY <1>2 DEF Joins, Inv, Order
  <2> QED BY <1>3, <2>2, <2>3 DEF Order
<1>11. Cycle'
  <2>1. /\ \A p \in Reading \union {"written"} : InTurn(ring', p)
        /\ Before(ring', "sbusPoll", "monitorPoll")
    BY <1>1, <1>2, HandledInTurn DEF Handling, Reading
  <2> QED BY <1>3, <2>1 DEF Cycle
<1>12. NoThird'
  BY <1>1, <1>2 DEF Inv, NoThird, Joins
<1>13. NoSecond'
  <2>1. TX_CAPACITY = 1 => "writtenOp" \notin Queued'
    BY <1>1, <1>2 DEF Inv, NoSecond, Joins
  <2> QED BY <2>1 DEF NoSecond, TwoWritten
<1>14. OneLine'
  <2>1. TX_CAPACITY = 1 => "writtenOp" \notin Queued'
    BY <1>1, <1>2 DEF Inv, NoSecond, Joins
  <2> QED BY <1>1, <2>1 DEF OneLine, TwoWritten
<1>15. Snapshot'
  BY <1>3 DEF Snapshot, PollSteps
<1>16. Timely'
  <2>1. ~readOp["sbus"] /\ "readDoneOp" \notin Queued
    BY <1>1 DEF Inv, OneRead, Handling, Reading
  <2> QED BY <1>1, <1>2, <1>3, <2>1 DEF Timely, Joins
<1> QED BY <1>5, <1>6, <1>7, <1>8, <1>9, <1>10, <1>11, <1>12, <1>13, <1>14, <1>15, <1>16 DEF Inv

\* The serviceTx() after it.
LEMMA WriteServiceTxKept ==
  ASSUME Inv, writeServiceTx, UNCHANGED late
  PROVE  Inv'
<1>1. /\ step = "freeSent" /\ step' = "startRead" /\ running = "decoded" /\ running' = "notDecoded"
      /\ tx' = [tx EXCEPT !["monitor"] = FreeSent(@)] /\ Queued' = Queued
      /\ UNCHANGED <<ring, events, rx, readOp, writeOp, decoderOp, failed, late, overtook>>
  BY DEF writeServiceTx, Written, Inv, Steps, Queued
<1>2. /\ tx' \in TxType /\ tx'["sbus"] = tx["sbus"]
      /\ tx'["monitor"].sent = 0 /\ tx'["monitor"].waiting = tx["monitor"].waiting
      /\ tx'["monitor"].sent + tx'["monitor"].waiting <= TX_CAPACITY
  BY <1>1, Freed, Numbers DEF Uart
<1>3. Handling /\ Handling'
  BY <1>1 DEF Handling, Reading
<1>4. Types'
  BY <1>1, <1>2 DEF Inv, Types, PlaceForAll, TxType, Proc
<1>5. Steps'
  BY <1>1 DEF Steps, PollSteps
<1>6. Deferred'
  BY <1>1 DEF Inv, Deferred
<1>7. OneRead'
  BY <1>1, <1>3 DEF Inv, OneRead
<1>8. Drivers'
  BY <1>1, <1>2 DEF Inv, Drivers, RxBuffers, Uart
<1>9. Order'
  BY <1>1 DEF Inv, Order
<1>10. Cycle'
  BY <1>1, <1>3 DEF Inv, Cycle
<1>11. NoThird'
  BY <1>1 DEF Inv, NoThird
<1>12. NoSecond'
  BY <1>1, <1>3 DEF Inv, NoSecond, TwoWritten
<1>13. OneLine'
  BY <1>1 DEF Inv, OneLine, TwoWritten
<1>14. Snapshot'
  BY <1>1 DEF Snapshot, PollSteps
<1>15. Timely'
  BY <1>1, <1>2 DEF Inv, Timely, LineSent
<1> QED BY <1>4, <1>5, <1>6, <1>7, <1>8, <1>9, <1>10, <1>11, <1>12, <1>13, <1>14, <1>15 DEF Inv

\* A line that has to wait.
LEMMA PendKept ==
  ASSUME Inv, write, ~txCanPut("monitor"), UNCHANGED late
  PROVE  Inv'
<1>1. /\ step = "write" /\ step' = "startRead" /\ running = "decoded" /\ running' = "notDecoded"
      /\ UNCHANGED <<events, rx, readOp, decoderOp>>
  BY DEF write, Written, Inv, Steps
<1>2. /\ ~txCanPut("monitor") /\ writeOp' = [writeOp EXCEPT !["monitor"] = TRUE]
      /\ UNCHANGED <<tx, ring, failed, overtook>> /\ Queued' = Queued
  BY <1>1 DEF write, Queued
<1>3. Types'
  BY <1>1, <1>2 DEF Inv, Types, PlaceForAll, Proc
<1>4. Steps'
  BY <1>1 DEF Steps, PollSteps
<1>5. Deferred'
  BY <1>1, <1>2 DEF Inv, Deferred
<1>6. OneRead'
  BY <1>1, <1>2 DEF Inv, OneRead, Handling, Reading
<1>7. Drivers'
  BY <1>1, <1>2 DEF Inv, Drivers, RxBuffers
<1>8. Order'
  BY <1>1, <1>2 DEF Inv, Order
<1>9. NoThird'
  BY <1>1, <1>2 DEF Inv, NoThird, Order, txCanPut
<1>10. NoSecond'
  BY <1>1, <1>2 DEF Inv, NoSecond, TwoWritten, Handling, Reading, txCanPut
<1>11. Snapshot'
  BY <1>1 DEF Snapshot, PollSteps
<1>12. Timely'
  <2>1. ~readOp["sbus"] /\ "readDoneOp" \notin Queued
    BY <1>1 DEF Inv, OneRead, Handling, Reading
  <2> QED BY <1>1, <1>2, <2>1 DEF Timely
<1>13. Cycle'
  BY <1>1, <1>2 DEF Inv, Cycle, Handling, Reading
<1>14. OneLine'
  BY <1>1, <1>2 DEF Inv, OneLine, TwoWritten, NoSecond, Order, Handling, Reading
<1> QED BY <1>3, <1>4, <1>5, <1>6, <1>7, <1>8, <1>9, <1>10, <1>11, <1>12, <1>13, <1>14 DEF Inv

\* A read that has to wait.
LEMMA ReadPends ==
  ASSUME Inv, startRead, rx["sbus"].ready = 0, UNCHANGED <<late, overtook>>
  PROVE  Inv'
<1>1. /\ step = "startRead" /\ running' = "none" /\ step' = "none" /\ decoderOp' = TRUE /\ ~decoderOp
      /\ running \in {"notDecoded", "main"}
      /\ UNCHANGED <<events, tx, writeOp>>
  BY DEF startRead, Return, Inv, Steps, OneRead, Handling, Reading
<1>2. /\ rx["sbus"].ready = 0 /\ readOp' = [readOp EXCEPT !["sbus"] = TRUE]
      /\ UNCHANGED <<ring, rx, failed>> /\ Queued' = Queued
  BY <1>1 DEF startRead, Queued
<1>3. Types'
  BY <1>1, <1>2 DEF Inv, Types, PlaceForAll
<1>4. Steps'
  BY <1>1 DEF Steps, PollSteps
<1>5. Deferred'
  BY <1>1, <1>2 DEF Inv, Deferred
<1>6. OneRead'
  BY <1>1, <1>2 DEF Inv, OneRead, Handling, Reading, Types, Uart
<1>7. Drivers'
  BY <1>1, <1>2 DEF Inv, Drivers, RxBuffers
<1>8. Order'
  BY <1>1, <1>2 DEF Inv, Order
<1>9. NoThird'
  BY <1>1, <1>2 DEF Inv, NoThird, txCanPut
<1>10. NoSecond'
  BY <1>1, <1>2 DEF Inv, NoSecond, TwoWritten, Handling, Reading, txCanPut
<1>11. Snapshot'
  BY <1>1 DEF Snapshot, PollSteps
<1>12. Timely'
  BY <1>1, <1>2 DEF Inv, Timely, LineSent
<1>13. Cycle'
  BY <1>1, <1>2 DEF Inv, Cycle, Handling, Reading
<1>14. OneLine'
  BY <1>1, <1>2 DEF Inv, OneLine, TwoWritten
<1> QED BY <1>3, <1>4, <1>5, <1>6, <1>7, <1>8, <1>9, <1>10, <1>11, <1>12, <1>13, <1>14 DEF Inv

\* A read that finds a packet.
LEMMA ReadFinds ==
  ASSUME Inv, startRead, rx["sbus"].ready > 0, UNCHANGED <<late, overtook>>
  PROVE  Inv'
<1>1. /\ step = "startRead" /\ running' = "none" /\ step' = "none" /\ decoderOp' = TRUE /\ ~decoderOp
      /\ running \in {"notDecoded", "main"}
      /\ UNCHANGED <<events, tx, writeOp>>
  BY DEF startRead, Return, Inv, Steps, OneRead, Handling, Reading
<1>2. Joins("readDone") /\ "readDone" \notin Queued /\ UNCHANGED readOp
  <2>1. Handling
    BY <1>1 DEF Handling, Reading
  <2>2. "readDone" \notin Queued
    BY <2>1 DEF Inv, OneRead, Reading
  <2>3. defer("readDone") /\ UNCHANGED readOp
    BY <1>1, Numbers DEF startRead, Uart
  <2> QED BY <2>1, <2>2, <2>3, HandlingDefers DEF Proc
<1>3. /\ rx' \in RxType /\ rx'["sbus"].ready = rx["sbus"].ready - 1
      /\ \A v \in Uart : /\ rx'[v].ready <= rx[v].ready
                         /\ rx'[v].ready + rx'[v].waiting <= RX_CAPACITY
                         /\ rx'[v].active => rx'[v].waiting > 0
                         /\ v # "sbus" => rx'[v] = rx[v]
  <2>1. TakeReceived("sbus")
    BY <1>1, Numbers DEF startRead, Uart
  <2> QED BY <2>1, Taken DEF Uart
<1>4. Types'
  BY <1>1, <1>2, <1>3 DEF Inv, Types, PlaceForAll, RxType, Joins
<1>5. Steps'
  BY <1>1 DEF Steps, PollSteps
<1>6. Deferred'
  BY <1>1, <1>2 DEF Inv, Deferred, Joins
<1>7. OneRead'
  BY <1>1, <1>2 DEF Inv, OneRead, Handling, Reading, Joins
<1>8. Drivers'
  BY <1>1, <1>2, <1>3 DEF Inv, Drivers, RxBuffers
<1>9. Order'
  BY <1>1, <1>2 DEF Inv, Order, Reading, Joins
<1>10. NoThird'
  BY <1>1, <1>2 DEF Inv, NoThird, txCanPut, Joins
<1>11. NoSecond'
  BY <1>1, <1>2 DEF Inv, NoSecond, TwoWritten, Handling, Reading, txCanPut, Joins
<1>12. Snapshot'
  BY <1>1 DEF Snapshot, PollSteps
<1>13. Timely'
  BY <1>1, <1>2 DEF Inv, Timely, LineSent, Joins
<1>14. Cycle'
  <2>1. \A q \in Reading \union {"written"} : InTurn(ring', q)
    BY <1>1, <1>2, HandledInTurn DEF Handling, Reading
  <2> QED BY <1>1, <2>1 DEF Cycle, Handling, Reading
<1>15. OneLine'
  BY <1>1, <1>2 DEF Inv, OneLine, TwoWritten, Joins
<1> QED BY <1>4, <1>5, <1>6, <1>7, <1>8, <1>9, <1>10, <1>11, <1>12, <1>13, <1>14, <1>15 DEF Inv

\* completeRead without a packet.
LEMMA NothingReceivedKept ==
  ASSUME Inv, NEW u \in Uart, completeRead(u), "RX_READY" \notin events, UNCHANGED <<late, overtook>>
  PROVE  Inv'
<1>1. /\ running = PollOf[u] /\ step = "completeRead"
      /\ UNCHANGED <<running, events, tx, writeOp, decoderOp, rx, readOp, ring, failed>>
      /\ step' = "completeWrite" /\ Queued' = Queued
  BY DEF completeRead, Polling, Queued
<1>2. Types'
  BY <1>1 DEF Inv, Types, PlaceForAll, PollSteps
<1>3. Steps'
  BY <1>1 DEF Steps, PollSteps, PollOf, Uart
<1>4. Deferred'
  BY <1>1 DEF Inv, Deferred
<1>5. OneRead'
  BY <1>1 DEF Inv, OneRead, Handling
<1>6. Drivers'
  BY <1>1 DEF Inv, Drivers, RxBuffers
<1>7. Order'
  BY <1>1 DEF Inv, Order
<1>8. NoThird'
  BY <1>1 DEF Inv, NoThird, txCanPut
<1>9. NoSecond'
  BY <1>1 DEF Inv, NoSecond, TwoWritten, Handling, txCanPut, Steps
<1>10. Snapshot'
  BY <1>1 DEF Inv, Snapshot, Polling, txCanPut, PollSteps
<1>11. Timely'
  BY <1>1 DEF Inv, Timely, LineSent
<1>12. Cycle'
  BY <1>1 DEF Inv, Cycle, Handling
<1>13. OneLine'
  BY <1>1 DEF Inv, OneLine, TwoWritten
<1> QED BY <1>2, <1>3, <1>4, <1>5, <1>6, <1>7, <1>8, <1>9, <1>10, <1>11, <1>12, <1>13 DEF Inv

\* completeRead drops a packet.
LEMMA DropKept ==
  ASSUME Inv, NEW u \in Uart, completeRead(u), "RX_READY" \in events, ~readOp[u], UNCHANGED <<late, overtook>>
  PROVE  Inv'
<1>1. /\ running = PollOf[u] /\ step = "completeRead"
      /\ UNCHANGED <<running, events, tx, writeOp, decoderOp, readOp, ring, failed>>
      /\ step' = "refill" /\ Queued' = Queued
  BY DEF completeRead, Polling, Queued
<1>2. /\ rx' \in RxType /\ rx'[u].ready = rx[u].ready - 1
      /\ \A v \in Uart : /\ rx'[v].ready <= rx[v].ready
                         /\ rx'[v].ready + rx'[v].waiting <= RX_CAPACITY
                         /\ rx'[v].active => rx'[v].waiting > 0
                         /\ v # u => rx'[v] = rx[v]
  <2>1. TakeReceived(u) /\ rx[u].ready > 0
    BY DEF completeRead, Inv, Snapshot
  <2> QED BY <2>1, Taken
<1>3. Types'
  BY <1>1, <1>2 DEF Inv, Types, PlaceForAll, RxType, PollSteps
<1>4. Steps'
  BY <1>1 DEF Steps, PollSteps, PollOf, Uart
<1>5. Deferred'
  BY <1>1 DEF Inv, Deferred
<1>6. OneRead'
  BY <1>1 DEF Inv, OneRead, Handling
<1>7. Drivers'
  BY <1>1, <1>2 DEF Inv, Drivers, RxBuffers
<1>8. Order'
  BY <1>1 DEF Inv, Order
<1>9. NoThird'
  BY <1>1 DEF Inv, NoThird, txCanPut
<1>10. NoSecond'
  BY <1>1 DEF Inv, NoSecond, TwoWritten, Handling, txCanPut, Steps
<1>11. Snapshot'
  BY <1>1 DEF Inv, Snapshot, Polling, txCanPut, PollSteps
<1>12. Timely'
  BY <1>1, <1>2 DEF Inv, Timely, LineSent, Uart
<1>13. Cycle'
  BY <1>1 DEF Inv, Cycle, Handling
<1>14. OneLine'
  BY <1>1 DEF Inv, OneLine, TwoWritten
<1> QED BY <1>3, <1>4, <1>5, <1>6, <1>7, <1>8, <1>9, <1>10, <1>11, <1>12, <1>13, <1>14 DEF Inv

\* completeRead hands over a packet.
LEMMA CompleteReadKept ==
  ASSUME Inv, NEW u \in Uart, completeRead(u), "RX_READY" \in events, readOp[u], UNCHANGED <<late, overtook>>
  PROVE  Inv'
<1>1. /\ running = PollOf[u] /\ step = "completeRead"
      /\ UNCHANGED <<running, events, tx, writeOp, decoderOp>>
      /\ readOp' = [readOp EXCEPT ![u] = FALSE]
  BY DEF completeRead, Polling
<1>2. u = "sbus"
  BY DEF Inv, Drivers, Uart
<1>3. Joins("readDoneOp") /\ "readDoneOp" \notin Queued /\ step' = "refill"
  <2>1. "readDoneOp" \notin Queued
    BY <1>2 DEF Inv, OneRead, Reading
  <2>2. defer("readDoneOp") /\ step' = IF CanDefer THEN "refill" ELSE "completeWrite"
    BY DEF completeRead
  <2>3. Len(ring) < EXECUTOR_CAPACITY
    BY <1>1, <1>2, PollRoom DEF Polling
  <2> QED BY <2>1, <2>2, <2>3, Defers DEF Inv, Proc, CanDefer
<1>4. rx["sbus"].ready > 0
  BY <1>1, <1>2 DEF Inv, Snapshot, Polling
<1>5. /\ rx' \in RxType /\ rx'["sbus"].ready = rx["sbus"].ready - 1
      /\ \A v \in Uart : /\ rx'[v].ready <= rx[v].ready
                         /\ rx'[v].ready + rx'[v].waiting <= RX_CAPACITY
                         /\ rx'[v].active => rx'[v].waiting > 0
                         /\ v # "sbus" => rx'[v] = rx[v]
  <2>1. TakeReceived(u)
    BY DEF completeRead
  <2> QED BY <1>2, <1>4, <2>1, Taken
<1>6. Types'
  BY <1>1, <1>3, <1>5 DEF Inv, Types, PlaceForAll, RxType, PollSteps, Joins
<1>7. Steps'
  BY <1>1, <1>2, <1>3 DEF Steps, PollSteps, PollOf
<1>8. Deferred'
  BY <1>1, <1>3 DEF Inv, Deferred, Steps, Joins
<1>9. OneRead'
  BY <1>1, <1>2, <1>3 DEF Inv, OneRead, Handling, Reading, Types, Joins
<1>10. Drivers'
  BY <1>1, <1>5 DEF Inv, Drivers, RxBuffers
<1>11. Order'
  BY <1>1, <1>3 DEF Inv, Order, Reading, Joins
<1>12. NoThird'
  BY <1>1, <1>3 DEF Inv, NoThird, txCanPut, Joins
<1>13. NoSecond'
  BY <1>1, <1>2, <1>3 DEF Inv, NoSecond, TwoWritten, txCanPut, PollOf, Joins
<1>14. Snapshot'
  BY <1>1, <1>3 DEF Inv, Snapshot, Polling, txCanPut, PollSteps
<1>15. Timely'
  BY <1>1, <1>2, <1>4 DEF Inv, Timely, LineSent
<1>16. Cycle'
  <2>1. running = "sbusPoll" /\ running' = "sbusPoll" /\ "sbusPoll" \notin Queued
    BY <1>1, <1>2 DEF PollOf, Inv, Deferred
  <2>2. ASSUME NEW p \in Reading \union {"written"} PROVE InTurn(ring', p) /\ Before(ring', "monitorPoll", p)
    <3>1. CASE p = "readDoneOp"
      <4>1. \A x : Before(ring, x, p) /\ Before(ring, p, x)
        BY <1>3, <3>1, Absent DEF Queued
      <4>2. Before(ring', "monitorPoll", p) /\ Before(ring', p, "sbusPoll")
        BY <1>3, <2>1, <3>1, <4>1 DEF Joins
      <4> QED BY <4>2 DEF InTurn
    <3>2. CASE p # "readDoneOp"
      BY <1>3, <2>1, <3>2, TurnsKept DEF Inv, Cycle, Reading
    <3> QED BY <3>1, <3>2
  <2> QED BY <2>1, <2>2 DEF Cycle, Handling, Reading
<1>17. OneLine'
  BY <1>1, <1>3 DEF Inv, OneLine, TwoWritten, Joins
<1> QED BY <1>6, <1>7, <1>8, <1>9, <1>10, <1>11, <1>12, <1>13, <1>14, <1>15, <1>16, <1>17 DEF Inv

\* completeWrite without a pending write, or without room for it.
LEMMA NothingWrittenKept ==
  ASSUME Inv, NEW u \in Uart, completeWrite(u), ~("TX_READY" \in events /\ writeOp[u]), UNCHANGED <<late, overtook>>
  PROVE  Inv'
<1>1. /\ running = PollOf[u] /\ step = "completeWrite" /\ step' = "deferPoll" /\ Queued' = Queued
      /\ UNCHANGED <<running, events, rx, tx, readOp, writeOp, decoderOp, ring, failed>>
  BY DEF completeWrite, Polling, Queued, Continue
<1>2. Types'
  BY <1>1 DEF Inv, Types, PlaceForAll, PollSteps
<1>3. Steps'
  BY <1>1 DEF Steps, PollSteps, PollOf, Uart
<1>4. Deferred'
  BY <1>1 DEF Inv, Deferred
<1>5. OneRead'
  BY <1>1 DEF Inv, OneRead, Handling
<1>6. Drivers'
  BY <1>1 DEF Inv, Drivers, RxBuffers
<1>7. Order'
  BY <1>1 DEF Inv, Order
<1>8. NoThird'
  BY <1>1 DEF Inv, NoThird, txCanPut
<1>9. NoSecond'
  BY <1>1 DEF Inv, NoSecond, TwoWritten, Handling, txCanPut
<1>10. Snapshot'
  BY <1>1 DEF Snapshot
<1>11. Timely'
  BY <1>1 DEF Inv, Timely, LineSent
<1>12. Cycle'
  BY <1>1 DEF Inv, Cycle, Handling
<1>13. OneLine'
  BY <1>1 DEF Inv, OneLine, TwoWritten
<1> QED BY <1>2, <1>3, <1>4, <1>5, <1>6, <1>7, <1>8, <1>9, <1>10, <1>11, <1>12, <1>13 DEF Inv

\* main() has deferred the polls and is about to start the first read.
LEMMA InitHolds == Init => Inv
<1> SUFFICES ASSUME Init PROVE Inv
  OBVIOUS
<1>1. /\ ring = <<"sbusPoll", "monitorPoll">> /\ running = "main" /\ step = "startRead"
      /\ ~readOp["sbus"] /\ ~readOp["monitor"] /\ ~writeOp["sbus"] /\ ~writeOp["monitor"] /\ ~decoderOp
      /\ events = {} /\ failed = {} /\ late = FALSE /\ overtook = FALSE
  BY DEF Init, PollOf, Uart
<1>2. \A u \in Uart : rx[u].ready = 0 /\ rx[u].waiting = 0 /\ ~rx[u].active /\ tx[u].sent = 0 /\ tx[u].waiting = 0
  BY DEF Init, Uart
<1>3. ring \in Seq(Proc) /\ Len(ring) = 2 /\ DOMAIN ring = {1, 2} /\ ring[1] = "sbusPoll" /\ ring[2] = "monitorPoll"
  BY <1>1 DEF Proc
<1>4. Queued = {"sbusPoll", "monitorPoll"}
  BY <1>3 DEF Queued, Range
<1>5. Types
  <2>1. rx \in [Uart -> [ready : Nat, waiting : Nat, active : BOOLEAN]] /\ tx \in [Uart -> [sent : Nat, waiting : Nat]]
    BY DEF Init
  <2>2. readOp \in [Uart -> BOOLEAN] /\ writeOp \in [Uart -> BOOLEAN]
    BY DEF Init
  <2>3. Len(ring) <= EXECUTOR_CAPACITY
    BY <1>3, PoolsAssumption
  <2> QED BY <1>3, <2>3 DEF Types, PlaceForAll, Init
<1>6. Steps
  BY <1>1 DEF Steps, PollSteps
<1>7. Deferred
  <2>1. IsInjective(ring)
    BY <1>3 DEF IsInjective
  <2> QED BY <1>1, <1>4, <2>1 DEF Deferred
<1>8. OneRead
  BY <1>1, <1>4 DEF OneRead, Handling, Reading
<1>9. Drivers
  BY <1>1, <1>2, PoolsAssumption DEF Drivers, RxBuffers, Uart
<1>10. Order
  <2>1. \A p, q : p \notin Queued => Before(ring, p, q)
    BY DEF Before, Queued, Range
  <2> QED BY <1>4, <2>1 DEF Order
<1>11. NoThird /\ NoSecond /\ OneLine
  BY <1>4 DEF NoThird, NoSecond, OneLine, TwoWritten
<1>12. Snapshot /\ Timely
  BY <1>1, <1>4 DEF Snapshot, Timely
<1>13. Cycle
  <2>1. Before(ring, "sbusPoll", "monitorPoll")
    BY <1>3 DEF Before
  <2>2. \A p \in Reading \union {"written"} : Before(ring, "monitorPoll", p)
    BY <1>4, Absent DEF Queued, Reading
  <2> QED BY <1>1, <2>1, <2>2 DEF Cycle, InTurn
<1> QED BY <1>5, <1>6, <1>7, <1>8, <1>9, <1>10, <1>11, <1>12, <1>13 DEF Inv

\* Every step keeps the invariant.
LEMMA StepKeeps == Inv /\ [Next]_vars => Inv'
<1> SUFFICES ASSUME Inv, [Next]_vars PROVE Inv'
  OBVIOUS
<1>1. ASSUME NEW u \in Uart, PollStep(u), UNCHANGED <<late, overtook>> PROVE Inv'
  <2>1. CASE poll(u)
    BY <1>1, <2>1, PollKept
  <2>2. CASE pollServiceRx(u)
    BY <1>1, <2>2, ServiceRxKept
  <2>3. CASE pollServiceTx(u)
    BY <1>1, <2>3, ServiceTxKept
  <2>4. CASE completeRead(u)
    BY <1>1, <2>4, NothingReceivedKept, DropKept, CompleteReadKept
  <2>5. CASE refill(u)
    BY <1>1, <2>5, RefillKept
  <2>6. CASE completeWrite(u)
    BY <1>1, <2>6, CompleteWriteKept, NothingWrittenKept
  <2>7. CASE deferPoll(u)
    BY <1>1, <2>7, DeferPollKept, PollLost
  <2> QED BY <1>1, <2>1, <2>2, <2>3, <2>4, <2>5, <2>6, <2>7 DEF PollStep
<1>2. ASSUME executeOne, UNCHANGED <<late, overtook>> PROVE Inv'
  BY <1>2, ExecuteKept
<1>3. ASSUME NEW valid \in BOOLEAN, readCompleted(valid), UNCHANGED <<late, overtook>> PROVE Inv'
  BY <1>3, ReadCompletedKept
<1>4. ASSUME write \/ writeServiceTx, UNCHANGED late PROVE Inv'
  BY <1>4, WriteKept, PendKept, WriteServiceTxKept
<1>5. ASSUME startRead, UNCHANGED <<late, overtook>> PROVE Inv'
  <2>1. rx["sbus"].ready = 0 \/ rx["sbus"].ready > 0
    BY Numbers DEF Uart
  <2> QED BY <1>5, <2>1, ReadPends, ReadFinds
<1>6. ASSUME finish, UNCHANGED <<late, overtook>> PROVE Inv'
  BY <1>6, FinishKept
<1>7. ASSUME NEW u \in Uart, Receive(u) \/ Sent(u) PROVE Inv'
  BY <1>7, ReceiveKept, SentKept
<1>8. CASE UNCHANGED vars
  BY <1>8
  DEF vars, Inv, Types, Steps, Deferred, OneRead, Drivers, Order, Cycle, NoThird, NoSecond,
              OneLine, TwoWritten, Snapshot, Timely, PlaceForAll, Queued, Handling, RxBuffers, txCanPut, Polling, LineSent
<1> QED BY <1>1, <1>2, <1>3, <1>4, <1>5, <1>6, <1>7, <1>8 DEF Next, MainLoop, RunStep

\* The inductive invariant.
LEMMA Invariance == Spec => []Inv
BY InitHolds, StepKeeps, PTL DEF Spec

-----------------------------------------------------------------------------
\* The places of the procedures of P in a ring that holds one of them at most.
LEMMA Places ==
  ASSUME NEW s \in Seq(Proc), IsInjective(s), NEW P, \A p, q \in P : p \in Range(s) /\ q \in Range(s) => p = q
  PROVE  Cardinality({i \in DOMAIN s : s[i] \in P}) = Count(P \intersect Range(s) # {})
<1> DEFINE I == {i \in DOMAIN s : s[i] \in P}
<1>1. CASE P \intersect Range(s) = {}
  <2>1. I = {}
    BY <1>1 DEF Range
  <2> QED BY <1>1, <2>1, FS_EmptySet DEF Count
<1>2. CASE P \intersect Range(s) # {}
  <2>1. PICK i \in DOMAIN s : s[i] \in P
    BY <1>2 DEF Range
  <2>2. \A j \in DOMAIN s : s[j] \in P => j = i
    BY <2>1 DEF Range, IsInjective
  <2>3. I = {i}
    BY <2>1, <2>2
  <2> QED BY <1>2, <2>3, FS_Singleton DEF Count
<1> QED BY <1>1, <1>2

\* The ring as a set.
LEMMA RingCounts ==
  ASSUME Inv
  PROVE  /\ \A p : Occurrences(p) = Count(p \in Queued)
         /\ InRing(Reading) = Count(Reading \intersect Queued # {})
         /\ InRing({"decoded", "notDecoded"}) = Count("decoded" \in Queued \/ "notDecoded" \in Queued)
         /\ \A p : InRing({p}) = Count(p \in Queued)
<1>1. ring \in Seq(Proc) /\ IsInjective(ring)
  BY DEF Inv, Types, Deferred
<1>2. ASSUME NEW p PROVE Occurrences(p) = Count(p \in Queued) /\ InRing({p}) = Count(p \in Queued)
  <2>1. {i \in DOMAIN ring : ring[i] = p} = {i \in DOMAIN ring : ring[i] \in {p}}
    OBVIOUS
  <2>2. Cardinality({i \in DOMAIN ring : ring[i] \in {p}}) = Count({p} \intersect Range(ring) # {})
    BY <1>1, Places
  <2>3. {p} \intersect Range(ring) # {} <=> p \in Queued
    BY DEF Queued
  <2> QED BY <2>2, <2>3 DEF Occurrences, InRing
<1>3. \A p, q \in Reading : p \in Range(ring) /\ q \in Range(ring) => p = q
  BY DEF Inv, OneRead, Queued
<1>4. InRing(Reading) = Count(Reading \intersect Queued # {})
  BY <1>1, <1>3, Places DEF InRing, Queued
<1>5. InRing({"decoded", "notDecoded"}) = Count({"decoded", "notDecoded"} \intersect Queued # {})
  BY <1>1, <1>3, Places DEF InRing, Queued, Reading
<1>6. {"decoded", "notDecoded"} \intersect Queued # {} <=> "decoded" \in Queued \/ "notDecoded" \in Queued
  OBVIOUS
<1> QED BY <1>2, <1>4, <1>5

\* The read is in one place, the SBUS is polled for ever, and every procedure that
\* is deferred finds a place in the executor's ring, but for the poll of the monitor
\* when it has completed a write that a line has overtaken and there are only four
\* places (executor.h:33-38, bottom_module.h:76-87).
THEOREM FirmwareNeverFails == Spec => []NothingFails
<1>1. ASSUME Inv PROVE NothingFails
  <2>1. PlaceForAll /\ failed \subseteq {"ExecutorRingFull"}
    BY <1>1 DEF Inv, Types
  <2>2. OneReadInFlight
    <3> SUFFICES ASSUME running = "none"
                 PROVE  /\ Count(readOp["sbus"]) + InRing(Reading) = 1
                        /\ decoderOp <=> InRing({"decoded", "notDecoded"}) = 0
      BY DEF OneReadInFlight, Reading
    <3>1. readOp["sbus"] <=> Queued \intersect Reading = {}
      BY <1>1 DEF Inv, OneRead, Handling, Reading
    <3>2. Count(readOp["sbus"]) + InRing(Reading) = 1
      BY <1>1, <3>1, RingCounts DEF Count
    <3>3. decoderOp <=> ~("decoded" \in Queued \/ "notDecoded" \in Queued)
      BY <1>1, <3>1 DEF Inv, OneRead, Reading
    <3>4. decoderOp <=> InRing({"decoded", "notDecoded"}) = 0
      BY <1>1, <3>3, RingCounts DEF Count
    <3> QED BY <3>2, <3>4
  <2>3. SnapshotStillTrue
    BY <1>1 DEF Inv, Snapshot, SnapshotStillTrue, PollSteps
  <2>4. PollsInRing
    BY <1>1, RingCounts DEF Inv, Deferred, PollsInRing, Count
  <2> QED BY <2>1, <2>2, <2>3, <2>4 DEF NothingFails
<1> QED BY <1>1, Invariance, PTL

\* The types, with the bounds that the checks use.
LEMMA Typed == Inv => TypeOK
<1> SUFFICES ASSUME Inv PROVE TypeOK
  OBVIOUS
<1>1. ring \in BoundedSeq(Proc, EXECUTOR_CAPACITY)
  <2>1. ring \in Seq(Proc) /\ Len(ring) <= EXECUTOR_CAPACITY /\ Len(ring) \in Nat /\ EXECUTOR_CAPACITY \in Nat
    BY PoolsAssumption DEF Inv, Types
  <2>2. ring \in [1 .. Len(ring) -> Proc] /\ Len(ring) \in 0 .. EXECUTOR_CAPACITY
    BY <2>1
  <2> QED BY <2>2 DEF BoundedSeq, SeqOf
<1>2. rx \in [Uart -> [ready : 0 .. RX_CAPACITY, waiting : 0 .. RX_CAPACITY, active : BOOLEAN]]
  <2>1. ASSUME NEW u \in Uart
        PROVE  rx[u] \in [ready : 0 .. RX_CAPACITY, waiting : 0 .. RX_CAPACITY, active : BOOLEAN]
    <3>1. rx[u] \in [ready : Nat, waiting : Nat, active : BOOLEAN]
      BY Numbers DEF RxType
    <3>2. rx[u].ready \in 0 .. RX_CAPACITY /\ rx[u].waiting \in 0 .. RX_CAPACITY
      BY Numbers
    <3> QED BY <3>1, <3>2
  <2>2. rx \in RxType
    BY Numbers
  <2> QED BY <2>1, <2>2 DEF RxType
<1>3. tx \in [Uart -> [sent : 0 .. TX_CAPACITY, waiting : 0 .. TX_CAPACITY]]
  <2>1. ASSUME NEW u \in Uart
        PROVE  tx[u] \in [sent : 0 .. TX_CAPACITY, waiting : 0 .. TX_CAPACITY]
    <3>1. tx[u] \in [sent : Nat, waiting : Nat]
      BY Numbers DEF TxType
    <3>2. tx[u].sent \in 0 .. TX_CAPACITY /\ tx[u].waiting \in 0 .. TX_CAPACITY
      BY Numbers
    <3> QED BY <3>1, <3>2
  <2>2. tx \in TxType
    BY Numbers
  <2> QED BY <2>1, <2>2 DEF TxType
<1> QED BY <1>1, <1>2, <1>3 DEF TypeOK, Inv, Types, PollSteps

\* What a step takes at its peak.
FuncsPeak == CASE step = "startRead" -> 4
               [] step = "write" -> 2
               [] step \in {"completeRead", "completeWrite", "deferPoll", "readCompleted"} -> 1
               [] OTHER -> 0
BuffersPeak == CASE step \in {"serviceRx", "refill"} -> ServicePeak(CHOOSE u \in Uart : Polling(u))
                 [] step \in {"readCompleted", "write", "startRead"} -> 1
                 [] OTHER -> 0

\* How the peak of a step is bounded.
LEMMA PeakOf ==
  ASSUME Inv
  PROVE  /\ Peak[1] \in Nat /\ Peak[2] \in Nat /\ Peak[3] \in Nat
         /\ Peak[1] <= FuncsPeak /\ Peak[2] <= BuffersPeak /\ Peak[3] <= 1
<1> DEFINE v == CHOOSE u \in Uart : Polling(u)
<1>1. ASSUME step \in {"serviceRx", "refill"} PROVE ServicePeak(v) \in Nat
  <2>1. v \in Uart
    BY DEF Uart
  <2>2. rx[v].ready \in Nat /\ rx[v].waiting \in Nat /\ RX_CAPACITY \in Nat /\ rx[v].ready + rx[v].waiting <= RX_CAPACITY
    BY <2>1, Numbers
  <2> QED BY <2>2 DEF ServicePeak, rxCanPut, RxBuffers
<1> HIDE DEF v
<1>2. \/ Peak = <<0, 0, 0>>
      \/ step \in {"serviceRx", "refill"} /\ Peak = <<0, ServicePeak(v), 0>>
      \/ step \in {"completeRead", "completeWrite", "deferPoll"} /\ Peak = <<1, 0, 0>>
      \/ step = "readCompleted" /\ Peak = <<1, 1, 0>>
      \/ step = "write" /\ Peak \in {<<2, 0, 1>>, <<1, 1, 1>>}
      \/ step = "startRead" /\ Peak \in {<<1, 0, 0>>, <<4, 0, 0>>, <<3, 1, 0>>}
  BY DEF Peak, v
<1> QED BY <1>1, <1>2 DEF FuncsPeak, BuffersPeak, v
\* The functions that the polls hold, those of the read and those of the writes.
PollFuncs == Count("sbusPoll" \in Queued) + Count("monitorPoll" \in Queued)
               + Count(running = "sbusPoll") + Count(running = "monitorPoll")
ReadFuncs == 2 * Count("readDoneOp" \in Queued) + 2 * Count("readDone" \in Queued)
               + 3 * Count("decoded" \in Queued) + 3 * Count("notDecoded" \in Queued)
               + 2 * Count(running \in {"readDoneOp", "readDone"})
               + 3 * Count(running \in {"decoded", "notDecoded"})
               + Count(readOp["sbus"]) + 2 * Count(decoderOp)
WriteFuncs == 2 * Count("writtenOp" \in Queued) + 2 * Count("written" \in Queued)
               + 2 * Count(running \in {"writtenOp", "written"})
               + Count(writeOp["monitor"])

\* There are no others.
LEMMA FuncsOf == Inv => FuncsUsed = PollFuncs + ReadFuncs + WriteFuncs
<1> SUFFICES ASSUME Inv PROVE FuncsUsed = PollFuncs + ReadFuncs + WriteFuncs
  OBVIOUS
<1>1. \A x : Count(x) \in {0, 1}
  BY DEF Count
<1>2. RingHolds(ProcFuncs)
        = Count("sbusPoll" \in Queued) + Count("monitorPoll" \in Queued)
          + 2 * Count("readDoneOp" \in Queued) + 2 * Count("readDone" \in Queued)
          + 3 * Count("decoded" \in Queued) + 3 * Count("notDecoded" \in Queued)
          + 2 * Count("writtenOp" \in Queued) + 2 * Count("written" \in Queued)
  BY <1>1, RingCounts DEF RingHolds, ProcFuncs
<1>3. ProcFuncs(running)
        = Count(running = "sbusPoll") + Count(running = "monitorPoll")
          + 2 * Count(running \in {"readDoneOp", "readDone"})
          + 3 * Count(running \in {"decoded", "notDecoded"})
          + 2 * Count(running \in {"writtenOp", "written"})
  BY DEF ProcFuncs, Count
<1>4. Count(readOp["monitor"]) = 0 /\ Count(writeOp["sbus"]) = 0
  BY DEF Inv, Drivers, Count
<1>5. (IF decoderOp THEN 2 ELSE 0) = 2 * Count(decoderOp)
  BY DEF Count
<1> QED BY <1>1, <1>2, <1>3, <1>4, <1>5, SMTT(30) DEF FuncsUsed, PollFuncs, ReadFuncs, WriteFuncs

\* The pool of functions.
LEMMA Functions == Inv => FuncsSuffice
<1> SUFFICES ASSUME Inv PROVE FuncsUsed + Peak[1] <= NUM_PROC
  BY DEF FuncsSuffice
<1>1. PollFuncs \in Nat /\ PollFuncs <= 2
  BY DEF PollFuncs, Inv, Deferred, Count
<1>2. ReadFuncs \in Nat /\ ReadFuncs <= 4 /\ (step \in {"write", "startRead"} => ReadFuncs <= 3)
  <2>1. /\ readOp["sbus"] => ~Handling /\ Queued \intersect Reading = {}
        /\ Handling => Queued \intersect Reading = {}
        /\ decoderOp <=> \/ readOp["sbus"]
                         \/ "readDoneOp" \in Queued \/ "readDone" \in Queued
                         \/ running \in {"readDoneOp", "readDone"}
        /\ \A p, q \in Reading : p \in Queued /\ q \in Queued => p = q
    BY DEF Inv, OneRead
  <2>2. step \in {"write", "startRead"} => running \in {"decoded", "notDecoded", "main"}
    BY DEF Inv, Steps
  <2>3. CASE Handling
    BY <2>1, <2>2, <2>3 DEF ReadFuncs, Reading, Count
  <2>4. CASE ~Handling /\ Queued \intersect Reading = {}
    BY <2>4 DEF ReadFuncs, Handling, Reading, Count
  <2>5. CASE ~Handling /\ Queued \intersect Reading # {}
    <3>1. PICK p \in Reading : Queued \intersect Reading = {p}
      BY <2>1, <2>5
    <3> QED BY <2>1, <2>2 DEF ReadFuncs, Handling, Reading, Count
  <2> QED BY <2>3, <2>4, <2>5
<1>3. /\ WriteFuncs \in Nat /\ WriteFuncs <= 6
      /\ step # "finish" => WriteFuncs <= 4
      /\ TX_CAPACITY = 1 /\ step \in {"write", "startRead"} => WriteFuncs <= 3
  <2>1. step # "finish" => running \notin {"writtenOp", "written"}
    BY DEF Inv, Steps
  <2>2. ~("writtenOp" \in Queued /\ "written" \in Queued /\ writeOp["monitor"])
    BY DEF Inv, NoThird
  <2>3. step \in {"write", "startRead"} => Handling
    BY DEF Inv, Steps, Handling, Reading
  <2>4. TX_CAPACITY = 1 /\ step \in {"write", "startRead"} => ~("writtenOp" \in Queued /\ "written" \in Queued)
    BY <2>3 DEF Inv, NoSecond, TwoWritten
  <2> QED BY <2>1, <2>2, <2>4 DEF WriteFuncs, Count
<1>4. /\ Peak[1] \in Nat /\ Peak[1] <= 4
      /\ step # "startRead" => Peak[1] <= 2
      /\ step \notin {"startRead", "write"} => Peak[1] <= 1
      /\ step = "finish" => Peak[1] = 0
  BY PeakOf DEF FuncsPeak
<1>5. NUM_PROC \in Nat /\ (NUM_PROC >= 13 \/ (TX_CAPACITY = 1 /\ NUM_PROC >= 12))
  BY PoolsAssumption
<1>6. FuncsUsed = PollFuncs + ReadFuncs + WriteFuncs
  BY FuncsOf
<1> QED BY <1>1, <1>2, <1>3, <1>4, <1>5, <1>6

\* The buffers and operations that the read holds, and those of the writes.
ReadBuffers == 2 * Count("readDoneOp" \in Queued) + Count("readDone" \in Queued)
                 + Count("decoded" \in Queued)
                 + 2 * Count(running = "readDoneOp") + Count(running \in {"readDone", "decoded"})
                 + Count(readOp["sbus"])
WriteBuffers == Count("writtenOp" \in Queued) + Count(running = "writtenOp") + Count(writeOp["monitor"])

\* There are no others, besides those in the receive rings.
LEMMA BuffersOf == Inv => BuffersUsed = ReadBuffers + WriteBuffers + RxBuffers("sbus") + RxBuffers("monitor")
<1> SUFFICES ASSUME Inv PROVE BuffersUsed = ReadBuffers + WriteBuffers + RxBuffers("sbus") + RxBuffers("monitor")
  OBVIOUS
<1>1. \A x : Count(x) \in {0, 1}
  BY DEF Count
<1>2. RingHolds(ProcBuffers)
        = 2 * Count("readDoneOp" \in Queued) + Count("readDone" \in Queued)
          + Count("decoded" \in Queued) + Count("writtenOp" \in Queued)
  BY <1>1, RingCounts DEF RingHolds, ProcBuffers
<1>3. ProcBuffers(running)
        = 2 * Count(running = "readDoneOp") + Count(running \in {"readDone", "decoded"})
          + Count(running = "writtenOp")
  BY DEF ProcBuffers, Count
<1>4. Count(readOp["monitor"]) = 0 /\ Count(writeOp["sbus"]) = 0
  BY DEF Inv, Drivers, Count
<1>5. RxBuffers("sbus") \in Nat /\ RxBuffers("monitor") \in Nat
  BY Numbers DEF RxBuffers, Uart
<1> QED BY <1>1, <1>2, <1>3, <1>4 DEF BuffersUsed, ReadBuffers, WriteBuffers

\* The pool of buffers.
LEMMA Buffers == Inv => BuffersSuffice
<1> SUFFICES ASSUME Inv PROVE BuffersUsed + Peak[2] <= POOL_NUM_BUFFERS + Count(late)
  BY DEF BuffersSuffice
<1>1. /\ ReadBuffers \in Nat /\ ReadBuffers <= 2
      /\ step = "write" => ReadBuffers <= 1
      /\ step = "startRead" => ReadBuffers = 0
      /\ ~("readDoneOp" \in Queued \/ running = "readDoneOp") => ReadBuffers <= 1
  <2>1. /\ readOp["sbus"] => ~Handling /\ Queued \intersect Reading = {}
        /\ Handling => Queued \intersect Reading = {}
        /\ \A p, q \in Reading : p \in Queued /\ q \in Queued => p = q
    BY DEF Inv, OneRead
  <2>2. /\ step = "write" => running = "decoded"
        /\ step = "startRead" => running \in {"notDecoded", "main"}
    BY DEF Inv, Steps
  <2>3. CASE Handling
    BY <2>1, <2>2, <2>3 DEF ReadBuffers, Reading, Count
  <2>4. CASE ~Handling /\ Queued \intersect Reading = {}
    BY <2>2, <2>4 DEF ReadBuffers, Handling, Reading, Count
  <2>5. CASE ~Handling /\ Queued \intersect Reading # {}
    <3>1. PICK p \in Reading : Queued \intersect Reading = {p}
      BY <2>1, <2>5
    <3> QED BY <2>1, <2>2 DEF ReadBuffers, Handling, Reading, Count
  <2> QED BY <2>3, <2>4, <2>5
<1>2. /\ WriteBuffers \in Nat /\ WriteBuffers <= 3
      /\ step # "finish" => WriteBuffers <= 2
      /\ ~writeOp["monitor"] => WriteBuffers <= 2
      /\ step # "finish" /\ ~writeOp["monitor"] => WriteBuffers <= 1
  <2>1. step # "finish" => running # "writtenOp"
    BY DEF Inv, Steps
  <2> QED BY <2>1 DEF WriteBuffers, Count
<1>3. ~late /\ ("readDoneOp" \in Queued \/ running = "readDoneOp") => ~writeOp["monitor"]
  BY DEF Inv, Timely, LineSent
<1>4. /\ Peak[2] \in Nat
      /\ step \notin {"serviceRx", "refill", "readCompleted", "write", "startRead"} => Peak[2] = 0
      /\ RxBuffers("sbus") + RxBuffers("monitor") + Peak[2] <= 2 * RX_CAPACITY + 1
  <2>1. /\ RxBuffers("sbus") \in Nat /\ RxBuffers("monitor") \in Nat /\ RX_CAPACITY \in Nat
        /\ RxBuffers("sbus") <= RX_CAPACITY /\ RxBuffers("monitor") <= RX_CAPACITY
    BY Numbers DEF RxBuffers, Uart
  <2>2. CASE step \in {"serviceRx", "refill"}
    <3> DEFINE v == CHOOSE u \in Uart : Polling(u)
    <3>1. v \in Uart
      BY DEF Uart
    <3>2. Peak[2] \in Nat /\ Peak[2] <= ServicePeak(v)
      BY <2>2, PeakOf DEF BuffersPeak
    <3> HIDE DEF v
    <3>3. ServicePeak(v) \in Nat /\ (ServicePeak(v) = 0 \/ RxBuffers(v) + ServicePeak(v) = RX_CAPACITY + 1)
      BY <2>1, <3>1 DEF ServicePeak, Uart
    <3>4. v = "sbus" \/ v = "monitor"
      BY <3>1 DEF Uart
    <3> QED BY <2>1, <2>2, <3>2, <3>3, <3>4
  <2>3. CASE step \notin {"serviceRx", "refill"}
    BY <2>1, <2>3, PeakOf DEF BuffersPeak
  <2> QED BY <2>2, <2>3
<1>5. POOL_NUM_BUFFERS \in Nat /\ POOL_NUM_BUFFERS >= 2 * RX_CAPACITY + 4 /\ RX_CAPACITY \in Nat
  BY PoolsAssumption
<1>6. Count(late) = (IF late THEN 1 ELSE 0) /\ late \in BOOLEAN
  BY DEF Inv, Types, Count
<1>7. /\ RxBuffers("sbus") \in Nat /\ RxBuffers("monitor") \in Nat
      /\ RxBuffers("sbus") <= RX_CAPACITY /\ RxBuffers("monitor") <= RX_CAPACITY
  BY Numbers DEF RxBuffers, Uart
<1> QED BY <1>1, <1>2, <1>3, <1>4, <1>5, <1>6, <1>7, BuffersOf

\* The pool of text buffers.
LEMMA Texts == Inv => TxtSuffice
<1>1. /\ TX_CAPACITY \in Nat /\ NUM_TXT_BUFFERS \in Nat /\ NUM_TXT_BUFFERS >= TX_CAPACITY + 2
  BY PoolsAssumption
<1>2. ASSUME Inv
      PROVE  /\ tx["monitor"].sent \in Nat /\ tx["monitor"].waiting \in Nat
             /\ tx["monitor"].sent + tx["monitor"].waiting <= TX_CAPACITY
             /\ Peak[3] \in Nat /\ Peak[3] <= 1
  BY <1>2, Numbers, PeakOf DEF Uart
<1>3. \A x : Count(x) \in {0, 1}
  BY DEF Count
<1> QED BY <1>1, <1>2, <1>3 DEF TxtSuffice, TxtBuffersUsed

\* No pool is ever exhausted.
THEOREM PoolsNeverExhausted == Spec => []PoolsSuffice
<1>1. Inv => PoolsSuffice
  BY Typed, Functions, Buffers, Texts DEF PoolsSuffice
<1> QED BY <1>1, Invariance, PTL

-----------------------------------------------------------------------------
\* The powers that the shifts and the reference ask for.
LEMMA Powers ==
  /\ power(0) = 1 /\ power(1) = 2 /\ power(2) = 4 /\ power(3) = 8 /\ power(4) = 16
  /\ power(5) = 32 /\ power(6) = 64 /\ power(7) = 128 /\ power(8) = 256
  /\ power(9) = 512 /\ power(10) = 1024
  BY DEF power

\* A bit as a remainder.
LEMMA BitsAre ==
  ASSUME NEW v \in Nat
  PROVE  /\ BitOf(v, 0) = v % 2 /\ BitOf(v, 1) = (v \div 2) % 2 /\ BitOf(v, 2) = (v \div 4) % 2
         /\ BitOf(v, 3) = (v \div 8) % 2 /\ BitOf(v, 4) = (v \div 16) % 2
         /\ BitOf(v, 5) = (v \div 32) % 2 /\ BitOf(v, 6) = (v \div 64) % 2
         /\ BitOf(v, 7) = (v \div 128) % 2 /\ BitOf(v, 8) = (v \div 256) % 2
         /\ BitOf(v, 9) = (v \div 512) % 2 /\ BitOf(v, 10) = (v \div 1024) % 2
  BY Powers DEF BitOf

\* A byte is the sum of its bits.
LEMMA Bits8 ==
  ASSUME NEW a \in 0 .. 255
  PROVE  /\ \A i \in 0 .. 7 : BitOf(a, i) \in 0 .. 1
         /\ a = BitOf(a, 0) + 2 * BitOf(a, 1) + 4 * BitOf(a, 2) + 8 * BitOf(a, 3)
                + 16 * BitOf(a, 4) + 32 * BitOf(a, 5) + 64 * BitOf(a, 6) + 128 * BitOf(a, 7)
<1>1. a \in 0 .. 255 /\ a \in Nat
  OBVIOUS
<1>2. /\ BitOf(a, 0) = a % 2 /\ BitOf(a, 1) = (a \div 2) % 2 /\ BitOf(a, 2) = (a \div 4) % 2
      /\ BitOf(a, 3) = (a \div 8) % 2 /\ BitOf(a, 4) = (a \div 16) % 2
      /\ BitOf(a, 5) = (a \div 32) % 2 /\ BitOf(a, 6) = (a \div 64) % 2
      /\ BitOf(a, 7) = (a \div 128) % 2
  BY <1>1, Powers DEF BitOf
<1>3. /\ BitOf(a, 0) \in 0 .. 1 /\ BitOf(a, 1) \in 0 .. 1 /\ BitOf(a, 2) \in 0 .. 1
      /\ BitOf(a, 3) \in 0 .. 1 /\ BitOf(a, 4) \in 0 .. 1 /\ BitOf(a, 5) \in 0 .. 1
      /\ BitOf(a, 6) \in 0 .. 1 /\ BitOf(a, 7) \in 0 .. 1
  BY <1>1, <1>2
<1>4. \A i \in 0 .. 7 : BitOf(a, i) \in 0 .. 1
  BY <1>3
<1>5. a = (a % 2) + 2 * ((a \div 2) % 2) + 4 * ((a \div 4) % 2) + 8 * ((a \div 8) % 2)
          + 16 * ((a \div 16) % 2) + 32 * ((a \div 32) % 2) + 64 * ((a \div 64) % 2)
          + 128 * ((a \div 128) % 2)
  BY <1>1
<1> QED BY <1>2, <1>4, <1>5

\* Eight bits as a number.
Octal(p) == p[0] + 2 * p[1] + 4 * p[2] + 8 * p[3] + 16 * p[4] + 32 * p[5] + 64 * p[6] + 128 * p[7]

\* Eight bits make a byte.
LEMMA OctalIsOctet ==
  ASSUME NEW p \in [0 .. 7 -> 0 .. 1]
  PROVE  Octal(p) \in Nat /\ Octal(p) \in 0 .. 255
<1>1. /\ p[0] \in 0 .. 1 /\ p[1] \in 0 .. 1 /\ p[2] \in 0 .. 1 /\ p[3] \in 0 .. 1
      /\ p[4] \in 0 .. 1 /\ p[5] \in 0 .. 1 /\ p[6] \in 0 .. 1 /\ p[7] \in 0 .. 1
  OBVIOUS
<1> QED BY <1>1 DEF Octal

\* Eleven bits as a number.
Number(c) == c[0] + 2 * c[1] + 4 * c[2] + 8 * c[3] + 16 * c[4] + 32 * c[5] + 64 * c[6]
             + 128 * c[7] + 256 * c[8] + 512 * c[9] + 1024 * c[10]

\* Eleven bits make a channel, and they are its bits.
LEMMA Bits11 ==
  ASSUME NEW c \in [0 .. 10 -> 0 .. 1]
  PROVE  Number(c) \in 0 .. channelMax /\ \A i \in 0 .. 10 : BitOf(Number(c), i) = c[i]
<1> DEFINE v == Number(c)
<1>1. /\ c[0] \in 0 .. 1 /\ c[1] \in 0 .. 1 /\ c[2] \in 0 .. 1 /\ c[3] \in 0 .. 1
      /\ c[4] \in 0 .. 1 /\ c[5] \in 0 .. 1 /\ c[6] \in 0 .. 1 /\ c[7] \in 0 .. 1
      /\ c[8] \in 0 .. 1 /\ c[9] \in 0 .. 1 /\ c[10] \in 0 .. 1
  OBVIOUS
<1>2. v \in Int /\ 0 <= v /\ v <= 2047
  BY <1>1, SMTT(60) DEF Number
<1>3. v % 2 = c[0] /\ (v \div 2) % 2 = c[1] /\ (v \div 4) % 2 = c[2] /\ (v \div 8) % 2 = c[3]
  BY <1>1 DEF Number
<1>4. (v \div 16) % 2 = c[4] /\ (v \div 32) % 2 = c[5] /\ (v \div 64) % 2 = c[6]
  BY <1>1 DEF Number
<1>5. (v \div 128) % 2 = c[7] /\ (v \div 256) % 2 = c[8] /\ (v \div 512) % 2 = c[9]
      /\ (v \div 1024) % 2 = c[10]
  BY <1>1 DEF Number
<1> HIDE DEF v
<1>6. v \in Nat
  BY <1>2
<1>7. /\ BitOf(v, 0) = v % 2 /\ BitOf(v, 1) = (v \div 2) % 2 /\ BitOf(v, 2) = (v \div 4) % 2
      /\ BitOf(v, 3) = (v \div 8) % 2 /\ BitOf(v, 4) = (v \div 16) % 2
      /\ BitOf(v, 5) = (v \div 32) % 2 /\ BitOf(v, 6) = (v \div 64) % 2
      /\ BitOf(v, 7) = (v \div 128) % 2 /\ BitOf(v, 8) = (v \div 256) % 2
      /\ BitOf(v, 9) = (v \div 512) % 2 /\ BitOf(v, 10) = (v \div 1024) % 2
  BY <1>6, Powers DEF BitOf
<1>8. \A i \in 0 .. 10 : BitOf(v, i) = c[i]
  BY <1>3, <1>4, <1>5, <1>7
<1>9. v \in 0 .. channelMax
  BY <1>2 DEF channelMax
<1> QED BY <1>8, <1>9 DEF v

\* What two bytes give to a channel that starts at bit r of the first.
LEMMA TwoBytes ==
  ASSUME NEW p \in [0 .. 7 -> 0 .. 1], NEW q \in [0 .. 7 -> 0 .. 1], NEW r \in 0 .. 5
  PROVE  decode2(Octal(p), Octal(q), r)
           = Number([i \in 0 .. 10 |-> IF r + i < 8 THEN p[r + i] ELSE q[r + i - 8]])
<1> DEFINE c == [i \in 0 .. 10 |-> IF r + i < 8 THEN p[r + i] ELSE q[r + i - 8]]
<1>1. /\ p[0] \in 0 .. 1 /\ p[1] \in 0 .. 1 /\ p[2] \in 0 .. 1 /\ p[3] \in 0 .. 1
      /\ p[4] \in 0 .. 1 /\ p[5] \in 0 .. 1 /\ p[6] \in 0 .. 1 /\ p[7] \in 0 .. 1
      /\ q[0] \in 0 .. 1 /\ q[1] \in 0 .. 1 /\ q[2] \in 0 .. 1 /\ q[3] \in 0 .. 1
      /\ q[4] \in 0 .. 1 /\ q[5] \in 0 .. 1 /\ q[6] \in 0 .. 1 /\ q[7] \in 0 .. 1
  OBVIOUS
<1>2. Octal(p) \in Nat /\ Octal(q) \in Nat
  BY OctalIsOctet
<1>3. CASE r = 0
  <2>1. (Octal(p) + 256 * Octal(q)) % 2048
         = p[0] + 2 * p[1] + 4 * p[2] + 8 * p[3] + 16 * p[4] + 32 * p[5]
           + 64 * p[6] + 128 * p[7] + 256 * q[0] + 512 * q[1] + 1024 * q[2]
    BY <1>1, SMTT(60) DEF Octal
  <2>2. decode2(Octal(p), Octal(q), r) = (Octal(p) + 256 * Octal(q)) % 2048
    BY <1>1, <1>2, <1>3, Powers DEF decode2, channelMax
  <2>3. Number(c) = p[0] + 2 * p[1] + 4 * p[2] + 8 * p[3] + 16 * p[4] + 32 * p[5]
           + 64 * p[6] + 128 * p[7] + 256 * q[0] + 512 * q[1] + 1024 * q[2]
    BY <1>3 DEF Number
  <2> QED BY <2>1, <2>2, <2>3
<1>4. CASE r = 1
  <2>1. (Octal(p) \div 2 + 128 * Octal(q)) % 2048
         = p[1] + 2 * p[2] + 4 * p[3] + 8 * p[4] + 16 * p[5] + 32 * p[6]
           + 64 * p[7] + 128 * q[0] + 256 * q[1] + 512 * q[2] + 1024 * q[3]
    BY <1>1, SMTT(60) DEF Octal
  <2>2. decode2(Octal(p), Octal(q), r) = (Octal(p) \div 2 + 128 * Octal(q)) % 2048
    BY <1>1, <1>2, <1>4, Powers DEF decode2, channelMax
  <2>3. Number(c) = p[1] + 2 * p[2] + 4 * p[3] + 8 * p[4] + 16 * p[5] + 32 * p[6]
           + 64 * p[7] + 128 * q[0] + 256 * q[1] + 512 * q[2] + 1024 * q[3]
    BY <1>4 DEF Number
  <2> QED BY <2>1, <2>2, <2>3
<1>5. CASE r = 2
  <2>1. (Octal(p) \div 4 + 64 * Octal(q)) % 2048
         = p[2] + 2 * p[3] + 4 * p[4] + 8 * p[5] + 16 * p[6] + 32 * p[7]
           + 64 * q[0] + 128 * q[1] + 256 * q[2] + 512 * q[3] + 1024 * q[4]
    BY <1>1, SMTT(60) DEF Octal
  <2>2. decode2(Octal(p), Octal(q), r) = (Octal(p) \div 4 + 64 * Octal(q)) % 2048
    BY <1>1, <1>2, <1>5, Powers DEF decode2, channelMax
  <2>3. Number(c) = p[2] + 2 * p[3] + 4 * p[4] + 8 * p[5] + 16 * p[6] + 32 * p[7]
           + 64 * q[0] + 128 * q[1] + 256 * q[2] + 512 * q[3] + 1024 * q[4]
    BY <1>5 DEF Number
  <2> QED BY <2>1, <2>2, <2>3
<1>6. CASE r = 3
  <2>1. (Octal(p) \div 8 + 32 * Octal(q)) % 2048
         = p[3] + 2 * p[4] + 4 * p[5] + 8 * p[6] + 16 * p[7] + 32 * q[0]
           + 64 * q[1] + 128 * q[2] + 256 * q[3] + 512 * q[4] + 1024 * q[5]
    BY <1>1, SMTT(60) DEF Octal
  <2>2. decode2(Octal(p), Octal(q), r) = (Octal(p) \div 8 + 32 * Octal(q)) % 2048
    BY <1>1, <1>2, <1>6, Powers DEF decode2, channelMax
  <2>3. Number(c) = p[3] + 2 * p[4] + 4 * p[5] + 8 * p[6] + 16 * p[7] + 32 * q[0]
           + 64 * q[1] + 128 * q[2] + 256 * q[3] + 512 * q[4] + 1024 * q[5]
    BY <1>6 DEF Number
  <2> QED BY <2>1, <2>2, <2>3
<1>7. CASE r = 4
  <2>1. (Octal(p) \div 16 + 16 * Octal(q)) % 2048
         = p[4] + 2 * p[5] + 4 * p[6] + 8 * p[7] + 16 * q[0] + 32 * q[1]
           + 64 * q[2] + 128 * q[3] + 256 * q[4] + 512 * q[5] + 1024 * q[6]
    BY <1>1, SMTT(60) DEF Octal
  <2>2. decode2(Octal(p), Octal(q), r) = (Octal(p) \div 16 + 16 * Octal(q)) % 2048
    BY <1>1, <1>2, <1>7, Powers DEF decode2, channelMax
  <2>3. Number(c) = p[4] + 2 * p[5] + 4 * p[6] + 8 * p[7] + 16 * q[0] + 32 * q[1]
           + 64 * q[2] + 128 * q[3] + 256 * q[4] + 512 * q[5] + 1024 * q[6]
    BY <1>7 DEF Number
  <2> QED BY <2>1, <2>2, <2>3
<1>8. CASE r = 5
  <2>1. (Octal(p) \div 32 + 8 * Octal(q)) % 2048
         = p[5] + 2 * p[6] + 4 * p[7] + 8 * q[0] + 16 * q[1] + 32 * q[2]
           + 64 * q[3] + 128 * q[4] + 256 * q[5] + 512 * q[6] + 1024 * q[7]
    BY <1>1, SMTT(60) DEF Octal
  <2>2. decode2(Octal(p), Octal(q), r) = (Octal(p) \div 32 + 8 * Octal(q)) % 2048
    BY <1>1, <1>2, <1>8, Powers DEF decode2, channelMax
  <2>3. Number(c) = p[5] + 2 * p[6] + 4 * p[7] + 8 * q[0] + 16 * q[1] + 32 * q[2]
           + 64 * q[3] + 128 * q[4] + 256 * q[5] + 512 * q[6] + 1024 * q[7]
    BY <1>8 DEF Number
  <2> QED BY <2>1, <2>2, <2>3
<1> QED BY <1>3, <1>4, <1>5, <1>6, <1>7, <1>8

\* What three bytes give to a channel that starts at bit r of the first.
LEMMA ThreeBytes ==
  ASSUME NEW p \in [0 .. 7 -> 0 .. 1], NEW q \in [0 .. 7 -> 0 .. 1],
         NEW s \in [0 .. 7 -> 0 .. 1], NEW r \in 6 .. 7
  PROVE  decode3(Octal(p), Octal(q), Octal(s), r)
           = Number([i \in 0 .. 10 |-> IF r + i < 8 THEN p[r + i]
                                       ELSE IF r + i < 16 THEN q[r + i - 8] ELSE s[r + i - 16]])
<1> DEFINE c == [i \in 0 .. 10 |-> IF r + i < 8 THEN p[r + i]
                                   ELSE IF r + i < 16 THEN q[r + i - 8] ELSE s[r + i - 16]]
<1>1. /\ p[0] \in 0 .. 1 /\ p[1] \in 0 .. 1 /\ p[2] \in 0 .. 1 /\ p[3] \in 0 .. 1
      /\ p[4] \in 0 .. 1 /\ p[5] \in 0 .. 1 /\ p[6] \in 0 .. 1 /\ p[7] \in 0 .. 1
      /\ q[0] \in 0 .. 1 /\ q[1] \in 0 .. 1 /\ q[2] \in 0 .. 1 /\ q[3] \in 0 .. 1
      /\ q[4] \in 0 .. 1 /\ q[5] \in 0 .. 1 /\ q[6] \in 0 .. 1 /\ q[7] \in 0 .. 1
      /\ s[0] \in 0 .. 1 /\ s[1] \in 0 .. 1 /\ s[2] \in 0 .. 1 /\ s[3] \in 0 .. 1
      /\ s[4] \in 0 .. 1 /\ s[5] \in 0 .. 1 /\ s[6] \in 0 .. 1 /\ s[7] \in 0 .. 1
  OBVIOUS
<1>2. Octal(p) \in Nat /\ Octal(q) \in Nat /\ Octal(s) \in Nat
  BY OctalIsOctet
<1>3. CASE r = 6
  <2> DEFINE low == p[0] + 2 * p[1] + 4 * p[2] + 8 * p[3] + 16 * p[4] + 32 * p[5]
             top == p[6] + 2 * p[7]
             head == s[0]
             rest == s[1] + 2 * s[2] + 4 * s[3] + 8 * s[4] + 16 * s[5] + 32 * s[6] + 64 * s[7]
  <2>1. /\ low \in 0 .. 63 /\ top \in 0 .. 3
        /\ head \in 0 .. 1 /\ rest \in 0 .. 127
    BY <1>1
  <2>2. Octal(p) = low + 64 * top /\ Octal(s) = head + 2 * rest
    BY <1>1 DEF Octal
  <2>3. top + 4 * Octal(q) + 1024 * head
         = p[6] + 2 * p[7] + 4 * q[0] + 8 * q[1] + 16 * q[2] + 32 * q[3]
           + 64 * q[4] + 128 * q[5] + 256 * q[6] + 512 * q[7] + 1024 * s[0]
    BY <1>1 DEF Octal
  <2> HIDE DEF low, top, head, rest
  <2>4. Octal(q) \in 0 .. 255
    BY OctalIsOctet
  <2>5. Octal(p) \div 64 = top
    BY <2>1, <2>2
  <2> DEFINE sum == top + 4 * Octal(q) + 1024 * head
  <2>6. sum \in 0 .. 2047 /\ top + 4 * Octal(q) + 1024 * Octal(s) = sum + 2048 * rest
    BY <2>1, <2>2, <2>4, SMTT(60)
  <2>7. top + 4 * Octal(q) + 1024 * head = sum
    OBVIOUS
  <2> HIDE DEF sum
  <2>8. (sum + 2048 * rest) % 2048 = sum
    BY <2>1, <2>6
  <2>9. (Octal(p) \div 64 + 4 * Octal(q) + 1024 * Octal(s)) % 2048
         = p[6] + 2 * p[7] + 4 * q[0] + 8 * q[1] + 16 * q[2] + 32 * q[3]
           + 64 * q[4] + 128 * q[5] + 256 * q[6] + 512 * q[7] + 1024 * s[0]
    BY <2>3, <2>5, <2>6, <2>7, <2>8
  <2>10. decode3(Octal(p), Octal(q), Octal(s), r) = (Octal(p) \div 64 + 4 * Octal(q) + 1024 * Octal(s)) % 2048
    BY <1>1, <1>2, <1>3, Powers DEF decode3, channelMax
  <2>11. Number(c) = p[6] + 2 * p[7] + 4 * q[0] + 8 * q[1] + 16 * q[2] + 32 * q[3]
           + 64 * q[4] + 128 * q[5] + 256 * q[6] + 512 * q[7] + 1024 * s[0]
    BY <1>3 DEF Number
  <2> QED BY <2>9, <2>10, <2>11
<1>4. CASE r = 7
  <2> DEFINE low == p[0] + 2 * p[1] + 4 * p[2] + 8 * p[3] + 16 * p[4] + 32 * p[5] + 64 * p[6]
             top == p[7]
             head == s[0] + 2 * s[1]
             rest == s[2] + 2 * s[3] + 4 * s[4] + 8 * s[5] + 16 * s[6] + 32 * s[7]
  <2>1. /\ low \in 0 .. 127 /\ top \in 0 .. 1
        /\ head \in 0 .. 3 /\ rest \in 0 .. 63
    BY <1>1
  <2>2. Octal(p) = low + 128 * top /\ Octal(s) = head + 4 * rest
    BY <1>1 DEF Octal
  <2>3. top + 2 * Octal(q) + 512 * head
         = p[7] + 2 * q[0] + 4 * q[1] + 8 * q[2] + 16 * q[3] + 32 * q[4]
           + 64 * q[5] + 128 * q[6] + 256 * q[7] + 512 * s[0] + 1024 * s[1]
    BY <1>1 DEF Octal
  <2> HIDE DEF low, top, head, rest
  <2>4. Octal(q) \in 0 .. 255
    BY OctalIsOctet
  <2>5. Octal(p) \div 128 = top
    BY <2>1, <2>2
  <2> DEFINE sum == top + 2 * Octal(q) + 512 * head
  <2>6. sum \in 0 .. 2047 /\ top + 2 * Octal(q) + 512 * Octal(s) = sum + 2048 * rest
    BY <2>1, <2>2, <2>4, SMTT(60)
  <2>7. top + 2 * Octal(q) + 512 * head = sum
    OBVIOUS
  <2> HIDE DEF sum
  <2>8. (sum + 2048 * rest) % 2048 = sum
    BY <2>1, <2>6
  <2>9. (Octal(p) \div 128 + 2 * Octal(q) + 512 * Octal(s)) % 2048
         = p[7] + 2 * q[0] + 4 * q[1] + 8 * q[2] + 16 * q[3] + 32 * q[4]
           + 64 * q[5] + 128 * q[6] + 256 * q[7] + 512 * s[0] + 1024 * s[1]
    BY <2>3, <2>5, <2>6, <2>7, <2>8
  <2>10. decode3(Octal(p), Octal(q), Octal(s), r) = (Octal(p) \div 128 + 2 * Octal(q) + 512 * Octal(s)) % 2048
    BY <1>1, <1>2, <1>4, Powers DEF decode3, channelMax
  <2>11. Number(c) = p[7] + 2 * q[0] + 4 * q[1] + 8 * q[2] + 16 * q[3] + 32 * q[4]
           + 64 * q[5] + 128 * q[6] + 256 * q[7] + 512 * s[0] + 1024 * s[1]
    BY <1>4 DEF Number
  <2> QED BY <2>9, <2>10, <2>11
<1> QED BY <1>3, <1>4

\* A channel of two bytes is the number that its bits make, and these are theirs.
LEMMA TwoAsNumber ==
  ASSUME NEW a \in 0 .. 255, NEW b \in 0 .. 255, NEW r \in 0 .. 5
  PROVE  \E c \in [0 .. 10 -> 0 .. 1] :
            /\ decode2(a, b, r) = Number(c)
            /\ \A i \in 0 .. 10 : c[i] = IF r + i < 8 THEN BitOf(a, r + i)
                                       ELSE BitOf(b, r + i - 8)
<1> DEFINE p == [j \in 0 .. 7 |-> BitOf(a, j)]
           q == [j \in 0 .. 7 |-> BitOf(b, j)]
           c == [i \in 0 .. 10 |-> IF r + i < 8 THEN p[r + i]
                                   ELSE q[r + i - 8]]
<1>1. p \in [0 .. 7 -> 0 .. 1] /\ q \in [0 .. 7 -> 0 .. 1]
  BY Bits8
<1>2. a = Octal(p) /\ b = Octal(q)
  BY Bits8 DEF Octal
<1>3. c \in [0 .. 10 -> 0 .. 1]
  <2> SUFFICES ASSUME NEW i \in 0 .. 10
               PROVE  (IF r + i < 8 THEN p[r + i]
                       ELSE q[r + i - 8]) \in 0 .. 1
    OBVIOUS
  <2> QED BY <1>1
<1>4. \A i \in 0 .. 10 : c[i] = IF r + i < 8 THEN BitOf(a, r + i)
                               ELSE BitOf(b, r + i - 8)
  OBVIOUS
<1> HIDE DEF p, q
<1>5. decode2(a, b, r) = Number(c)
  BY <1>1, <1>2, TwoBytes
<1> HIDE DEF c
<1> QED BY <1>3, <1>4, <1>5

\* It has eleven bits.
LEMMA RangeOfTwo ==
  ASSUME NEW a \in 0 .. 255, NEW b \in 0 .. 255, NEW r \in 0 .. 5
  PROVE  decode2(a, b, r) \in 0 .. channelMax
<1>1. PICK c \in [0 .. 10 -> 0 .. 1] : decode2(a, b, r) = Number(c)
  BY TwoAsNumber
<1>2. Number(c) \in 0 .. channelMax
  BY Bits11
<1> QED BY <1>1, <1>2

\* Each of them is one of theirs.
LEMMA BitsOfTwo ==
  ASSUME NEW a \in 0 .. 255, NEW b \in 0 .. 255, NEW r \in 0 .. 5, NEW i \in 0 .. 10
  PROVE  BitOf(decode2(a, b, r), i) = IF r + i < 8 THEN BitOf(a, r + i)
                                     ELSE BitOf(b, r + i - 8)
<1>1. PICK c \in [0 .. 10 -> 0 .. 1] :
         /\ decode2(a, b, r) = Number(c)
         /\ \A n \in 0 .. 10 : c[n] = IF r + n < 8 THEN BitOf(a, r + n)
                                    ELSE BitOf(b, r + n - 8)
  BY TwoAsNumber
<1>2. BitOf(Number(c), i) = c[i]
  BY Bits11
<1> QED BY <1>1, <1>2

\* Bit j of three bytes.
BitOfThree(a, b, e, j) == IF j < 8 THEN BitOf(a, j)
                          ELSE IF j < 16 THEN BitOf(b, j - 8) ELSE BitOf(e, j - 16)

\* A channel of three bytes is the number that its bits make, and these are theirs.
LEMMA ThreeAsNumber ==
  ASSUME NEW a \in 0 .. 255, NEW b \in 0 .. 255, NEW e \in 0 .. 255, NEW r \in 6 .. 7
  PROVE  \E c \in [0 .. 10 -> 0 .. 1] :
            /\ decode3(a, b, e, r) = Number(c)
            /\ \A i \in 0 .. 10 : c[i] = BitOfThree(a, b, e, r + i)
<1> DEFINE p == [j \in 0 .. 7 |-> BitOf(a, j)]
           q == [j \in 0 .. 7 |-> BitOf(b, j)]
           s == [j \in 0 .. 7 |-> BitOf(e, j)]
           c == [i \in 0 .. 10 |-> IF r + i < 8 THEN p[r + i]
                                   ELSE IF r + i < 16 THEN q[r + i - 8] ELSE s[r + i - 16]]
<1>1. p \in [0 .. 7 -> 0 .. 1] /\ q \in [0 .. 7 -> 0 .. 1] /\ s \in [0 .. 7 -> 0 .. 1]
  BY Bits8
<1>2. a = Octal(p) /\ b = Octal(q) /\ e = Octal(s)
  BY Bits8 DEF Octal
<1>3. c \in [0 .. 10 -> 0 .. 1]
  <2> SUFFICES ASSUME NEW i \in 0 .. 10
               PROVE  (IF r + i < 8 THEN p[r + i]
                       ELSE IF r + i < 16 THEN q[r + i - 8] ELSE s[r + i - 16]) \in 0 .. 1
    OBVIOUS
  <2> QED BY <1>1
<1>4. \A i \in 0 .. 10 : c[i] = BitOfThree(a, b, e, r + i)
  BY DEF BitOfThree
<1> HIDE DEF p, q, s
<1>5. decode3(a, b, e, r) = Number(c)
  BY <1>1, <1>2, ThreeBytes
<1> HIDE DEF c
<1> QED BY <1>3, <1>4, <1>5

\* It has eleven bits.
LEMMA RangeOfThree ==
  ASSUME NEW a \in 0 .. 255, NEW b \in 0 .. 255, NEW e \in 0 .. 255, NEW r \in 6 .. 7
  PROVE  decode3(a, b, e, r) \in 0 .. channelMax
<1>1. PICK c \in [0 .. 10 -> 0 .. 1] :
         /\ decode3(a, b, e, r) = Number(c)
         /\ \A i \in 0 .. 10 : c[i] = BitOfThree(a, b, e, r + i)
  BY ThreeAsNumber
<1>2. Number(c) \in 0 .. channelMax
  BY Bits11
<1> QED BY <1>1, <1>2

\* Each of them is one of theirs.
LEMMA BitsOfThree ==
  ASSUME NEW a \in 0 .. 255, NEW b \in 0 .. 255, NEW e \in 0 .. 255, NEW r \in 6 .. 7, NEW i \in 0 .. 10
  PROVE  BitOf(decode3(a, b, e, r), i) = BitOfThree(a, b, e, r + i)
<1>1. PICK c \in [0 .. 10 -> 0 .. 1] :
         /\ decode3(a, b, e, r) = Number(c)
         /\ \A n \in 0 .. 10 : c[n] = BitOfThree(a, b, e, r + n)
  BY ThreeAsNumber
<1>2. BitOf(Number(c), i) = c[i]
  BY Bits11
<1> QED BY <1>1, <1>2

\* Bit i of a channel is bit j of the stream, in the bytes from f.
AsTwo(v, i, a, b, f, j) == /\ j \div 8 \in f .. f + 1
                           /\ BitOf(v, i) = BitOf(IF j \div 8 = f THEN a ELSE b, j % 8)
AsThree(v, i, a, b, e, f, j) ==
    /\ j \div 8 \in f .. f + 2
    /\ BitOf(v, i) = BitOf(IF j \div 8 = f THEN a ELSE IF j \div 8 = f + 1 THEN b ELSE e, j % 8)

\* A channel of two bytes that starts at bit r of byte f has the bits of the
\* stream from there.
LEMMA StreamOfTwo ==
  ASSUME NEW a \in 0 .. 255, NEW b \in 0 .. 255,
         NEW f \in 0 .. 20, NEW r \in 0 .. 5, NEW i \in 0 .. 10, NEW j, j = 8 * f + (r + i)
  PROVE  AsTwo(decode2(a, b, r), i, a, b, f, j)
<1>1. BitOf(decode2(a, b, r), i) = IF r + i < 8 THEN BitOf(a, r + i) ELSE BitOf(b, r + i - 8)
  BY BitsOfTwo
<1>2. CASE r + i < 8
  <2>1. j \div 8 = f + 0 /\ j % 8 = r + i - 0
    BY <1>2
  <2> QED BY <1>1, <1>2, <2>1 DEF AsTwo
<1>3. CASE 8 <= r + i
  <2>1. j \div 8 = f + 1 /\ j % 8 = r + i - 8
    BY <1>3
  <2> QED BY <1>1, <1>3, <2>1 DEF AsTwo
<1> QED BY <1>2, <1>3

\* A channel of three bytes that starts at bit r of byte f has the bits of the
\* stream from there.
LEMMA StreamOfThree ==
  ASSUME NEW a \in 0 .. 255, NEW b \in 0 .. 255, NEW e \in 0 .. 255,
         NEW f \in 0 .. 19, NEW r \in 6 .. 7, NEW i \in 0 .. 10, NEW j, j = 8 * f + (r + i)
  PROVE  AsThree(decode3(a, b, e, r), i, a, b, e, f, j)
<1>1. BitOf(decode3(a, b, e, r), i) = BitOfThree(a, b, e, r + i)
  BY BitsOfThree
<1>2. CASE r + i < 8
  <2>1. j \div 8 = f + 0 /\ j % 8 = r + i - 0
    BY <1>2
  <2> QED BY <1>1, <1>2, <2>1 DEF AsThree, BitOfThree
<1>3. CASE 8 <= r + i /\ r + i < 16
  <2>1. j \div 8 = f + 1 /\ j % 8 = r + i - 8
    BY <1>3
  <2> QED BY <1>1, <1>3, <2>1 DEF AsThree, BitOfThree
<1>4. CASE 16 <= r + i
  <2>1. j \div 8 = f + 2 /\ j % 8 = r + i - 16
    BY <1>4
  <2> QED BY <1>1, <1>4, <2>1 DEF AsThree, BitOfThree
<1> QED BY <1>2, <1>3, <1>4

\* v has eleven bits, and bit i is bit j of the stream.
Owns(v, i, data, j) == /\ v \in 0 .. channelMax
                       /\ BitOf(v, i) = BitOf(data[j \div 8 + 1], j % 8)

\* Each of the eight channels has its own eleven bits of the eleven bytes.
LEMMA EightChannels ==
  ASSUME NEW data \in [1 .. 22 -> 0 .. 255], NEW k \in {0, 11}, NEW m \in 1 .. 8, NEW i \in 0 .. 10,
         NEW j, j = 8 * k + 11 * (m - 1) + i
  PROVE  Owns(decode8(data, k)[m], i, data, j)
<1>1. CASE m = 1
  <2>1. PICK f \in 0 .. 20, r \in 0 .. 5 : f = k + 0 /\ r = 0
    OBVIOUS
  <2>2. data[f + 1] \in 0 .. 255 /\ data[f + 2] \in 0 .. 255
    BY <2>1
  <2>3. PICK a \in 0 .. 255, b \in 0 .. 255 : a = data[f + 1] /\ b = data[f + 2]
    BY <2>2, Zenon
  <2>4. decode8(data, k)[m] = decode2(a, b, r)
    BY <1>1, <2>1, <2>3 DEF decode8
  <2>5. j = 8 * f + (r + i)
    BY <1>1, <2>1
  <2>6. f \in 0 .. 20 /\ r \in 0 .. 5 /\ a \in 0 .. 255 /\ b \in 0 .. 255
    BY <2>1, <2>3
  <2>7. decode2(a, b, r) \in 0 .. channelMax
    BY <2>1, <2>3, RangeOfTwo, Zenon
  <2>8. AsTwo(decode2(a, b, r), i, a, b, f, j)
    BY <2>5, <2>6, StreamOfTwo, Zenon
  <2> QED BY <2>1, <2>3, <2>4, <2>7, <2>8 DEF Owns, AsTwo
<1>2. CASE m = 2
  <2>1. PICK f \in 0 .. 20, r \in 0 .. 5 : f = k + 1 /\ r = 3
    OBVIOUS
  <2>2. data[f + 1] \in 0 .. 255 /\ data[f + 2] \in 0 .. 255
    BY <2>1
  <2>3. PICK a \in 0 .. 255, b \in 0 .. 255 : a = data[f + 1] /\ b = data[f + 2]
    BY <2>2, Zenon
  <2>4. decode8(data, k)[m] = decode2(a, b, r)
    BY <1>2, <2>1, <2>3 DEF decode8
  <2>5. j = 8 * f + (r + i)
    BY <1>2, <2>1
  <2>6. f \in 0 .. 20 /\ r \in 0 .. 5 /\ a \in 0 .. 255 /\ b \in 0 .. 255
    BY <2>1, <2>3
  <2>7. decode2(a, b, r) \in 0 .. channelMax
    BY <2>1, <2>3, RangeOfTwo, Zenon
  <2>8. AsTwo(decode2(a, b, r), i, a, b, f, j)
    BY <2>5, <2>6, StreamOfTwo, Zenon
  <2> QED BY <2>1, <2>3, <2>4, <2>7, <2>8 DEF Owns, AsTwo
<1>3. CASE m = 3
  <2>1. PICK f \in 0 .. 19, r \in 6 .. 7 : f = k + 2 /\ r = 6
    OBVIOUS
  <2>2. data[f + 1] \in 0 .. 255 /\ data[f + 2] \in 0 .. 255 /\ data[f + 3] \in 0 .. 255
    BY <2>1
  <2>3. PICK a \in 0 .. 255, b \in 0 .. 255, e \in 0 .. 255 :
           a = data[f + 1] /\ b = data[f + 2] /\ e = data[f + 3]
    BY <2>2, Zenon
  <2>4. decode8(data, k)[m] = decode3(a, b, e, r)
    BY <1>3, <2>1, <2>3 DEF decode8
  <2>5. j = 8 * f + (r + i)
    BY <1>3, <2>1
  <2>6. f \in 0 .. 19 /\ r \in 6 .. 7 /\ a \in 0 .. 255 /\ b \in 0 .. 255 /\ e \in 0 .. 255
    BY <2>1, <2>3
  <2>7. decode3(a, b, e, r) \in 0 .. channelMax
    BY <2>1, <2>3, RangeOfThree, Zenon
  <2>8. AsThree(decode3(a, b, e, r), i, a, b, e, f, j)
    BY <2>5, <2>6, StreamOfThree, Zenon
  <2> QED BY <2>1, <2>3, <2>4, <2>7, <2>8 DEF Owns, AsThree
<1>4. CASE m = 4
  <2>1. PICK f \in 0 .. 20, r \in 0 .. 5 : f = k + 4 /\ r = 1
    OBVIOUS
  <2>2. data[f + 1] \in 0 .. 255 /\ data[f + 2] \in 0 .. 255
    BY <2>1
  <2>3. PICK a \in 0 .. 255, b \in 0 .. 255 : a = data[f + 1] /\ b = data[f + 2]
    BY <2>2, Zenon
  <2>4. decode8(data, k)[m] = decode2(a, b, r)
    BY <1>4, <2>1, <2>3 DEF decode8
  <2>5. j = 8 * f + (r + i)
    BY <1>4, <2>1
  <2>6. f \in 0 .. 20 /\ r \in 0 .. 5 /\ a \in 0 .. 255 /\ b \in 0 .. 255
    BY <2>1, <2>3
  <2>7. decode2(a, b, r) \in 0 .. channelMax
    BY <2>1, <2>3, RangeOfTwo, Zenon
  <2>8. AsTwo(decode2(a, b, r), i, a, b, f, j)
    BY <2>5, <2>6, StreamOfTwo, Zenon
  <2> QED BY <2>1, <2>3, <2>4, <2>7, <2>8 DEF Owns, AsTwo
<1>5. CASE m = 5
  <2>1. PICK f \in 0 .. 20, r \in 0 .. 5 : f = k + 5 /\ r = 4
    OBVIOUS
  <2>2. data[f + 1] \in 0 .. 255 /\ data[f + 2] \in 0 .. 255
    BY <2>1
  <2>3. PICK a \in 0 .. 255, b \in 0 .. 255 : a = data[f + 1] /\ b = data[f + 2]
    BY <2>2, Zenon
  <2>4. decode8(data, k)[m] = decode2(a, b, r)
    BY <1>5, <2>1, <2>3 DEF decode8
  <2>5. j = 8 * f + (r + i)
    BY <1>5, <2>1
  <2>6. f \in 0 .. 20 /\ r \in 0 .. 5 /\ a \in 0 .. 255 /\ b \in 0 .. 255
    BY <2>1, <2>3
  <2>7. decode2(a, b, r) \in 0 .. channelMax
    BY <2>1, <2>3, RangeOfTwo, Zenon
  <2>8. AsTwo(decode2(a, b, r), i, a, b, f, j)
    BY <2>5, <2>6, StreamOfTwo, Zenon
  <2> QED BY <2>1, <2>3, <2>4, <2>7, <2>8 DEF Owns, AsTwo
<1>6. CASE m = 6
  <2>1. PICK f \in 0 .. 19, r \in 6 .. 7 : f = k + 6 /\ r = 7
    OBVIOUS
  <2>2. data[f + 1] \in 0 .. 255 /\ data[f + 2] \in 0 .. 255 /\ data[f + 3] \in 0 .. 255
    BY <2>1
  <2>3. PICK a \in 0 .. 255, b \in 0 .. 255, e \in 0 .. 255 :
           a = data[f + 1] /\ b = data[f + 2] /\ e = data[f + 3]
    BY <2>2, Zenon
  <2>4. decode8(data, k)[m] = decode3(a, b, e, r)
    BY <1>6, <2>1, <2>3 DEF decode8
  <2>5. j = 8 * f + (r + i)
    BY <1>6, <2>1
  <2>6. f \in 0 .. 19 /\ r \in 6 .. 7 /\ a \in 0 .. 255 /\ b \in 0 .. 255 /\ e \in 0 .. 255
    BY <2>1, <2>3
  <2>7. decode3(a, b, e, r) \in 0 .. channelMax
    BY <2>1, <2>3, RangeOfThree, Zenon
  <2>8. AsThree(decode3(a, b, e, r), i, a, b, e, f, j)
    BY <2>5, <2>6, StreamOfThree, Zenon
  <2> QED BY <2>1, <2>3, <2>4, <2>7, <2>8 DEF Owns, AsThree
<1>7. CASE m = 7
  <2>1. PICK f \in 0 .. 20, r \in 0 .. 5 : f = k + 8 /\ r = 2
    OBVIOUS
  <2>2. data[f + 1] \in 0 .. 255 /\ data[f + 2] \in 0 .. 255
    BY <2>1
  <2>3. PICK a \in 0 .. 255, b \in 0 .. 255 : a = data[f + 1] /\ b = data[f + 2]
    BY <2>2, Zenon
  <2>4. decode8(data, k)[m] = decode2(a, b, r)
    BY <1>7, <2>1, <2>3 DEF decode8
  <2>5. j = 8 * f + (r + i)
    BY <1>7, <2>1
  <2>6. f \in 0 .. 20 /\ r \in 0 .. 5 /\ a \in 0 .. 255 /\ b \in 0 .. 255
    BY <2>1, <2>3
  <2>7. decode2(a, b, r) \in 0 .. channelMax
    BY <2>1, <2>3, RangeOfTwo, Zenon
  <2>8. AsTwo(decode2(a, b, r), i, a, b, f, j)
    BY <2>5, <2>6, StreamOfTwo, Zenon
  <2> QED BY <2>1, <2>3, <2>4, <2>7, <2>8 DEF Owns, AsTwo
<1>8. CASE m = 8
  <2>1. PICK f \in 0 .. 20, r \in 0 .. 5 : f = k + 9 /\ r = 5
    OBVIOUS
  <2>2. data[f + 1] \in 0 .. 255 /\ data[f + 2] \in 0 .. 255
    BY <2>1
  <2>3. PICK a \in 0 .. 255, b \in 0 .. 255 : a = data[f + 1] /\ b = data[f + 2]
    BY <2>2, Zenon
  <2>4. decode8(data, k)[m] = decode2(a, b, r)
    BY <1>8, <2>1, <2>3 DEF decode8
  <2>5. j = 8 * f + (r + i)
    BY <1>8, <2>1
  <2>6. f \in 0 .. 20 /\ r \in 0 .. 5 /\ a \in 0 .. 255 /\ b \in 0 .. 255
    BY <2>1, <2>3
  <2>7. decode2(a, b, r) \in 0 .. channelMax
    BY <2>1, <2>3, RangeOfTwo, Zenon
  <2>8. AsTwo(decode2(a, b, r), i, a, b, f, j)
    BY <2>5, <2>6, StreamOfTwo, Zenon
  <2> QED BY <2>1, <2>3, <2>4, <2>7, <2>8 DEF Owns, AsTwo
<1> QED BY <1>1, <1>2, <1>3, <1>4, <1>5, <1>6, <1>7, <1>8

\* The channels of an accepted packet: there are eighteen, each has its own
\* bits of the stream, and none has more than eleven.
LEMMA AcceptedChannels ==
  ASSUME source \in RawPackets, source.size = 25, source.header = 15, source.footer = 0,
         packet = decode(source)
  PROVE  /\ packet.error = "none" /\ "channels" \in DOMAIN packet
         /\ packet.channels \in [1 .. 18 -> 0 .. channelMax]
         /\ OwnBits
<1>1. source.data \in [1 .. 22 -> 0 .. 255]
  BY PacketsAssumption DEF Octet
<1>2. packet.error = "none" /\ "channels" \in DOMAIN packet /\ packet.channels = channels(source)
  BY DEF decode, sizeofPacket, BUFFER_MAX_SIZE
<1>3. \A m \in 1 .. 8, k \in {0, 11} : decode8(source.data, k)[m] \in 0 .. channelMax
  <2> SUFFICES ASSUME NEW m \in 1 .. 8, NEW k \in {0, 11}
               PROVE  decode8(source.data, k)[m] \in 0 .. channelMax
    OBVIOUS
  <2>1. PICK i : i \in 0 .. 10
    OBVIOUS
  <2>2. PICK j : j = 8 * k + 11 * (m - 1) + i
    OBVIOUS
  <2>3. Owns(decode8(source.data, k)[m], i, source.data, j)
    BY <1>1, <2>1, <2>2, EightChannels, ZenonT(120)
  <2> QED BY <2>3 DEF Owns
<1>4. \A b : switch(source, b) \in 0 .. channelMax
  BY DEF switch, channelMax
<1>5. channels(source) \in [1 .. 18 -> 0 .. channelMax]
  <2> SUFFICES ASSUME NEW n \in 1 .. 18
               PROVE  (CASE n <= 8 -> decode8(source.data, 0)[n]
                         [] n \in 9 .. 16 -> decode8(source.data, 11)[n - 8]
                         [] n > 16 -> switch(source, n - 16)) \in 0 .. channelMax
    BY DEF channels
  <2>1. CASE n <= 8
    BY <1>3, <2>1
  <2>2. CASE n \in 9 .. 16
    <3>1. n - 8 \in 1 .. 8
      BY <2>2
    <3> QED BY <1>3, <2>2, <3>1
  <2>3. CASE n > 16
    BY <1>4, <2>3
  <2> QED BY <2>1, <2>2, <2>3
<1>6. \A m \in 1 .. 8 : /\ channels(source)[m] = decode8(source.data, 0)[m]
                        /\ channels(source)[m + 8] = decode8(source.data, 11)[m]
  BY DEF channels
<1>7. /\ packet.channels \in [1 .. 18 -> 0 .. channelMax]
      /\ \A m \in 1 .. 8 : /\ packet.channels[m] = decode8(source.data, 0)[m]
                           /\ packet.channels[m + 8] = decode8(source.data, 11)[m]
  BY <1>2, <1>5, <1>6
<1>8. OwnBits
  <2> SUFFICES ASSUME NEW n \in 1 .. 16, NEW i \in 0 .. 10
               PROVE  BitOf(packet.channels[n], i) = Bit(11 * (n - 1) + i)
    BY DEF OwnBits
  <2>1. PICK m \in 1 .. 8, k \in {0, 11} : /\ packet.channels[n] = decode8(source.data, k)[m]
                                          /\ 8 * k + 11 * (m - 1) = 11 * (n - 1)
    <3>1. CASE n <= 8
      BY <1>7, <3>1
    <3>2. CASE n > 8
      <4>1. n - 8 \in 1 .. 8 /\ n = (n - 8) + 8
        BY <3>2
      <4> QED BY <1>7, <4>1
    <3> QED BY <3>1, <3>2
  <2>2. PICK j : j = 8 * k + 11 * (m - 1) + i
    OBVIOUS
  <2>3. Owns(decode8(source.data, k)[m], i, source.data, j)
    BY <1>1, <2>1, <2>2, EightChannels, ZenonT(120)
  <2>4. j = 11 * (n - 1) + i
    BY <2>1, <2>2
  <2> QED BY <2>1, <2>3, <2>4 DEF Bit, Owns
<1> QED BY <1>2, <1>7, <1>8

\* The width of a pulse: no value wraps around, and full deflection is full.
LEMMA Widths ==
  ASSUME NEW v \in 0 .. channelMax
  PROVE  LET w == fractionToWidth(norm(v))
         IN  /\ w \in 0 .. period
             /\ v <= sbusMin => w = 0
             /\ v >= sbusMax => w = period
             /\ sbusMin < v /\ v < sbusMax => 0 < w /\ w < period
<1>1. CASE v <= sbusMin
  <2>1. norm(v) = 0
    BY <1>1 DEF norm, sbusMin, sbusMax, channelMax
  <2> QED BY <1>1, <2>1 DEF fractionToWidth, sbusMin, sbusMax, period, channelMax
<1>2. CASE v >= sbusMax
  <2>1. norm(v) = 1344
    BY <1>2 DEF norm, sbusMin, sbusMax, channelMax
  <2> QED BY <1>2, <2>1 DEF fractionToWidth, sbusMin, sbusMax, period, channelMax
<1>3. CASE sbusMin < v /\ v < sbusMax
  <2>1. PICK n \in 1 .. 1343 : norm(v) = n
    BY <1>3, SMTT(30) DEF norm, sbusMin, sbusMax, channelMax
  <2> DEFINE w == fractionToWidth(norm(v))
  <2>2. fractionToWidth(n) \in Int /\ 0 < fractionToWidth(n) /\ fractionToWidth(n) < 65535
    BY DEF fractionToWidth, period, sbusMin, sbusMax
  <2>3. w \in Int /\ period \in Int /\ 0 < w /\ w < period
    BY <2>1, <2>2 DEF period
  <2> HIDE DEF w
  <2>4. w \in 0 .. period
    BY <2>3
  <2>5. ~(v <= sbusMin) /\ ~(v >= sbusMax)
    BY <1>3 DEF sbusMin, sbusMax, channelMax
  <2> QED BY <2>3, <2>4, <2>5 DEF w
<1> QED BY <1>1, <1>2, <1>3 DEF sbusMin, sbusMax, channelMax

\* The largest value has four digits.
LEMMA FourDigits == channelMax \in Int /\ channelMax < 10000
  BY DEF channelMax

\* A line has no channel of five digits.
LEMMA Lines ==
  ASSUME NEW c \in [1 .. 18 -> 0 .. channelMax]
  PROVE  lineLength(c) = 97
<1>1. {i \in 1 .. 18 : c[i] >= 10000} = {}
  <2> SUFFICES ASSUME NEW i \in 1 .. 18 PROVE ~(c[i] >= 10000)
    OBVIOUS
  <2>1. c[i] \in 0 .. channelMax
    OBVIOUS
  <2> QED BY <2>1, FourDigits
<1>2. Cardinality({}) = 0
  BY FS_EmptySet
<1> QED BY <1>1, <1>2 DEF lineLength

\* The packet is what decode makes of the frame, and the width and the line
\* what updatePwm and printPacket make of its channels.
SbusInv ==
    /\ source \in RawPackets
    /\ packet = None \/ packet = decode(source)
    /\ \/ width = 0 /\ line = 0
       \/ /\ "channels" \in DOMAIN packet
          /\ width = fractionToWidth(norm(packet.channels[4]))
          /\ line = lineLength(packet.channels)

\* A packet with channels is one of a good frame.
LEMMA Accepted ==
  ASSUME SbusInv, "channels" \in DOMAIN packet \/ (packet # None /\ packet.error = "none")
  PROVE  /\ packet.error = "none" /\ "channels" \in DOMAIN packet
         /\ packet.channels \in [1 .. 18 -> 0 .. channelMax]
         /\ OwnBits
<1>1. packet = decode(source) /\ source \in RawPackets
  BY DEF SbusInv, None
<1>2. source.size = 25 /\ source.header = 15 /\ source.footer = 0
  BY <1>1 DEF decode
<1> QED BY <1>1, <1>2, AcceptedChannels

\* It holds in every reachable state.
LEMMA SbusInvariance == SbusSpec => []SbusInv
<1>1. SbusInit => SbusInv
  BY DEF SbusInit, SbusInv
<1>2. SbusInv /\ [SbusNext]_sbusVars => SbusInv'
  <2> SUFFICES ASSUME SbusInv, [SbusNext]_sbusVars PROVE SbusInv'
    OBVIOUS
  <2>1. CASE Decode
    BY <2>1 DEF Decode, SbusInv, None
  <2>2. CASE updatePwm
    <3>1. "channels" \in DOMAIN packet
      BY <2>2, Accepted DEF updatePwm
    <3> QED BY <2>2, <3>1 DEF updatePwm, SbusInv
  <2>3. CASE UNCHANGED sbusVars
    BY <2>3 DEF sbusVars, SbusInv
  <2> QED BY <2>1, <2>2, <2>3 DEF SbusNext
<1> QED BY <1>1, <1>2, PTL DEF SbusSpec

(* For every frame, each channel has exactly its own eleven bits, full     *)
(* deflection is the full width of the pulse, neither end wraps around,    *)
(* and the packet and its line fit their buffers (sbus_decoder.h:38-68,    *)
(* main.cpp:36-83).                                                        *)
THEOREM ChannelsDecoded == SbusSpec => []ChannelsAsSent
<1>1. SbusInv => ChannelsAsSent
  <2> SUFFICES ASSUME SbusInv PROVE ChannelsAsSent
    OBVIOUS
  <2>1. packet.error # "DestBufferTooSmall"
    BY DEF SbusInv, None, decode, sizeofPacket, BUFFER_MAX_SIZE
  <2>2. CASE "channels" \in DOMAIN packet
    <3> DEFINE v == packet.channels[4]
    <3>1. packet.channels \in [1 .. 18 -> 0 .. channelMax] /\ OwnBits
      BY <2>2, Accepted
    <3>2. v \in 0 .. channelMax
      BY <3>1
    <3>3. line = 0 \/ line = 97
      BY <3>1, Lines DEF SbusInv
    <3>4. (width = 0 /\ line = 0) \/ width = fractionToWidth(norm(v))
      BY DEF SbusInv
    <3> HIDE DEF v
    <3>5. width \in 0 .. period
      <4>1. fractionToWidth(norm(v)) \in 0 .. period
        BY <3>2, Widths
      <4>2. period \in Nat
        BY DEF period
      <4> QED BY <3>4, <4>1, <4>2
    <3>6. line # 0 => /\ v <= sbusMin => width = 0
                      /\ v >= sbusMax => width = period
                      /\ sbusMin < v /\ v < sbusMax => 0 < width /\ width < period
      BY <3>2, <3>4, Widths
    <3>7. FullDeflection
      BY <3>6 DEF FullDeflection, v
    <3>8. SbusTypeOK /\ LineFits
      BY <2>1, <3>1, <3>3, <3>5 DEF SbusTypeOK, LineFits, LINE_MAX_SIZE
    <3> QED BY <3>1, <3>7, <3>8 DEF ChannelsAsSent
  <2>3. CASE "channels" \notin DOMAIN packet
    <3>1. width = 0 /\ line = 0
      BY <2>3 DEF SbusInv
    <3> QED BY <2>1, <2>3, <3>1
            DEF ChannelsAsSent, SbusTypeOK, OwnBits, FullDeflection, LineFits, LINE_MAX_SIZE, period
  <2> QED BY <2>2, <2>3
<1> QED BY <1>1, SbusInvariance, PTL
=============================================================================
