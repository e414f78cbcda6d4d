------------------------------ MODULE Mailbox ------------------------------
(***************************************************************************)
(* QueueT and the mailbox MailboxImplT of the ChibiOS port                 *)
(* (lib/chibios/include/spacket/impl/mailbox_impl_p.h).                    *)
(*                                                                         *)
(* A step is one turn of the loop of postS or fetchS: what runs between    *)
(* chSysLock and the point where the thread leaves the critical section or *)
(* goes to sleep.  A thread that was woken takes another turn, and any     *)
(* other thread may take a turn before it.  postI and fetchI are the turn  *)
(* that never sleeps: a call with an immediate timeout.  `reset' is        *)
(* written by nobody and is left out.                                      *)
(*                                                                         *)
(* Operators named ...Faulty are wrong on purpose and used nowhere.        *)
(***************************************************************************)
EXTENDS Messages, Integers, Sequences, FiniteSets

CONSTANTS Thread,
          SIZE,
          Role      \* the operation each thread calls

ASSUME MailboxAssumption ==
    /\ IsFiniteSet(Thread)
    /\ SIZE \in Nat \ {0}
    /\ Role \in [Thread -> {"post", "fetch", "replace"}]

VARIABLES storage, wrptr, rdptr, cnt,
          qw, qr,   \* the threads asleep in post and in fetch, oldest first
          op,       \* the operation a thread is in; "repost" is replace after its fetch
          msg,      \* the caller's message, NoMessage once it was moved out
          patient,  \* whether the call may sleep
          got,      \* the message the thread's last fetch returned
          result    \* how the last call ended

queue == <<storage, wrptr, rdptr, cnt>>
callvars == <<op, msg, patient, got, result>>
vars == <<queue, qw, qr, callvars>>

InQueue(q, t) == \E i \in DOMAIN q : q[i] = t

Asleep(t) == InQueue(qw, t) \/ InQueue(qr, t)

Running(t, o) == op[t] = o /\ ~Asleep(t)

freeCount == SIZE - cnt

next(p) == IF p + 1 >= SIZE THEN 0 ELSE p + 1

DequeueFaulty(q) == q
(* chThdDequeueNextI: the thread that sleeps longest is made ready. *)
Dequeue(q) == IF q = <<>> THEN q ELSE Tail(q)

(* What belongs to the call, its message and its timeout, goes with it. *)
Return(t, r) == /\ op' = [op EXCEPT ![t] = "none"]
                /\ msg' = [msg EXCEPT ![t] = NoMessage]
                /\ patient' = [patient EXCEPT ![t] = FALSE]
                /\ result' = [result EXCEPT ![t] = r]

put(t) == /\ storage' = [storage EXCEPT ![wrptr] = msg[t]]
          /\ wrptr' = next(wrptr)
          /\ cnt' = cnt + 1
          /\ qr' = Dequeue(qr)
          /\ UNCHANGED <<rdptr, qw>>

takeFaulty(t) == /\ got' = [got EXCEPT ![t] = storage[rdptr]]
                 /\ qw' = Dequeue(qw)
                 /\ UNCHANGED <<queue, qr>>
take(t) == /\ got' = [got EXCEPT ![t] = storage[rdptr]]
           /\ storage' = [storage EXCEPT ![rdptr] = NoMessage]
           /\ rdptr' = next(rdptr)
           /\ cnt' = cnt - 1
           /\ qw' = Dequeue(qw)
           /\ UNCHANGED <<wrptr, qr>>

Init == /\ storage = [i \in 0 .. SIZE - 1 |-> NoMessage]
        /\ wrptr = 0 /\ rdptr = 0 /\ cnt = 0
        /\ qw = <<>> /\ qr = <<>>
        /\ op = [t \in Thread |-> "none"]
        /\ msg = [t \in Thread |-> NoMessage]
        /\ patient = [t \in Thread |-> FALSE]
        /\ got = [t \in Thread |-> NoMessage]
        /\ result = [t \in Thread |-> "ok"]

(* A thread makes the call of its role; both turns of a replace are immediate. *)
Call(t) == /\ op[t] = "none"
           /\ op' = [op EXCEPT ![t] = Role[t]]
           /\ \E m \in IF Role[t] = "fetch" THEN {NoMessage} ELSE Message :
                 msg' = [msg EXCEPT ![t] = m]
           /\ \E p \in IF Role[t] = "replace" THEN {FALSE} ELSE BOOLEAN :
                 patient' = [patient EXCEPT ![t] = p]
           /\ got' = [got EXCEPT ![t] = NoMessage]
           /\ result' = [result EXCEPT ![t] = "ok"]
           /\ UNCHANGED <<queue, qw, qr>>

Post(t) == /\ Running(t, "post") \/ Running(t, "repost")
           /\ freeCount > 0
           /\ put(t)
           /\ Return(t, "ok")
           /\ UNCHANGED got

PostFails(t) == /\ Running(t, "post") \/ Running(t, "repost")
                /\ freeCount = 0
                /\ ~patient[t]
                /\ Return(t, "timeout")
                /\ UNCHANGED <<queue, qw, qr, got>>

PostSleeps(t) == /\ Running(t, "post")
                 /\ freeCount = 0
                 /\ patient[t]
                 /\ qw' = Append(qw, t)
                 /\ UNCHANGED <<queue, qr, callvars>>

Fetch(t) == /\ Running(t, "fetch")
            /\ cnt > 0
            /\ take(t)
            /\ Return(t, "ok")

FetchFails(t) == /\ Running(t, "fetch")
                 /\ cnt = 0
                 /\ ~patient[t]
                 /\ Return(t, "timeout")
                 /\ UNCHANGED <<queue, qw, qr, got>>

FetchSleeps(t) == /\ Running(t, "fetch")
                  /\ cnt = 0
                  /\ patient[t]
                  /\ qr' = Append(qr, t)
                  /\ UNCHANGED <<queue, qw, callvars>>

DiscardFaulty(t) == UNCHANGED <<queue, qw, qr, got>>
(* The fetch of replace: what it returns is dropped, its timeout is no error. *)
Discard(t) == IF cnt > 0 THEN take(t) ELSE UNCHANGED <<queue, qw, qr, got>>

Replace(t) == /\ Running(t, "replace")
              /\ Discard(t)
              /\ op' = [op EXCEPT ![t] = "repost"]
              /\ UNCHANGED <<msg, patient, result>>

(* The timer of a sleeping thread takes it out of its queue and ends its call. *)
Without(q, i) == SubSeq(q, 1, i - 1) \o SubSeq(q, i + 1, Len(q))

TimesOut(t) == /\ \/ /\ \E i \in DOMAIN qw : qw[i] = t /\ qw' = Without(qw, i)
                     /\ UNCHANGED qr
                  \/ /\ \E i \in DOMAIN qr : qr[i] = t /\ qr' = Without(qr, i)
                     /\ UNCHANGED qw
               /\ Return(t, "timeout")
               /\ UNCHANGED <<queue, got>>

Turn(t) == \/ Post(t) \/ PostFails(t) \/ PostSleeps(t)
           \/ Fetch(t) \/ FetchFails(t) \/ FetchSleeps(t)
           \/ Replace(t)

Next == \E t \in Thread : Call(t) \/ Turn(t) \/ TimesOut(t)

(* A thread that is ready gets its turn.  No timer need expire: a call may *)
(* be made with an infinite timeout.                                       *)
Spec == Init /\ [][Next]_vars /\ \A t \in Thread : WF_vars(Turn(t))

-----------------------------------------------------------------------------
TypeOK ==
    /\ storage \in [0 .. SIZE - 1 -> Message \union {NoMessage}]
    /\ wrptr \in 0 .. SIZE - 1 /\ rdptr \in 0 .. SIZE - 1 /\ cnt \in 0 .. SIZE
    /\ qw \in Seq(Thread) /\ qr \in Seq(Thread)
    /\ op \in [Thread -> {"none", "post", "fetch", "replace", "repost"}]
    /\ msg \in [Thread -> Message \union {NoMessage}]
    /\ patient \in [Thread -> BOOLEAN]
    /\ got \in [Thread -> Message \union {NoMessage}]
    /\ result \in [Thread -> {"ok", "timeout"}]

(* The distance of the i-th stored message from the start of the storage. *)
Position(i) == (rdptr + i) % SIZE

(* The storage is raw memory in which messages are constructed and         *)
(* destroyed by hand: exactly the cnt places from rdptr hold a live one,   *)
(* so no live message is overwritten and none is destroyed twice.          *)
LiveExactly ==
    /\ wrptr = Position(cnt)
    /\ \A i \in 0 .. SIZE - 1 : (storage[Position(i)] # NoMessage) <=> i < cnt

(* A thread sleeps in one place of one queue, in the queue of its own      *)
(* call, and a call that may not sleep never does.                         *)
SleepersInOrder ==
    /\ \A q \in {qw, qr} : \A i, j \in DOMAIN q : q[i] = q[j] => i = j
    /\ \A i \in DOMAIN qw : op[qw[i]] = "post" /\ patient[qw[i]]
    /\ \A i \in DOMAIN qr : op[qr[i]] = "fetch" /\ patient[qr[i]]

ReadyTo(o) == {t \in Thread : op[t] \in o /\ ~Asleep(t)}

(* One wake-up is given for every message and every free place, and it is  *)
(* not taken back when another thread overtakes the woken one: whoever     *)
(* sleeps, there are as many awake threads on their way to the messages,   *)
(* or to the free places, as there are of these.                           *)
NoLostWakeup ==
    /\ qr # <<>> => cnt <= Cardinality(ReadyTo({"fetch", "replace"}))
    /\ qw # <<>> => freeCount <= Cardinality(ReadyTo({"post", "repost"}))

(* Posts, fetches and replaces of any threads, with timeouts, are those of *)
(* a bounded first-in first-out channel: no message is lost, copied or     *)
(* overtaken, and sleepers are where their wake-up looks for them          *)
(* (mailbox_impl_p.h:64-210).                                              *)
Contents == [i \in 1 .. cnt |-> storage[Position(i - 1)]]
Fifo == INSTANCE Channel WITH Client <- Thread, Capacity <- SIZE, channel <- Contents
QueueIsChannel == Fifo!Spec /\ [](TypeOK /\ LiveExactly /\ SleepersInOrder)

(* With a sole producer, the way every device uses its mailbox, replace    *)
(* never fails although its fetch and its post are two critical sections.  *)
ReplaceNeverFails == \A t \in Thread : Role[t] = "replace" => result[t] = "ok"

(* With a sole producer the two steps of replace look like one: the        *)
(* dropped message is the one that the posted message replaces.            *)
Reposting == {t \in Thread : op[t] = "repost"}
SlotReader == {t \in Thread : Role[t] = "fetch"}
SlotContents == IF cnt > 0 THEN storage[rdptr]
                ELSE IF Reposting # {} THEN got[CHOOSE t \in Reposting : TRUE]
                ELSE NoMessage
DeviceSlot == INSTANCE Slot WITH Reader <- SlotReader, slot <- SlotContents,
                              got <- [r \in SlotReader |-> got[r]]
ImplementsDeviceSlot == DeviceSlot!Spec

(* A message and a thread that sleeps for one do not stay together, nor do *)
(* a free place and a thread that sleeps for one, however others overtake. *)
SleepersServed == /\ (cnt > 0 /\ qr # <<>>) ~> (cnt = 0 \/ qr = <<>>)
                  /\ (freeCount > 0 /\ qw # <<>>) ~> (freeCount = 0 \/ qw = <<>>)
=============================================================================
