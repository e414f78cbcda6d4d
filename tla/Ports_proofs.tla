---------------------------- MODULE Ports_proofs ----------------------------
(***************************************************************************)
(* The mailboxes and the threads of both ports and the serial device of    *)
(* the host, for any threads, owners, readers, messages and sizes: the     *)
(* modules that MCPorts runs side by side.  Each has its own inductive     *)
(* invariant: first the mailbox of the host, then the threads of both      *)
(* ports, the mailbox of the firmware, and the host's serial device.       *)
(***************************************************************************)
EXTENDS LinuxMailbox, Mailbox, SequencesExt, SequenceTheorems, FiniteSetTheorems, TLAPS

CONSTANTS Owner, maxRead, Writer, Size, MaxIn, MaxOut

VARIABLES lPtr, lValue, lPromise, lThread, lOwner, lFault,
          cFunction, cStored, cTerminate, cResult, cMember, cThread, cOwner, cFault,
          sFd, sStep, sArrived, sTaken, sReading, sCur, sLate, sPast, sResult, sGot, sLost,
          sLeft, sFailed, sBuffers, sLine

Host == INSTANCE LinuxThread WITH
    ptr <- lPtr, value <- lValue, promise <- lPromise, thread <- lThread, owner <- lOwner,
    fault <- lFault
Firmware == INSTANCE ChibiosThread WITH
    function <- cFunction, stored <- cStored, terminate <- cTerminate, result <- cResult,
    member <- cMember, thread <- cThread, owner <- cOwner, fault <- cFault
Serial == INSTANCE LinuxSerialDevice WITH
    fd <- sFd, step <- sStep, arrived <- sArrived, taken <- sTaken, reading <- sReading,
    cur <- sCur, late <- sLate, past <- sPast, result <- sResult, got <- sGot, lost <- sLost,
    left <- sLeft, failed <- sFailed, buffers <- sBuffers, line <- sLine

-----------------------------------------------------------------------------
(* The mailbox of the host: a message that stays has somebody awake, since *)
(* a reader that leaves awake takes the message with it.                   *)
SlotInv == LinuxTypeOK /\ NoLostNotification

(* The mailbox starts empty and with nobody in it. *)
LEMMA SlotInit == LinuxInit => SlotInv
  BY DEF LinuxInit, SlotInv, LinuxTypeOK, NoLostNotification

(* A replace leaves a message and, if somebody waited, somebody awake. *)
LEMMA ReplaceKeeps == SlotInv /\ replace => SlotInv'
<1> SUFFICES ASSUME SlotInv, replace PROVE SlotInv'
  OBVIOUS
<1>1. LinuxTypeOK'
  BY DEF SlotInv, LinuxTypeOK, replace, notify_one
<1>2. NoLostNotification'
  <2>1. CASE waiting = {}
    BY <2>1 DEF replace, notify_one, NoLostNotification
  <2>2. CASE waiting # {}
    <3>1. PICK r \in waiting : waiting' = waiting \ {r}
      BY <2>2 DEF replace, notify_one
    <3>2. r \in Reader /\ r \in fetching' \ waiting'
      BY <3>1 DEF SlotInv, LinuxTypeOK, replace
    <3> QED
      BY <3>2 DEF NoLostNotification, Awake
  <2> QED
    BY <2>1, <2>2
<1> QED
  BY <1>1, <1>2 DEF SlotInv

(* What one reader does, and what happens to it, keeps the invariant: the  *)
(* message goes when it leaves with it, and it stays awake otherwise.      *)
LEMMA ReaderKeeps ==
  ASSUME SlotInv, NEW r \in Reader,
         LinuxCall(r) \/ LinuxTurn(r) \/ Expire(r) \/ WakeSpuriously(r)
  PROVE  SlotInv'
<1>1. LinuxTypeOK'
  <2>1. CASE LinuxCall(r)
    BY <2>1 DEF SlotInv, LinuxTypeOK, LinuxCall
  <2>2. CASE LinuxFetch(r)
    BY <2>2 DEF SlotInv, LinuxTypeOK, LinuxFetch, Leave, Awake
  <2>3. CASE Wait(r)
    BY <2>3 DEF SlotInv, LinuxTypeOK, Wait, Awake
  <2>4. CASE Fail(r)
    BY <2>4 DEF SlotInv, LinuxTypeOK, Fail, Leave, Awake
  <2>5. CASE Expire(r)
    BY <2>5 DEF SlotInv, LinuxTypeOK, Expire
  <2>6. CASE WakeSpuriously(r)
    BY <2>6 DEF SlotInv, LinuxTypeOK, WakeSpuriously
  <2> QED
    BY <2>1, <2>2, <2>3, <2>4, <2>5, <2>6 DEF LinuxTurn
<1>2. NoLostNotification'
  <2>1. CASE LinuxCall(r)
    BY <2>1 DEF SlotInv, LinuxTypeOK, NoLostNotification, Awake, LinuxCall
  <2>2. CASE LinuxFetch(r) \/ Wait(r) \/ Fail(r)
    <3>1. message' = NoMessage
      BY <2>2 DEF LinuxFetch, Wait, Fail
    <3> QED
      BY <3>1 DEF NoLostNotification
  <2>3. CASE Expire(r) \/ WakeSpuriously(r)
    <3>1. r \in fetching' \ waiting'
      BY <2>3 DEF SlotInv, LinuxTypeOK, Expire, WakeSpuriously
    <3> QED
      BY <3>1 DEF NoLostNotification, Awake
  <2> QED
    BY <2>1, <2>2, <2>3 DEF LinuxTurn
<1> QED
  BY <1>1, <1>2 DEF SlotInv

(* SlotInv holds in every reachable state. *)
LEMMA SlotInvariance == LinuxSpec => []SlotInv
<1>1. SlotInv /\ [LinuxNext]_linuxVars => SlotInv'
  <2> SUFFICES ASSUME SlotInv, [LinuxNext]_linuxVars PROVE SlotInv'
    OBVIOUS
  <2>1. CASE LinuxNext
    BY <2>1, ReplaceKeeps, ReaderKeeps DEF LinuxNext
  <2>2. CASE UNCHANGED linuxVars
    BY <2>2 DEF SlotInv, LinuxTypeOK, NoLostNotification, Awake, linuxVars
  <2> QED
    BY <2>1, <2>2
<1> QED
  BY <1>1, SlotInit, PTL DEF LinuxSpec

(* When readers wait while there is a message, somebody awake will take it *)
(* (mailbox_impl_p.h:14 notifies one reader only, and that reader may be   *)
(* overtaken or out of time).                                              *)
THEOREM NotificationNeverLost == LinuxSpec => [](LinuxTypeOK /\ NoLostNotification)
<1>1. SlotInv => LinuxTypeOK /\ NoLostNotification
  BY DEF SlotInv
<1> QED
  BY <1>1, SlotInvariance, PTL

(* The mailbox is one slot that is replaced, and emptied by a fetch, in    *)
(* one step, whatever waits and is woken meanwhile.                        *)
THEOREM MailboxIsSlot == LinuxSpec => ImplementsSlot
<1>1. LinuxInit => OneSlot!Init
  BY DEF LinuxInit, OneSlot!Init
<1>2. [LinuxNext]_linuxVars => [OneSlot!Next]_OneSlot!vars
  <2> SUFFICES ASSUME LinuxNext PROVE OneSlot!Next \/ UNCHANGED OneSlot!vars
    BY DEF linuxVars, OneSlot!vars
  <2>1. CASE replace
    BY <2>1 DEF replace, OneSlot!Next, OneSlot!Replace
  <2>2. ASSUME NEW r \in Reader, LinuxCall(r) \/ LinuxTurn(r) \/ Expire(r) \/ WakeSpuriously(r)
        PROVE  OneSlot!Next \/ UNCHANGED OneSlot!vars
    <3>1. CASE LinuxCall(r)
      BY <3>1 DEF LinuxCall, OneSlot!Next, OneSlot!Ask
    <3>2. CASE LinuxFetch(r)
      BY <3>2 DEF LinuxFetch, OneSlot!Next, OneSlot!Fetch
    <3>3. CASE ~LinuxCall(r) /\ ~LinuxFetch(r)
      BY <2>2, <3>3 DEF LinuxTurn, Wait, Fail, Expire, WakeSpuriously, OneSlot!vars
    <3> QED
      BY <3>1, <3>2, <3>3
  <2> QED
    BY <2>1, <2>2 DEF LinuxNext
<1> QED
  BY <1>1, <1>2, PTL DEF LinuxSpec, ImplementsSlot, OneSlot!Spec
-----------------------------------------------------------------------------
(* The threads of the host: what an owner knows of its thread at each of   *)
(* its places.  That the flag is FALSE until the owner asks needs the      *)
(* promise, kept only when the thread has published its flag.              *)
HostPlaces(o) ==
  /\ lOwner[o] = "idle" => lThread[o] = "none"
  /\ lOwner[o] = "constructing" =>
        /\ lThread[o] \in {"spawned", "initialized", "published", "running"}
        /\ lPromise[o] => lThread[o] = "running"
        /\ lThread[o] \in {"published", "running"} => lPtr[o].result = "flag"
        /\ lValue[o] # "TRUE"
  /\ lOwner[o] = "constructed" =>
        lThread[o] = "running" /\ lValue[o] = "FALSE" /\ lPtr[o].result = "flag"
  /\ lOwner[o] = "using" =>
        lThread[o] = "running" /\ lValue[o] = "FALSE" /\ lPtr[o].member = "flag"
  /\ lOwner[o] = "waiting" => lThread[o] \in {"running", "returned"}

HostInv == Host!TypeOK /\ Host!NoFault /\ \A o \in Owner : HostPlaces(o)

\* Nobody has a thread at first.
LEMMA HostInit == Host!Init => HostInv
  BY DEF Host!Init, HostInv, Host!TypeOK, Host!NoFault, HostPlaces

\* What an owner does keeps the invariant.
LEMMA HostOwnerKeeps ==
  ASSUME HostInv, NEW o \in Owner,
         \/ Host!create(o) \/ Host!constructed(o) \/ Host!move(o)
         \/ Host!requestStop(o) \/ Host!wait(o)
  PROVE  HostInv'
<1> USE DEF HostInv, Host!TypeOK, Host!NoFault, HostPlaces, Host!Step
<1>1. CASE Host!create(o)
  BY <1>1 DEF Host!create
<1>2. CASE Host!constructed(o)
  BY <1>2 DEF Host!constructed
<1>3. CASE Host!move(o)
  BY <1>3 DEF Host!move
<1>4. CASE Host!requestStop(o)
  BY <1>4 DEF Host!requestStop
<1>5. CASE Host!wait(o)
  BY <1>5 DEF Host!wait
<1> QED
  BY <1>1, <1>2, <1>3, <1>4, <1>5

\* So does what its thread does, wherever the owner is meanwhile.
LEMMA HostThreadKeeps ==
  ASSUME HostInv, NEW o \in Owner, Host!ThreadRuns(o)
  PROVE  HostInv'
<1> USE DEF HostInv, Host!TypeOK, Host!NoFault, HostPlaces, Host!Step
<1>1. CASE Host!initialize(o)
  BY <1>1 DEF Host!initialize
<1>2. CASE Host!publish(o)
  BY <1>2 DEF Host!publish
<1>3. CASE Host!set_value(o)
  BY <1>3 DEF Host!set_value
<1>4. CASE Host!returns(o)
  BY <1>4 DEF Host!returns, Host!shouldStop
<1> QED
  BY <1>1, <1>2, <1>3, <1>4 DEF Host!ThreadRuns

\* HostInv holds in every reachable state.
LEMMA HostInvariance == Host!Spec => []HostInv
<1>1. HostInv /\ [Host!Next]_Host!vars => HostInv'
  <2> SUFFICES ASSUME HostInv, [Host!Next]_Host!vars PROVE HostInv'
    OBVIOUS
  <2>1. CASE Host!Next
    BY <2>1, HostOwnerKeeps, HostThreadKeeps DEF Host!Next
  <2>2. CASE UNCHANGED Host!vars
    BY <2>2 DEF Host!vars, HostInv, Host!TypeOK, Host!NoFault, HostPlaces
  <2> QED
    BY <2>1, <2>2
<1> QED
  BY <1>1, HostInit, PTL DEF Host!Spec

(* A request never goes through a null pointer or to the flag of a thread  *)
(* that is gone (thread_impl_p.h:62-66,69-84).                             *)
THEOREM RequestReaches == Host!Spec => [](Host!TypeOK /\ Host!NoFault)
<1>1. HostInv => Host!TypeOK /\ Host!NoFault
  BY DEF HostInv
<1> QED
  BY <1>1, HostInvariance, PTL

(* The host's threads run, end and are waited for as Stoppable says: each  *)
(* step of one is a step of it or of none.                                 *)
THEOREM HostThreadStops ==
  Host!Spec => /\ Host!Abstract!Init
               /\ [][Host!Abstract!Next]_[o \in Owner |-> Host!Phase(o)]
<1> DEFINE phase == [o \in Owner |-> Host!Phase(o)]
<1>1. Host!Init => Host!Abstract!Init
  BY DEF Host!Init, Host!Abstract!Init, Host!Phase
<1>2. HostInv /\ [Host!Next]_Host!vars => [Host!Abstract!Next]_phase
  <2> SUFFICES ASSUME HostInv, Host!Next PROVE Host!Abstract!Next \/ phase' = phase
    <3>1. UNCHANGED Host!vars => \A o \in Owner : Host!Phase(o)' = Host!Phase(o)
      BY DEF Host!vars, Host!Phase
    <3> QED
      BY <3>1
  <2>1. PICK o \in Owner : \/ Host!ThreadRuns(o) \/ Host!create(o) \/ Host!constructed(o)
                           \/ Host!move(o) \/ Host!requestStop(o) \/ Host!wait(o)
    BY DEF Host!Next
  <2>2. \A p \in Owner : p # o => lOwner'[p] = lOwner[p] /\ lThread'[p] = lThread[p]
    BY <2>1 DEF HostInv, Host!TypeOK, Host!ThreadRuns, Host!Step, Host!create,
                Host!constructed, Host!move, Host!requestStop, Host!wait, Host!initialize,
                Host!publish, Host!set_value, Host!returns
  <2>3. \A p \in Owner : p # o => Host!Phase(p)' = Host!Phase(p)
    BY <2>2 DEF Host!Phase
  <2>4. ASSUME NEW a, NEW b, Host!Phase(o) = a, Host!Phase(o)' = b
        PROVE  phase[o] = a /\ phase' = [phase EXCEPT ![o] = b]
    BY <2>3, <2>4
  <2>5. CASE \/ Host!create(o) \/ Host!constructed(o) \/ Host!initialize(o)
             \/ Host!publish(o) \/ Host!set_value(o)
    <3>1. Host!Phase(o)' = Host!Phase(o)
      BY <2>5 DEF HostInv, Host!TypeOK, HostPlaces, Host!Step, Host!Phase, Host!create,
                  Host!constructed, Host!initialize, Host!publish, Host!set_value
    <3> QED
      BY <2>3, <3>1
  <2>6. CASE Host!move(o)
    <3>1. Host!Phase(o) = "idle" /\ Host!Phase(o)' = "running"
      BY <2>6 DEF HostInv, Host!TypeOK, HostPlaces, Host!Step, Host!Phase, Host!move
    <3> QED
      BY <2>4, <3>1 DEF Host!Abstract!Next, Host!Abstract!create, Host!Abstract!Become
  <2>7. CASE Host!requestStop(o)
    <3>1. Host!Phase(o) = "running" /\ Host!Phase(o)' = "asked"
      BY <2>7 DEF HostInv, Host!TypeOK, HostPlaces, Host!Step, Host!Phase, Host!requestStop
    <3> QED
      BY <2>4, <3>1 DEF Host!Abstract!Next, Host!Abstract!requestStop, Host!Abstract!Become
  <2>8. CASE Host!wait(o)
    <3>1. Host!Phase(o) = "returned" /\ Host!Phase(o)' = "idle"
      BY <2>8 DEF HostInv, Host!TypeOK, Host!Step, Host!Phase, Host!wait
    <3> QED
      BY <2>4, <3>1 DEF Host!Abstract!Next, Host!Abstract!wait, Host!Abstract!Become
  <2>9. CASE Host!returns(o)
    <3>1. Host!Phase(o) = "asked" /\ Host!Phase(o)' = "returned"
      BY <2>9 DEF HostInv, Host!TypeOK, HostPlaces, Host!Step, Host!Phase, Host!returns,
                  Host!shouldStop
    <3> QED
      BY <2>4, <3>1 DEF Host!Abstract!Next, Host!Abstract!Returns, Host!Abstract!Become
  <2> QED
    BY <2>1, <2>5, <2>6, <2>7, <2>8, <2>9 DEF Host!ThreadRuns
<1> QED
  BY <1>1, <1>2, HostInvariance, PTL DEF Host!Spec
-----------------------------------------------------------------------------
(* The threads of the firmware: at each place of an owner, what its        *)
(* storage and the thread in it may be; the storage is given away only     *)
(* where the last thread is final.                                         *)
FirmwarePlaces(o) ==
  /\ cOwner[o] \in {"idle", "assigned"} => cThread[o] \in {"none", "final"}
  /\ cOwner[o] \in {"created", "returned", "using"} =>
        cThread[o] \in {"ready", "running"} /\ ~cTerminate[o]
  /\ cOwner[o] = "waiting" => cThread[o] # "none"
  /\ cOwner[o] # "idle" => cFunction[o]
  /\ cOwner[o] \in {"returned", "using", "waiting"} => cStored[o]
  /\ cOwner[o] = "returned" => cResult[o]

FirmwareInv == Firmware!TypeOK /\ Firmware!NoFault /\ \A o \in Owner : FirmwarePlaces(o)

\* Nobody has a thread at first.
LEMMA FirmwareInit == Firmware!Init => FirmwareInv
  BY DEF Firmware!Init, FirmwareInv, Firmware!TypeOK, Firmware!NoFault, FirmwarePlaces

\* What an owner or its thread does keeps the invariant.
LEMMA FirmwareKeeps ==
  ASSUME FirmwareInv, NEW o \in Owner,
         \/ Firmware!assign(o) \/ Firmware!chThdCreateStatic(o) \/ Firmware!create(o)
         \/ Firmware!move(o) \/ Firmware!requestStop(o) \/ Firmware!wait(o)
         \/ Firmware!threadFunction(o) \/ Firmware!returns(o)
  PROVE  FirmwareInv'
<1> USE DEF FirmwareInv, Firmware!TypeOK, Firmware!NoFault, FirmwarePlaces, Firmware!Step,
            Firmware!Set
<1>1. CASE Firmware!assign(o)
  BY <1>1 DEF Firmware!assign
<1>2. CASE Firmware!chThdCreateStatic(o)
  BY <1>2 DEF Firmware!chThdCreateStatic
<1>3. CASE Firmware!create(o)
  BY <1>3 DEF Firmware!create
<1>4. CASE Firmware!move(o)
  BY <1>4 DEF Firmware!move
<1>5. CASE Firmware!requestStop(o)
  BY <1>5, ZenonT(60) DEF Firmware!requestStop
<1>6. CASE Firmware!wait(o)
  BY <1>6 DEF Firmware!wait
<1>7. CASE Firmware!threadFunction(o)
  BY <1>7 DEF Firmware!threadFunction
<1>8. CASE Firmware!returns(o)
  BY <1>8 DEF Firmware!returns, Firmware!shouldStop
<1> QED
  BY <1>1, <1>2, <1>3, <1>4, <1>5, <1>6, <1>7, <1>8

\* FirmwareInv holds in every reachable state.
LEMMA FirmwareInvariance == Firmware!Spec => []FirmwareInv
<1>1. FirmwareInv /\ [Firmware!Next]_Firmware!vars => FirmwareInv'
  <2> SUFFICES ASSUME FirmwareInv, [Firmware!Next]_Firmware!vars PROVE FirmwareInv'
    OBVIOUS
  <2>1. CASE Firmware!Next
    BY <2>1, FirmwareKeeps DEF Firmware!Next, Firmware!ThreadRuns
  <2>2. CASE UNCHANGED Firmware!vars
    BY <2>2 DEF Firmware!vars, FirmwareInv, Firmware!TypeOK, Firmware!NoFault,
                FirmwarePlaces
  <2> QED
    BY <2>1, <2>2
<1> QED
  BY <1>1, FirmwareInit, PTL DEF Firmware!Spec

(* No stack is given to a second thread while the first runs on it, no     *)
(* thread finds its function missing, no request goes through a null       *)
(* pointer (thread_impl_p.h:38-47,59-74).                                  *)
THEOREM StorageSafe == Firmware!Spec => [](Firmware!TypeOK /\ Firmware!NoFault)
<1>1. FirmwareInv => Firmware!TypeOK /\ Firmware!NoFault
  BY DEF FirmwareInv
<1> QED
  BY <1>1, FirmwareInvariance, PTL

(* The firmware's threads run, end and are waited for as Stoppable says:   *)
(* each step of one is a step of it or of none.                            *)
THEOREM FirmwareThreadStops ==
  Firmware!Spec => /\ Firmware!Abstract!Init
                   /\ [][Firmware!Abstract!Next]_[o \in Owner |-> Firmware!Phase(o)]
<1> DEFINE phase == [o \in Owner |-> Firmware!Phase(o)]
<1>1. Firmware!Init => Firmware!Abstract!Init
  BY DEF Firmware!Init, Firmware!Abstract!Init, Firmware!Phase
<1>2. FirmwareInv /\ [Firmware!Next]_Firmware!vars => [Firmware!Abstract!Next]_phase
  <2> SUFFICES ASSUME FirmwareInv, Firmware!Next
               PROVE  Firmware!Abstract!Next \/ phase' = phase
    <3>1. UNCHANGED Firmware!vars => \A o \in Owner : Firmware!Phase(o)' = Firmware!Phase(o)
      BY DEF Firmware!vars, Firmware!Phase
    <3> QED
      BY <3>1
  <2>1. PICK o \in Owner :
            \/ Firmware!ThreadRuns(o) \/ Firmware!assign(o) \/ Firmware!chThdCreateStatic(o)
            \/ Firmware!create(o) \/ Firmware!move(o) \/ Firmware!requestStop(o)
            \/ Firmware!wait(o)
    BY DEF Firmware!Next
  <2>2. \A p \in Owner : p # o => cOwner'[p] = cOwner[p] /\ cThread'[p] = cThread[p]
    BY <2>1 DEF FirmwareInv, Firmware!TypeOK, Firmware!ThreadRuns, Firmware!Step,
                Firmware!Set, Firmware!assign, Firmware!chThdCreateStatic,
                Firmware!create, Firmware!move, Firmware!requestStop, Firmware!wait,
                Firmware!threadFunction, Firmware!returns
  <2>3. \A p \in Owner : p # o => Firmware!Phase(p)' = Firmware!Phase(p)
    BY <2>2 DEF Firmware!Phase
  <2>4. ASSUME NEW a, NEW b, Firmware!Phase(o) = a, Firmware!Phase(o)' = b
        PROVE  phase[o] = a /\ phase' = [phase EXCEPT ![o] = b]
    BY <2>3, <2>4
  <2>5. CASE \/ Firmware!assign(o) \/ Firmware!chThdCreateStatic(o) \/ Firmware!create(o)
             \/ Firmware!threadFunction(o)
    <3>1. Firmware!Phase(o)' = Firmware!Phase(o)
      BY <2>5 DEF FirmwareInv, Firmware!TypeOK, FirmwarePlaces, Firmware!Step,
                  Firmware!Set, Firmware!Phase, Firmware!assign,
                  Firmware!chThdCreateStatic, Firmware!create, Firmware!threadFunction
    <3> QED
      BY <2>3, <3>1
  <2>6. CASE Firmware!move(o)
    <3>1. Firmware!Phase(o) = "idle" /\ Firmware!Phase(o)' = "running"
      BY <2>6 DEF FirmwareInv, Firmware!TypeOK, Firmware!Step, Firmware!Set,
                  Firmware!Phase, Firmware!move
    <3> QED
      BY <2>4, <3>1 DEF Firmware!Abstract!Next, Firmware!Abstract!create,
                        Firmware!Abstract!Become
  <2>7. CASE Firmware!requestStop(o)
    <3>1. Firmware!Phase(o) = "running" /\ Firmware!Phase(o)' = "asked"
      BY <2>7 DEF FirmwareInv, Firmware!TypeOK, FirmwarePlaces, Firmware!Step,
                  Firmware!Set, Firmware!Phase, Firmware!requestStop
    <3> QED
      BY <2>4, <3>1 DEF Firmware!Abstract!Next, Firmware!Abstract!requestStop,
                        Firmware!Abstract!Become
  <2>8. CASE Firmware!wait(o)
    <3>1. Firmware!Phase(o) = "returned" /\ Firmware!Phase(o)' = "idle"
      BY <2>8 DEF FirmwareInv, Firmware!TypeOK, Firmware!Step, Firmware!Set,
                  Firmware!Phase, Firmware!wait
    <3> QED
      BY <2>4, <3>1 DEF Firmware!Abstract!Next, Firmware!Abstract!wait,
                        Firmware!Abstract!Become
  <2>9. CASE Firmware!returns(o)
    <3>1. Firmware!Phase(o) = "asked" /\ Firmware!Phase(o)' = "returned"
      BY <2>9 DEF FirmwareInv, Firmware!TypeOK, FirmwarePlaces, Firmware!Step,
                  Firmware!Set, Firmware!Phase, Firmware!returns, Firmware!shouldStop
    <3> QED
      BY <2>4, <3>1 DEF Firmware!Abstract!Next, Firmware!Abstract!Returns,
                        Firmware!Abstract!Become
  <2> QED
    BY <2>1, <2>5, <2>6, <2>7, <2>8, <2>9 DEF Firmware!ThreadRuns
<1> QED
  BY <1>1, <1>2, FirmwareInvariance, PTL DEF Firmware!Spec
-----------------------------------------------------------------------------
(* The mailbox of the firmware, from here to the end.  Its storage is a    *)
(* ring: the arithmetic of its places first.                               *)

(* A place after the last of the storage is one from its start again. *)
LEMMA Wraps ==
  ASSUME NEW p \in 0 .. SIZE - 1, NEW i \in 0 .. SIZE
  PROVE  (p + i) % SIZE = IF p + i < SIZE THEN p + i ELSE p + i - SIZE
<1> DEFINE q == (p + i) \div SIZE
           m == (p + i) % SIZE
<1>1. SIZE \in Nat /\ SIZE > 0 /\ p \in Int /\ i \in Int
  BY MailboxAssumption
<1>2. q \in Int /\ m \in 0 .. SIZE - 1 /\ p + i = SIZE * q + m
  BY <1>1
<1>3. 0 <= p + i /\ p + i < 2 * SIZE
  BY <1>1
<1> HIDE DEF q, m
<1>4. q < 2
  <2> SUFFICES ASSUME q >= 2 PROVE FALSE
    BY <1>2
  <2>1. SIZE * q >= 2 * SIZE
    BY <1>1, <1>2
  <2> QED
    BY <1>1, <1>2, <1>3, <2>1
<1>5. q >= 0
  <2> SUFFICES ASSUME q <= -1 PROVE FALSE
    BY <1>2
  <2>1. SIZE * q <= -SIZE
    BY <1>1, <1>2
  <2> QED
    BY <1>1, <1>2, <1>3, <2>1
<1>6. q = 0 \/ q = 1
  BY <1>2, <1>4, <1>5
<1> QED
  BY <1>1, <1>2, <1>6 DEF m

(* The queues of sleeping threads: what a wake-up and a timer leave.       *)
LEMMA Woken ==
  ASSUME NEW q \in Seq(Thread)
  PROVE  /\ Dequeue(q) \in Seq(Thread)
         /\ \A i \in DOMAIN Dequeue(q) : i + 1 \in DOMAIN q /\ Dequeue(q)[i] = q[i + 1]
         /\ \A i \in DOMAIN q : i # 1 => i - 1 \in DOMAIN Dequeue(q) /\ Dequeue(q)[i - 1] = q[i]
         /\ q # <<>> => 1 \in DOMAIN q /\ q[1] \in Thread
<1>1. CASE q = <<>>
  BY <1>1 DEF Dequeue
<1>2. CASE q # <<>>
  <2>1. Dequeue(q) = Tail(q)
    BY <1>2 DEF Dequeue
  <2>2. Len(q) \in Nat \ {0} /\ Tail(q) \in Seq(Thread) /\ Len(Tail(q)) = Len(q) - 1
    BY <1>2
  <2>3. \A i \in 1 .. Len(q) - 1 : Tail(q)[i] = q[i + 1]
    BY <1>2
  <2>4. DOMAIN q = 1 .. Len(q) /\ DOMAIN Tail(q) = 1 .. Len(q) - 1
    BY <2>2
  <2>5. \A i \in DOMAIN q : i # 1 => i - 1 \in DOMAIN Tail(q) /\ Tail(q)[i - 1] = q[i]
    BY <2>2, <2>3, <2>4
  <2> QED
    BY <1>2, <2>1, <2>2, <2>3, <2>4, <2>5
<1> QED
  BY <1>1, <1>2

LEMMA TimedOut ==
  ASSUME NEW q \in Seq(Thread), NEW i \in DOMAIN q
  PROVE  /\ Without(q, i) \in Seq(Thread)
         /\ \A j \in DOMAIN Without(q, i) :
               \E k \in DOMAIN q : /\ k # i /\ Without(q, i)[j] = q[k]
                                   /\ k = IF j < i THEN j ELSE j + 1
         /\ \A k \in DOMAIN q : k # i =>
               \E j \in DOMAIN Without(q, i) : Without(q, i)[j] = q[k]
<1> DEFINE a == SubSeq(q, 1, i - 1)
           b == SubSeq(q, i + 1, Len(q))
           w == a \o b
<1>1. Len(q) \in Nat /\ i \in 1 .. Len(q)
  OBVIOUS
<1>2. a \in Seq(Thread) /\ Len(a) = i - 1 /\ \A j \in 1 .. i - 1 : a[j] = q[j]
  BY <1>1
<1>3. b \in Seq(Thread) /\ Len(b) = Len(q) - i /\ \A j \in 1 .. Len(q) - i : b[j] = q[i + j]
  BY <1>1
<1> HIDE DEF a, b
<1>4. w \in Seq(Thread) /\ Len(w) = Len(q) - 1
  BY <1>1, <1>2, <1>3
<1>5. \A j \in 1 .. Len(q) - 1 : w[j] = IF j < i THEN q[j] ELSE q[j + 1]
  BY <1>1, <1>2, <1>3
<1> HIDE DEF w
<1>6. DOMAIN w = 1 .. Len(q) - 1 /\ DOMAIN q = 1 .. Len(q)
  BY <1>4
<1>7. \A j \in DOMAIN w : \E k \in DOMAIN q : k # i /\ w[j] = q[k] /\ k = IF j < i THEN j ELSE j + 1
  BY <1>1, <1>5, <1>6
<1>8. \A k \in DOMAIN q : k # i => \E j \in DOMAIN w : w[j] = q[k]
  <2> TAKE k \in DOMAIN q
  <2> HAVE k # i
  <2> DEFINE j == IF k < i THEN k ELSE k - 1
  <2>1. j \in DOMAIN w /\ w[j] = q[k]
    BY <1>1, <1>5, <1>6
  <2> QED BY <2>1
<1>9. Without(q, i) = w
  BY DEF Without, w, a, b
<1> QED BY <1>4, <1>7, <1>8, <1>9

-----------------------------------------------------------------------------
(* A thread makes the calls of its role only, and one that posts has a     *)
(* message until it returns.                                               *)
Calls ==
  \A t \in Thread :
    /\ op[t] \in {"none", Role[t]} \/ (op[t] = "repost" /\ Role[t] = "replace")
    /\ op[t] \in {"post", "replace", "repost"} => msg[t] \in Message

(* The place i places after p, and what next makes of it. *)
Place(p, i) == IF p + i < SIZE THEN p + i ELSE p + i - SIZE

LEMMA Places ==
  /\ TypeOK => \A i \in 0 .. SIZE : Position(i) = Place(rdptr, i)
  /\ \A p \in 0 .. SIZE - 1 : next(p) = Place(p, 1)
  /\ \A p \in 0 .. SIZE - 1, i \in 0 .. SIZE - 1 :
        Place(p, i) \in 0 .. SIZE - 1 /\ Place(next(p), i) = Place(p, i + 1)
  /\ \A p \in 0 .. SIZE - 1 : Place(p, 0) = p /\ Place(p, SIZE) = p
<1>1. TypeOK => \A i \in 0 .. SIZE : Position(i) = Place(rdptr, i)
  BY Wraps DEF TypeOK, Position, Place
<1>3. \A p \in 0 .. SIZE - 1 : next(p) = Place(p, 1)
  BY MailboxAssumption DEF next, Place
<1>4. \A p \in 0 .. SIZE - 1, i \in 0 .. SIZE - 1 :
         Place(p, i) \in 0 .. SIZE - 1 /\ Place(next(p), i) = Place(p, i + 1)
  BY MailboxAssumption DEF next, Place
<1>5. \A p \in 0 .. SIZE - 1 : Place(p, 0) = p /\ Place(p, SIZE) = p
  BY MailboxAssumption DEF Place
<1> QED BY <1>1, <1>3, <1>4, <1>5

\* The tail of a sequence as a function: every element one place earlier.
LEMMA TailAsFunction ==
  ASSUME NEW S, NEW q \in Seq(S), q # <<>>
  PROVE  Tail(q) = [k \in 1 .. Len(q) - 1 |-> q[k + 1]]
<1> DEFINE u == Tail(q)
<1>1. u \in Seq(S) /\ Len(u) = Len(q) - 1
      /\ \A i \in 1 .. Len(u) : u[i] = q[i + 1]
  BY HeadTailProperties
<1> HIDE DEF u
<1>2. u = [k \in 1 .. Len(q) - 1 |-> u[k]]
  BY <1>1
<1>3. u = [k \in 1 .. Len(q) - 1 |-> q[k + 1]]
  BY <1>1, <1>2
<1> QED
  BY <1>3 DEF u

\* It is a place, and another one for another i.
LEMMA PlaceApart ==
  ASSUME NEW p \in 0 .. SIZE - 1, NEW i \in 0 .. SIZE - 1
  PROVE  /\ Place(p, i) \in 0 .. SIZE - 1
         /\ \A j \in 0 .. SIZE - 1 : Place(p, i) = Place(p, j) => i = j
  BY MailboxAssumption DEF Place

(* LiveExactly and Contents in these terms. *)
Live(s, r, w, c) ==
  w = Place(r, c) /\ \A i \in 0 .. SIZE - 1 : (s[Place(r, i)] # NoMessage) <=> i < c

LEMMA LiveAt ==
  TypeOK => /\ LiveExactly <=> Live(storage, rdptr, wrptr, cnt)
            /\ Contents = [i \in 1 .. cnt |-> storage[Place(rdptr, i - 1)]]
<1> SUFFICES ASSUME TypeOK
             PROVE  /\ LiveExactly <=> Live(storage, rdptr, wrptr, cnt)
                    /\ Contents = [i \in 1 .. cnt |-> storage[Place(rdptr, i - 1)]]
  OBVIOUS
<1>1. \A i \in 0 .. SIZE : Position(i) = Place(rdptr, i)
  BY Places
<1>2. SIZE \in Nat \ {0} /\ cnt \in 0 .. SIZE
  BY MailboxAssumption DEF TypeOK
<1>3. \A i \in 1 .. cnt : Position(i - 1) = Place(rdptr, i - 1)
  BY <1>1, <1>2
<1>4. Position(cnt) = Place(rdptr, cnt)
  BY <1>1, <1>2
<1>5. \A i \in 0 .. SIZE - 1 : Position(i) = Place(rdptr, i)
  BY <1>1, <1>2
<1>6. LiveExactly <=> Live(storage, rdptr, wrptr, cnt)
  BY <1>4, <1>5 DEF LiveExactly, Live
<1> QED
  BY <1>3, <1>6 DEF Contents

\* The same of the next state.
LEMMA LiveNext ==
  (TypeOK => /\ LiveExactly <=> Live(storage, rdptr, wrptr, cnt)
             /\ Contents = [i \in 1 .. cnt |-> storage[Place(rdptr, i - 1)]])'
  BY LiveAt, PTL

\* The stored messages are a sequence of cnt.
LEMMA Stored ==
  TypeOK => Contents \in Seq(Message \union {NoMessage}) /\ Len(Contents) = cnt
<1> SUFFICES ASSUME TypeOK
             PROVE  Contents \in Seq(Message \union {NoMessage}) /\ Len(Contents) = cnt
  OBVIOUS
<1>1. /\ SIZE \in Nat \ {0} /\ cnt \in 0 .. SIZE /\ rdptr \in 0 .. SIZE - 1
      /\ storage \in [0 .. SIZE - 1 -> Message \union {NoMessage}]
  BY MailboxAssumption DEF TypeOK
<1>2. Contents = [i \in 1 .. cnt |-> storage[Place(rdptr, i - 1)]]
  BY LiveAt
<1>3. ASSUME NEW i \in 1 .. cnt
      PROVE  storage[Place(rdptr, i - 1)] \in Message \union {NoMessage}
  <2>1. i - 1 \in 0 .. SIZE - 1
    BY <1>1
  <2> QED BY <1>1, <2>1, PlaceApart
<1> QED BY <1>1, <1>2, <1>3

\* A post fills the first free place.
LEMMA PutFills ==
  ASSUME TypeOK, TypeOK', LiveExactly, NEW t \in Thread, freeCount > 0, msg[t] \in Message, put(t)
  PROVE  LiveExactly' /\ Contents' = Append(Contents, msg[t])
<1> DEFINE m == msg[t]
<1>1. /\ SIZE \in Nat \ {0} /\ cnt \in 0 .. SIZE - 1 /\ rdptr \in 0 .. SIZE - 1
      /\ wrptr \in 0 .. SIZE - 1 /\ storage \in [0 .. SIZE - 1 -> Message \union {NoMessage}]
      /\ rdptr' = rdptr /\ cnt' = cnt + 1 /\ wrptr' = next(wrptr)
      /\ storage' = [storage EXCEPT ![wrptr] = m]
  BY MailboxAssumption DEF TypeOK, freeCount, put
<1>2. wrptr = Place(rdptr, cnt)
      /\ \A i \in 0 .. SIZE - 1 : (storage[Place(rdptr, i)] # NoMessage) <=> i < cnt
  BY LiveAt DEF Live
<1>3. wrptr' = Place(rdptr, cnt + 1)
  <2>1. Place(next(rdptr), cnt) = Place(rdptr, cnt + 1)
    BY <1>1, Places
  <2> QED BY <1>1, <1>2, <2>1 DEF Place, next
<1>4. \A i \in 0 .. SIZE - 1 : storage'[Place(rdptr, i)] = IF i = cnt THEN m
                                                           ELSE storage[Place(rdptr, i)]
  <2> TAKE i \in 0 .. SIZE - 1
  <2>1. Place(rdptr, i) \in 0 .. SIZE - 1 /\ (Place(rdptr, i) = wrptr => i = cnt)
    BY <1>1, <1>2, PlaceApart
  <2> QED BY <1>1, <1>2, <2>1
<1>5. Live(storage', rdptr', wrptr', cnt')
  <2>1. \A i \in 0 .. SIZE - 1 : (storage'[Place(rdptr, i)] # NoMessage) <=> i < cnt + 1
    BY <1>1, <1>2, <1>4, MessageAssumption
  <2> QED BY <1>1, <1>3, <2>1 DEF Live
<1>6. Contents' = [i \in 1 .. cnt + 1 |-> storage'[Place(rdptr, i - 1)]]
  BY <1>1, LiveNext
<1>7. Contents = [i \in 1 .. cnt |-> storage[Place(rdptr, i - 1)]]
  BY LiveAt
<1>8. Append(Contents, m) = [i \in 1 .. cnt + 1 |-> IF i = cnt + 1 THEN m
                                                    ELSE storage[Place(rdptr, i - 1)]]
  <2>1. Contents \in Seq(Message \union {NoMessage}) /\ Len(Contents) = cnt
    BY Stored
  <2>2. Append(Contents, m) = [i \in 1 .. cnt + 1 |-> IF i = cnt + 1 THEN m ELSE Contents[i]]
    BY <1>1, <2>1 DEF Append
  <2> QED BY <1>1, <1>7, <2>2
<1>9. \A i \in 1 .. cnt + 1 : storage'[Place(rdptr, i - 1)] = IF i = cnt + 1 THEN m
                                                              ELSE storage[Place(rdptr, i - 1)]
  BY <1>1, <1>4
<1>10. Contents' = Append(Contents, m)
  BY <1>6, <1>8, <1>9
<1> QED BY <1>5, <1>10, LiveNext

\* A fetch empties the first place that is filled.
LEMMA TakeEmpties ==
  ASSUME TypeOK, TypeOK', LiveExactly, NEW t \in Thread, cnt > 0, take(t)
  PROVE  LiveExactly' /\ Contents' = Tail(Contents) /\ Contents # <<>>
         /\ storage[rdptr] = Head(Contents) /\ storage[rdptr] \in Message
<1>1. /\ SIZE \in Nat \ {0} /\ cnt \in 1 .. SIZE /\ rdptr \in 0 .. SIZE - 1
      /\ storage \in [0 .. SIZE - 1 -> Message \union {NoMessage}]
      /\ rdptr' = next(rdptr) /\ cnt' = cnt - 1 /\ wrptr' = wrptr
      /\ storage' = [storage EXCEPT ![rdptr] = NoMessage]
  BY MailboxAssumption DEF TypeOK, take
<1>2. wrptr = Place(rdptr, cnt)
      /\ \A i \in 0 .. SIZE - 1 : (storage[Place(rdptr, i)] # NoMessage) <=> i < cnt
  BY LiveAt DEF Live
<1>3. \A i \in 0 .. SIZE - 1 : Place(rdptr', i) = Place(rdptr, i + 1)
  BY <1>1, Places
<1>4. Place(rdptr, 0) = rdptr /\ Place(rdptr, SIZE) = rdptr
  BY <1>1, Places
<1>5. \A i \in 1 .. SIZE - 1 : Place(rdptr, i) \in 0 .. SIZE - 1 /\ Place(rdptr, i) # rdptr
  <2> TAKE i \in 1 .. SIZE - 1
  <2>1. i \in 0 .. SIZE - 1 /\ 0 \in 0 .. SIZE - 1 /\ i # 0
    BY <1>1
  <2> QED BY <1>1, <1>4, <2>1, PlaceApart
<1>6. \A i \in 1 .. SIZE : storage'[Place(rdptr, i)] = IF i = SIZE THEN NoMessage
                                                       ELSE storage[Place(rdptr, i)]
  <2> TAKE i \in 1 .. SIZE
  <2>1. CASE i = SIZE
    BY <1>1, <1>4, <2>1
  <2>2. CASE i # SIZE
    <3>1. i \in 1 .. SIZE - 1
      BY <1>1, <2>2
    <3> QED BY <1>1, <1>5, <2>2, <3>1
  <2> QED BY <2>1, <2>2
<1>7. Live(storage', rdptr', wrptr', cnt')
  <2>1. wrptr' = Place(rdptr', cnt')
    <3>1. cnt - 1 \in 0 .. SIZE - 1 /\ (cnt - 1) + 1 = cnt
      BY <1>1
    <3> QED BY <1>1, <1>2, <1>3, <3>1
  <2>2. ASSUME NEW i \in 0 .. SIZE - 1
        PROVE  (storage'[Place(rdptr', i)] # NoMessage) <=> i < cnt'
    <3>1. storage'[Place(rdptr', i)] = IF i + 1 = SIZE THEN NoMessage
                                       ELSE storage[Place(rdptr, i + 1)]
      BY <1>1, <1>3, <1>6
    <3>2. CASE i + 1 = SIZE
      BY <1>1, <3>1, <3>2
    <3>3. CASE i + 1 # SIZE
      <4>1. i + 1 \in 0 .. SIZE - 1
        BY <1>1, <3>3
      <4>2. (storage[Place(rdptr, i + 1)] # NoMessage) <=> i + 1 < cnt
        BY <1>2, <4>1
      <4> QED BY <1>1, <3>1, <3>3, <4>2
    <3> QED BY <3>2, <3>3
  <2> QED BY <2>1, <2>2 DEF Live
<1>8. Contents = [i \in 1 .. cnt |-> storage[Place(rdptr, i - 1)]]
  BY LiveAt
<1>9. Contents \in Seq(Message \union {NoMessage}) /\ Len(Contents) = cnt
  BY Stored
<1>10. storage[rdptr] = Head(Contents) /\ Contents # <<>>
  BY <1>1, <1>4, <1>8, <1>9
<1>11. storage[rdptr] \in Message
  <2>1. storage[Place(rdptr, 0)] # NoMessage
    BY <1>1, <1>2
  <2> QED BY <1>1, <1>4, <2>1
<1>12. Contents' = [i \in 1 .. cnt - 1 |-> storage'[Place(rdptr', i - 1)]]
  BY <1>1, LiveNext
<1>13. \A i \in 1 .. cnt - 1 : storage'[Place(rdptr', i - 1)] = storage[Place(rdptr, i)]
  <2> TAKE i \in 1 .. cnt - 1
  <2>1. i - 1 \in 0 .. SIZE - 1 /\ (i - 1) + 1 = i /\ i \in 1 .. SIZE /\ i # SIZE
    BY <1>1
  <2> QED BY <1>3, <1>6, <2>1
<1>14. Tail(Contents) = [i \in 1 .. cnt - 1 |-> storage[Place(rdptr, i)]]
  <2>1. Tail(Contents) = [i \in 1 .. cnt - 1 |-> Contents[i + 1]]
    BY <1>1, <1>9, TailAsFunction
  <2>2. \A i \in 1 .. cnt - 1 : Contents[i + 1] = storage[Place(rdptr, i)]
    <3> TAKE i \in 1 .. cnt - 1
    <3>1. i + 1 \in 1 .. cnt /\ (i + 1) - 1 = i
      BY <1>1
    <3> QED BY <1>8, <3>1
  <2> QED BY <2>1, <2>2
<1> QED BY <1>7, <1>10, <1>11, <1>12, <1>13, <1>14, LiveNext

-----------------------------------------------------------------------------
\* The types are kept, with what a thread in a call has.
LEMMA CallsKept == TypeOK /\ Calls /\ [Next]_vars => TypeOK' /\ Calls'
<1> SUFFICES ASSUME TypeOK, Calls, [Next]_vars PROVE TypeOK' /\ Calls'
  OBVIOUS
<1> DEFINE Value == Message \union {NoMessage}
<1>1. ASSUME NEW t \in Thread, NEW r \in {"ok", "timeout"}, Return(t, r)
      PROVE  /\ op' \in [Thread -> {"none", "post", "fetch", "replace", "repost"}]
             /\ msg' \in [Thread -> Value] /\ patient' \in [Thread -> BOOLEAN]
             /\ result' \in [Thread -> {"ok", "timeout"}] /\ Calls'
  BY <1>1 DEF TypeOK, Return, Calls
<1>2. wrptr \in 0 .. SIZE - 1 /\ rdptr \in 0 .. SIZE - 1
      /\ next(wrptr) \in 0 .. SIZE - 1 /\ next(rdptr) \in 0 .. SIZE - 1
  BY MailboxAssumption DEF next, TypeOK
<1>3. Dequeue(qr) \in Seq(Thread) /\ Dequeue(qw) \in Seq(Thread)
  BY Woken DEF TypeOK
<1>4. ASSUME NEW t \in Thread, take(t), cnt > 0
      PROVE  /\ storage' \in [0 .. SIZE - 1 -> Value] /\ wrptr' \in 0 .. SIZE - 1
             /\ rdptr' \in 0 .. SIZE - 1 /\ cnt' \in 0 .. SIZE
             /\ qw' \in Seq(Thread) /\ qr' \in Seq(Thread) /\ got' \in [Thread -> Value]
  BY <1>2, <1>3, <1>4, MailboxAssumption DEF take, TypeOK
<1>5. ASSUME NEW t \in Thread, Call(t) PROVE TypeOK' /\ Calls'
  BY <1>5, MailboxAssumption DEF Call, TypeOK, Calls, queue
<1>6. ASSUME NEW t \in Thread, Post(t) PROVE TypeOK' /\ Calls'
  <2>1. op[t] \in {"post", "repost"} /\ msg[t] \in Message
    BY <1>6 DEF Post, Running, Calls
  <2>2. /\ storage' \in [0 .. SIZE - 1 -> Value] /\ wrptr' \in 0 .. SIZE - 1
        /\ rdptr' \in 0 .. SIZE - 1 /\ cnt' \in 0 .. SIZE
        /\ qw' \in Seq(Thread) /\ qr' \in Seq(Thread) /\ got' \in [Thread -> Value]
    BY <1>2, <1>3, <1>6, <2>1, MailboxAssumption DEF Post, put, freeCount, TypeOK
  <2>3. Return(t, "ok")
    BY <1>6 DEF Post
  <2> QED BY <1>1, <2>2, <2>3 DEF TypeOK
<1>7. ASSUME NEW t \in Thread, PostFails(t) \/ FetchFails(t) PROVE TypeOK' /\ Calls'
  <2>1. Return(t, "timeout") /\ UNCHANGED <<queue, qw, qr, got>>
    BY <1>7 DEF PostFails, FetchFails
  <2> QED BY <1>1, <2>1 DEF TypeOK, queue
<1>8. ASSUME NEW t \in Thread, PostSleeps(t) \/ FetchSleeps(t) PROVE TypeOK' /\ Calls'
  <2>1. Append(qw, t) \in Seq(Thread) /\ Append(qr, t) \in Seq(Thread)
    BY DEF TypeOK
  <2>2. CASE PostSleeps(t)
    <3>1. /\ qw' = Append(qw, t)
          /\ UNCHANGED <<storage, wrptr, rdptr, cnt, qr, op, msg, patient, got, result>>
      BY <2>2 DEF PostSleeps, queue, callvars
    <3> QED BY <2>1, <3>1 DEF TypeOK, Calls
  <2>3. CASE FetchSleeps(t)
    <3>1. /\ qr' = Append(qr, t)
          /\ UNCHANGED <<storage, wrptr, rdptr, cnt, qw, op, msg, patient, got, result>>
      BY <2>3 DEF FetchSleeps, queue, callvars
    <3> QED BY <2>1, <3>1 DEF TypeOK, Calls
  <2> QED BY <1>8, <2>2, <2>3
<1>9. ASSUME NEW t \in Thread, Fetch(t) PROVE TypeOK' /\ Calls'
  <2>1. take(t) /\ cnt > 0 /\ Return(t, "ok")
    BY <1>9 DEF Fetch
  <2> QED BY <1>1, <1>4, <2>1 DEF TypeOK
<1>10. ASSUME NEW t \in Thread, Replace(t) PROVE TypeOK' /\ Calls'
  <2>1. /\ op' \in [Thread -> {"none", "post", "fetch", "replace", "repost"}]
        /\ msg' = msg /\ patient' = patient /\ result' = result /\ Calls'
    BY <1>10, MailboxAssumption DEF Replace, Running, TypeOK, Calls
  <2>2. CASE cnt > 0
    <3>1. take(t)
      BY <1>10, <2>2 DEF Replace, Discard
    <3> QED BY <1>4, <2>1, <2>2, <3>1 DEF TypeOK
  <2>3. CASE ~(cnt > 0)
    <3>1. UNCHANGED <<queue, qw, qr, got>>
      BY <1>10, <2>3 DEF Replace, Discard
    <3> QED BY <2>1, <3>1 DEF TypeOK, queue
  <2> QED BY <2>2, <2>3
<1>11. ASSUME NEW t \in Thread, TimesOut(t) PROVE TypeOK' /\ Calls'
  <2>1. qw' \in Seq(Thread) /\ qr' \in Seq(Thread)
    BY <1>11, TimedOut DEF TimesOut, TypeOK
  <2>2. Return(t, "timeout") /\ UNCHANGED <<queue, got>>
    BY <1>11 DEF TimesOut
  <2> QED BY <1>1, <2>1, <2>2 DEF TypeOK, queue
<1>12. CASE UNCHANGED vars
  BY <1>12 DEF vars, queue, callvars, TypeOK, Calls
<1> QED
  BY <1>5, <1>6, <1>7, <1>8, <1>9, <1>10, <1>11, <1>12 DEF Next, Turn

\* So is the storage.
LEMMA LiveKept == TypeOK /\ Calls /\ LiveExactly /\ [Next]_vars => LiveExactly'
<1> SUFFICES ASSUME TypeOK, Calls, LiveExactly, [Next]_vars PROVE LiveExactly'
  OBVIOUS
<1>1. TypeOK'
  BY CallsKept
<1>2. ASSUME NEW t \in Thread, Post(t) PROVE LiveExactly'
  BY <1>1, <1>2, PutFills DEF Post, Running, Calls
<1>3. ASSUME NEW t \in Thread, cnt > 0, take(t) PROVE LiveExactly'
  BY <1>1, <1>3, TakeEmpties
<1>4. ASSUME UNCHANGED queue PROVE LiveExactly'
  BY <1>4 DEF queue, Position, LiveExactly
<1> QED
  BY <1>2, <1>3, <1>4 DEF Next, Call, Turn, PostFails, PostSleeps, Fetch, FetchFails,
     FetchSleeps, Replace, Discard, TimesOut, vars

-----------------------------------------------------------------------------
(* The queues of sleepers, as sets of threads. *)
Distinct(q) == \A i, j \in DOMAIN q : q[i] = q[j] => i = j

\* A wake-up takes the first.
LEMMA WokenLeaves ==
  ASSUME NEW q \in Seq(Thread), Distinct(q), q # <<>>
  PROVE  /\ Distinct(Dequeue(q)) /\ q[1] \in Thread /\ InQueue(q, q[1])
         /\ \A u : InQueue(Dequeue(q), u) <=> InQueue(q, u) /\ u # q[1]
<1>1. /\ \A i \in DOMAIN Dequeue(q) : i + 1 \in DOMAIN q /\ Dequeue(q)[i] = q[i + 1]
      /\ \A i \in DOMAIN q : i # 1 => i - 1 \in DOMAIN Dequeue(q) /\ Dequeue(q)[i - 1] = q[i]
      /\ 1 \in DOMAIN q /\ q[1] \in Thread
  BY Woken
<1>2. DOMAIN Dequeue(q) \subseteq Nat \ {0} /\ DOMAIN q \subseteq Nat \ {0}
  BY Woken
<1>3. Distinct(Dequeue(q))
  <2> SUFFICES ASSUME NEW i \in DOMAIN Dequeue(q), NEW j \in DOMAIN Dequeue(q),
                      Dequeue(q)[i] = Dequeue(q)[j]
               PROVE  i = j
    BY DEF Distinct
  <2>1. i + 1 = j + 1
    BY <1>1 DEF Distinct
  <2> QED BY <1>2, <2>1
<1>4. ASSUME NEW u, InQueue(Dequeue(q), u) PROVE InQueue(q, u) /\ u # q[1]
  <2>1. PICK i \in DOMAIN Dequeue(q) : Dequeue(q)[i] = u
    BY <1>4 DEF InQueue
  <2>2. i + 1 \in DOMAIN q /\ q[i + 1] = u /\ i + 1 # 1
    BY <1>1, <1>2, <2>1
  <2> QED BY <1>1, <2>2 DEF InQueue, Distinct
<1>5. ASSUME NEW u, InQueue(q, u), u # q[1] PROVE InQueue(Dequeue(q), u)
  <2>1. PICK i \in DOMAIN q : q[i] = u
    BY <1>5 DEF InQueue
  <2>2. i - 1 \in DOMAIN Dequeue(q) /\ Dequeue(q)[i - 1] = u
    BY <1>1, <1>5, <2>1
  <2> QED BY <2>2 DEF InQueue
<1>6. InQueue(q, q[1])
  BY <1>1 DEF InQueue
<1> QED BY <1>1, <1>3, <1>4, <1>5, <1>6

\* A timer takes its own thread.
LEMMA TimedOutLeaves ==
  ASSUME NEW q \in Seq(Thread), Distinct(q), NEW i \in DOMAIN q
  PROVE  /\ Distinct(Without(q, i)) /\ InQueue(q, q[i])
         /\ \A u : InQueue(Without(q, i), u) <=> InQueue(q, u) /\ u # q[i]
<1> DEFINE w == Without(q, i)
<1>1. /\ w \in Seq(Thread)
      /\ \A j \in DOMAIN w :
            \E k \in DOMAIN q : k # i /\ w[j] = q[k] /\ k = IF j < i THEN j ELSE j + 1
      /\ \A k \in DOMAIN q : k # i => \E j \in DOMAIN w : w[j] = q[k]
  BY TimedOut
<1> HIDE DEF w
<1>2. DOMAIN w \subseteq Nat /\ DOMAIN q \subseteq Nat
  BY <1>1
<1>3. Distinct(w)
  <2> SUFFICES ASSUME NEW j \in DOMAIN w, NEW l \in DOMAIN w, w[j] = w[l]
               PROVE  j = l
    BY DEF Distinct
  <2>1. PICK k \in DOMAIN q : w[j] = q[k] /\ k = IF j < i THEN j ELSE j + 1
    BY <1>1
  <2>2. PICK m \in DOMAIN q : w[l] = q[m] /\ m = IF l < i THEN l ELSE l + 1
    BY <1>1
  <2>3. k = m
    BY <2>1, <2>2 DEF Distinct
  <2> QED BY <1>2, <2>1, <2>2, <2>3
<1>4. ASSUME NEW u, InQueue(w, u) PROVE InQueue(q, u) /\ u # q[i]
  BY <1>1, <1>4 DEF InQueue, Distinct
<1>5. ASSUME NEW u, InQueue(q, u), u # q[i] PROVE InQueue(w, u)
  BY <1>1, <1>5 DEF InQueue
<1> QED BY <1>3, <1>4, <1>5 DEF InQueue, w

\* A thread that goes to sleep joins at the end.
LEMMA AppendedJoins ==
  ASSUME NEW q \in Seq(Thread), Distinct(q), NEW t \in Thread, ~InQueue(q, t)
  PROVE  /\ Distinct(Append(q, t))
         /\ \A u : InQueue(Append(q, t), u) <=> InQueue(q, u) \/ u = t
<1> DEFINE a == Append(q, t)
           n == Len(q) + 1
<1>1. /\ DOMAIN a = DOMAIN q \union {n} /\ n \notin DOMAIN q
      /\ a[n] = t /\ \A j \in DOMAIN q : a[j] = q[j]
  OBVIOUS
<1> HIDE DEF a, n
<1>2. Distinct(a)
  BY <1>1 DEF Distinct, InQueue
<1>3. \A u : InQueue(a, u) <=> InQueue(q, u) \/ u = t
  BY <1>1 DEF InQueue
<1> QED BY <1>2, <1>3 DEF a

(* SleepersInOrder in these terms. *)
LEMMA Sleepers ==
  SleepersInOrder <=> /\ Distinct(qw) /\ Distinct(qr)
                      /\ \A t : InQueue(qw, t) => op[t] = "post" /\ patient[t]
                      /\ \A t : InQueue(qr, t) => op[t] = "fetch" /\ patient[t]
  BY DEF SleepersInOrder, Distinct, InQueue

\* The same of the next state.
LEMMA SleepersNext ==
  (SleepersInOrder <=> /\ Distinct(qw) /\ Distinct(qr)
                       /\ \A t : InQueue(qw, t) => op[t] = "post" /\ patient[t]
                       /\ \A t : InQueue(qr, t) => op[t] = "fetch" /\ patient[t])'
  BY Sleepers, PTL

\* The sleepers are kept in order.
LEMMA SleepersKept == TypeOK /\ SleepersInOrder /\ [Next]_vars => SleepersInOrder'
<1> SUFFICES ASSUME TypeOK, SleepersInOrder, [Next]_vars PROVE SleepersInOrder'
  OBVIOUS
<1> DEFINE Writers(q, o, p) == \A t : InQueue(q, t) => o[t] = "post" /\ p[t]
           Readers(q, o, p) == \A t : InQueue(q, t) => o[t] = "fetch" /\ p[t]
<1>1. /\ qw \in Seq(Thread) /\ qr \in Seq(Thread)
      /\ op \in [Thread -> {"none", "post", "fetch", "replace", "repost"}]
      /\ patient \in [Thread -> BOOLEAN]
  BY DEF TypeOK
<1>2. Distinct(qw) /\ Distinct(qr) /\ Writers(qw, op, patient) /\ Readers(qr, op, patient)
  BY Sleepers
<1>3. ASSUME Distinct(qw)', Distinct(qr)', Writers(qw', op', patient'), Readers(qr', op', patient')
      PROVE  SleepersInOrder'
  BY <1>3, SleepersNext
<1>4. ASSUME NEW q \in Seq(Thread), Distinct(q)
      PROVE  Distinct(Dequeue(q)) /\ \A u : InQueue(Dequeue(q), u) => InQueue(q, u)
  <2>1. CASE q = <<>>
    BY <1>4, <2>1 DEF Dequeue
  <2>2. CASE q # <<>>
    BY <1>4, <2>2, WokenLeaves
  <2> QED BY <2>1, <2>2
<1>5. \A t : InQueue(qw, t) \/ InQueue(qr, t) => t \in Thread
  BY <1>1 DEF InQueue
<1>6. ASSUME NEW t \in Thread, ~Asleep(t),
             Distinct(qw'), Distinct(qr'),
             \A u : InQueue(qw', u) => InQueue(qw, u), \A u : InQueue(qr', u) => InQueue(qr, u),
             \A u \in Thread : u # t => op'[u] = op[u] /\ patient'[u] = patient[u]
      PROVE  SleepersInOrder'
  <2>1. Writers(qw', op', patient') /\ Readers(qr', op', patient')
    BY <1>2, <1>5, <1>6 DEF Asleep
  <2> QED BY <1>3, <1>6, <2>1 DEF Distinct
<1>7. ASSUME NEW t \in Thread, Call(t) PROVE SleepersInOrder'
  <2>1. op[t] = "none" /\ UNCHANGED <<qw, qr>>
        /\ \A u \in Thread : u # t => op'[u] = op[u] /\ patient'[u] = patient[u]
    BY <1>1, <1>7 DEF Call
  <2>2. ~Asleep(t)
    BY <1>2, <2>1 DEF Asleep
  <2> QED BY <1>2, <1>6, <2>1, <2>2
<1>8. ASSUME NEW t \in Thread, NEW r, Return(t, r)
      PROVE  \A u \in Thread : u # t => op'[u] = op[u] /\ patient'[u] = patient[u]
  BY <1>1, <1>8 DEF Return
<1>9. ASSUME NEW t \in Thread, Post(t) \/ PostFails(t) \/ Fetch(t) \/ FetchFails(t) \/ Replace(t)
      PROVE  SleepersInOrder'
  <2>1. ~Asleep(t)
    BY <1>9 DEF Post, PostFails, Fetch, FetchFails, Replace, Running
  <2>2. \A u \in Thread : u # t => op'[u] = op[u] /\ patient'[u] = patient[u]
    <3>1. CASE Replace(t)
      BY <1>1, <3>1 DEF Replace
    <3>2. CASE ~Replace(t)
      BY <1>8, <1>9, <3>2 DEF Post, PostFails, Fetch, FetchFails
    <3> QED BY <3>1, <3>2
  <2>3. (qw' = qw \/ qw' = Dequeue(qw)) /\ (qr' = qr \/ qr' = Dequeue(qr))
    BY <1>9 DEF Post, PostFails, Fetch, FetchFails, Replace, Discard, put, take
  <2>4. Distinct(qw') /\ Distinct(qr') /\ (\A u : InQueue(qw', u) => InQueue(qw, u))
        /\ \A u : InQueue(qr', u) => InQueue(qr, u)
    BY <1>1, <1>2, <1>4, <2>3
  <2> QED BY <1>6, <2>1, <2>2, <2>4
<1>10. ASSUME NEW t \in Thread, PostSleeps(t) PROVE SleepersInOrder'
  <2>1. op[t] = "post" /\ patient[t] /\ ~InQueue(qw, t)
        /\ qw' = Append(qw, t) /\ UNCHANGED <<qr, op, patient>>
    BY <1>10 DEF PostSleeps, Running, Asleep, callvars
  <2>2. Distinct(qw') /\ \A u : InQueue(qw', u) <=> InQueue(qw, u) \/ u = t
    BY <1>1, <1>2, <2>1, AppendedJoins
  <2>3. Writers(qw', op', patient') /\ Readers(qr', op', patient')
    BY <1>2, <2>1, <2>2
  <2> QED BY <1>2, <1>3, <2>1, <2>2, <2>3 DEF Distinct
<1>11. ASSUME NEW t \in Thread, FetchSleeps(t) PROVE SleepersInOrder'
  <2>1. op[t] = "fetch" /\ patient[t] /\ ~InQueue(qr, t)
        /\ qr' = Append(qr, t) /\ UNCHANGED <<qw, op, patient>>
    BY <1>11 DEF FetchSleeps, Running, Asleep, callvars
  <2>2. Distinct(qr') /\ \A u : InQueue(qr', u) <=> InQueue(qr, u) \/ u = t
    BY <1>1, <1>2, <2>1, AppendedJoins
  <2>3. Writers(qw', op', patient') /\ Readers(qr', op', patient')
    BY <1>2, <2>1, <2>2
  <2> QED BY <1>2, <1>3, <2>1, <2>2, <2>3 DEF Distinct
<1>12. ASSUME NEW t \in Thread, TimesOut(t) PROVE SleepersInOrder'
  <2>1. \A u \in Thread : u # t => op'[u] = op[u] /\ patient'[u] = patient[u]
    BY <1>8, <1>12 DEF TimesOut
  <2>2. CASE \E i \in DOMAIN qw : qw[i] = t /\ qw' = Without(qw, i) /\ qr' = qr
    <3>1. Distinct(qw') /\ InQueue(qw, t) /\ \A u : InQueue(qw', u) <=> InQueue(qw, u) /\ u # t
      BY <1>1, <1>2, <2>2, TimedOutLeaves
    <3>2. \A u : InQueue(qr', u) => u # t
      BY <1>2, <2>2, <3>1
    <3>3. Writers(qw', op', patient') /\ Readers(qr', op', patient')
      BY <1>2, <1>5, <2>1, <2>2, <3>1, <3>2
    <3> QED BY <1>2, <1>3, <2>2, <3>1, <3>3 DEF Distinct
  <2>3. CASE \E i \in DOMAIN qr : qr[i] = t /\ qr' = Without(qr, i) /\ qw' = qw
    <3>1. Distinct(qr') /\ InQueue(qr, t) /\ \A u : InQueue(qr', u) <=> InQueue(qr, u) /\ u # t
      BY <1>1, <1>2, <2>3, TimedOutLeaves
    <3>2. \A u : InQueue(qw', u) => u # t
      BY <1>2, <2>3, <3>1
    <3>3. Writers(qw', op', patient') /\ Readers(qr', op', patient')
      BY <1>2, <1>5, <2>1, <2>3, <3>1, <3>2
    <3> QED BY <1>2, <1>3, <2>3, <3>1, <3>3 DEF Distinct
  <2> QED BY <1>12, <2>2, <2>3 DEF TimesOut
<1>13. CASE UNCHANGED vars
  BY <1>2, <1>3, <1>13 DEF vars, callvars, Distinct
<1> QED
  BY <1>7, <1>9, <1>10, <1>11, <1>12, <1>13 DEF Next, Turn

-----------------------------------------------------------------------------
\* What a set of threads that loses or wins one still counts.
LEMMA Counts ==
  ASSUME NEW S \in SUBSET Thread, NEW T \in SUBSET Thread
  PROVE  /\ Cardinality(S) \in Nat /\ Cardinality(T) \in Nat
         /\ S \subseteq T => Cardinality(S) <= Cardinality(T)
         /\ \A t : S \ {t} \subseteq T => Cardinality(S) - 1 <= Cardinality(T)
         /\ \A t \in T : t \notin S /\ S \subseteq T => Cardinality(S) + 1 <= Cardinality(T)
<1>1. IsFiniteSet(S) /\ IsFiniteSet(T)
  BY MailboxAssumption, FS_Subset
<1>2. Cardinality(S) \in Nat /\ Cardinality(T) \in Nat
  BY <1>1, FS_CardinalityType
<1>3. S \subseteq T => Cardinality(S) <= Cardinality(T)
  BY <1>1, FS_Subset
<1>4. ASSUME NEW t, S \ {t} \subseteq T PROVE Cardinality(S) - 1 <= Cardinality(T)
  <2>1. Cardinality(S \ {t}) <= Cardinality(T)
    BY <1>1, <1>4, FS_Subset
  <2>2. Cardinality(S \ {t}) = IF t \in S THEN Cardinality(S) - 1 ELSE Cardinality(S)
    BY <1>1, FS_RemoveElement
  <2> QED BY <1>2, <2>1, <2>2
<1>5. ASSUME NEW t \in T, t \notin S, S \subseteq T PROVE Cardinality(S) + 1 <= Cardinality(T)
  <2>1. Cardinality(S \union {t}) = Cardinality(S) + 1
    BY <1>1, <1>5, FS_AddElement
  <2>2. S \union {t} \subseteq T
    BY <1>5
  <2>3. Cardinality(S \union {t}) <= Cardinality(T)
    BY <1>1, <2>2, FS_Subset
  <2> QED BY <1>2, <2>1, <2>3
<1> QED BY <1>2, <1>3, <1>4, <1>5

(* NoLostWakeup is kept: a message that is put adds a ready fetch when     *)
(* somebody sleeps for one, and the thread that takes it had its own       *)
(* place among the ready; the same of the free places.                     *)
LEMMA WakeupsKept ==
  TypeOK /\ SleepersInOrder /\ NoLostWakeup /\ [Next]_vars => NoLostWakeup'
<1> SUFFICES ASSUME TypeOK, SleepersInOrder, NoLostWakeup, [Next]_vars PROVE NoLostWakeup'
  OBVIOUS
<1> DEFINE F == ReadyTo({"fetch", "replace"})
           P == ReadyTo({"post", "repost"})
<1>1. /\ qw \in Seq(Thread) /\ qr \in Seq(Thread) /\ cnt \in 0 .. SIZE
      /\ op \in [Thread -> {"none", "post", "fetch", "replace", "repost"}]
      /\ SIZE \in Nat \ {0}
  BY MailboxAssumption DEF TypeOK
<1>2. /\ F = {t \in Thread : op[t] \in {"fetch", "replace"} /\ ~InQueue(qw, t) /\ ~InQueue(qr, t)}
      /\ F' = {t \in Thread : /\ op'[t] \in {"fetch", "replace"}
                              /\ ~InQueue(qw', t) /\ ~InQueue(qr', t)}
      /\ P = {t \in Thread : op[t] \in {"post", "repost"} /\ ~InQueue(qw, t) /\ ~InQueue(qr, t)}
      /\ P' = {t \in Thread : op'[t] \in {"post", "repost"} /\ ~InQueue(qw', t) /\ ~InQueue(qr', t)}
  BY DEF ReadyTo, Asleep, InQueue
<1> HIDE DEF F, P
<1>3. /\ F \in SUBSET Thread /\ F' \in SUBSET Thread /\ P \in SUBSET Thread /\ P' \in SUBSET Thread
  BY <1>2
<1>4. /\ Cardinality(F) \in Nat /\ Cardinality(F') \in Nat
      /\ Cardinality(P) \in Nat /\ Cardinality(P') \in Nat
      /\ F \subseteq F' => Cardinality(F) <= Cardinality(F')
      /\ P \subseteq P' => Cardinality(P) <= Cardinality(P')
      /\ \A t : F \ {t} \subseteq F' => Cardinality(F) - 1 <= Cardinality(F')
      /\ \A t : P \ {t} \subseteq P' => Cardinality(P) - 1 <= Cardinality(P')
      /\ \A t \in F' : t \notin F /\ F \subseteq F' => Cardinality(F) + 1 <= Cardinality(F')
      /\ \A t \in P' : t \notin P /\ P \subseteq P' => Cardinality(P) + 1 <= Cardinality(P')
  <2>1. /\ Cardinality(F) \in Nat /\ Cardinality(F') \in Nat
        /\ F \subseteq F' => Cardinality(F) <= Cardinality(F')
        /\ \A t : F \ {t} \subseteq F' => Cardinality(F) - 1 <= Cardinality(F')
        /\ \A t \in F' : t \notin F /\ F \subseteq F' => Cardinality(F) + 1 <= Cardinality(F')
    BY <1>3, Counts
  <2>2. /\ Cardinality(P) \in Nat /\ Cardinality(P') \in Nat
        /\ P \subseteq P' => Cardinality(P) <= Cardinality(P')
        /\ \A t : P \ {t} \subseteq P' => Cardinality(P) - 1 <= Cardinality(P')
        /\ \A t \in P' : t \notin P /\ P \subseteq P' => Cardinality(P) + 1 <= Cardinality(P')
    BY <1>3, Counts
  <2> QED BY <2>1, <2>2
<1>5. /\ qr # <<>> => cnt <= Cardinality(F)
      /\ qw # <<>> => SIZE - cnt <= Cardinality(P)
  BY DEF NoLostWakeup, freeCount, F, P
<1>6. ASSUME qr' # <<>> => cnt' <= Cardinality(F'),
             qw' # <<>> => SIZE - cnt' <= Cardinality(P')
      PROVE  NoLostWakeup'
  BY <1>6 DEF NoLostWakeup, freeCount, F, P
<1>7. /\ Distinct(qw) /\ Distinct(qr)
      /\ \A t : InQueue(qw, t) => op[t] = "post" /\ t \in Thread
      /\ \A t : InQueue(qr, t) => op[t] = "fetch" /\ t \in Thread
  BY <1>1, Sleepers DEF InQueue
<1>8. ASSUME NEW t \in Thread, Call(t) PROVE NoLostWakeup'
  <2>1. op[t] = "none" /\ UNCHANGED <<qw, qr, cnt>> /\ \A u \in Thread : u # t => op'[u] = op[u]
    BY <1>1, <1>8 DEF Call, queue
  <2>2. F \subseteq F' /\ P \subseteq P'
    BY <1>2, <2>1
  <2> QED BY <1>1, <1>4, <1>5, <1>6, <2>1, <2>2
\* The wake-up that a put and a take give.
<1>9. ASSUME qr # <<>>, qr' = Dequeue(qr), qw' = qw, \A u : InQueue(qr, u) => op'[u] = op[u]
      PROVE  \E h \in F' : h \notin F
  <2>1. qr[1] \in Thread /\ InQueue(qr, qr[1]) /\ ~InQueue(qr', qr[1])
    BY <1>1, <1>7, <1>9, WokenLeaves
  <2>2. op'[qr[1]] = "fetch" /\ ~InQueue(qw', qr[1])
    BY <1>7, <1>9, <2>1
  <2> QED BY <1>2, <2>1, <2>2
<1>10. ASSUME qw # <<>>, qw' = Dequeue(qw), qr' = qr, \A u : InQueue(qw, u) => op'[u] = op[u]
       PROVE  \E h \in P' : h \notin P
  <2>1. qw[1] \in Thread /\ InQueue(qw, qw[1]) /\ ~InQueue(qw', qw[1])
    BY <1>1, <1>7, <1>10, WokenLeaves
  <2>2. op'[qw[1]] = "post" /\ ~InQueue(qr', qw[1])
    BY <1>7, <1>10, <2>1
  <2> QED BY <1>2, <2>1, <2>2
<1>11. /\ Dequeue(qr) # <<>> => qr # <<>>
       /\ Dequeue(qw) # <<>> => qw # <<>>
       /\ \A u : InQueue(Dequeue(qr), u) => InQueue(qr, u)
       /\ \A u : InQueue(Dequeue(qw), u) => InQueue(qw, u)
  BY <1>1, <1>7, WokenLeaves DEF Dequeue
<1>12. ASSUME NEW t \in Thread, NEW r, Return(t, r)
       PROVE  op'[t] = "none" /\ \A u \in Thread : u # t => op'[u] = op[u]
  BY <1>1, <1>12 DEF Return
<1>13. ASSUME NEW t \in Thread, Post(t) PROVE NoLostWakeup'
  <2>1. /\ op[t] \in {"post", "repost"} /\ ~InQueue(qw, t) /\ ~InQueue(qr, t)
        /\ cnt' = cnt + 1 /\ qr' = Dequeue(qr) /\ qw' = qw
    BY <1>13 DEF Post, put, Running, Asleep
  <2>2. op'[t] = "none" /\ \A u \in Thread : u # t => op'[u] = op[u]
    BY <1>12, <1>13 DEF Post
  <2>3. F \subseteq F' /\ P \ {t} \subseteq P'
    BY <1>2, <1>11, <2>1, <2>2
  <2>4. qr' # <<>> => cnt' <= Cardinality(F')
    <3> SUFFICES ASSUME qr' # <<>> PROVE cnt' <= Cardinality(F')
      OBVIOUS
    <3>1. qr # <<>>
      BY <1>11, <2>1
    <3>2. \E h \in F' : h \notin F
      BY <1>7, <1>9, <2>1, <2>2, <3>1
    <3> QED BY <1>1, <1>4, <1>5, <2>1, <2>3, <3>1, <3>2
  <2>5. Cardinality(P) - 1 <= Cardinality(P')
    BY <1>4, <2>3
  <2>6. qw' # <<>> => SIZE - cnt' <= Cardinality(P')
    BY <1>1, <1>4, <1>5, <2>1, <2>5
  <2> QED BY <1>6, <2>4, <2>6
<1>14. ASSUME NEW t \in Thread, PostFails(t) PROVE NoLostWakeup'
  <2>1. /\ op[t] \in {"post", "repost"} /\ SIZE - cnt = 0 /\ UNCHANGED <<cnt, qw, qr>>
    BY <1>14 DEF PostFails, Running, freeCount, queue
  <2>2. op'[t] = "none" /\ \A u \in Thread : u # t => op'[u] = op[u]
    BY <1>12, <1>14 DEF PostFails
  <2>3. F \subseteq F'
    BY <1>2, <2>1, <2>2
  <2> QED BY <1>1, <1>4, <1>5, <1>6, <2>1, <2>3
<1>15. ASSUME NEW t \in Thread, PostSleeps(t) PROVE NoLostWakeup'
  <2>1. /\ op[t] = "post" /\ ~InQueue(qw, t)
        /\ SIZE - cnt = 0 /\ UNCHANGED <<cnt, qr, op>> /\ qw' = Append(qw, t)
    BY <1>15 DEF PostSleeps, Running, Asleep, freeCount, queue, callvars
  <2>2. \A u : InQueue(qw', u) <=> InQueue(qw, u) \/ u = t
    BY <1>1, <1>7, <2>1, AppendedJoins
  <2>3. F \subseteq F'
    BY <1>2, <2>1, <2>2
  <2> QED BY <1>1, <1>4, <1>5, <1>6, <2>1, <2>3
<1>16. ASSUME NEW t \in Thread, FetchFails(t) PROVE NoLostWakeup'
  <2>1. /\ op[t] = "fetch" /\ cnt = 0 /\ UNCHANGED <<cnt, qw, qr>>
    BY <1>16 DEF FetchFails, Running, queue
  <2>2. op'[t] = "none" /\ \A u \in Thread : u # t => op'[u] = op[u]
    BY <1>12, <1>16 DEF FetchFails
  <2>3. P \subseteq P'
    BY <1>2, <2>1, <2>2
  <2> QED BY <1>1, <1>4, <1>5, <1>6, <2>1, <2>3
<1>17. ASSUME NEW t \in Thread, FetchSleeps(t) PROVE NoLostWakeup'
  <2>1. /\ op[t] = "fetch" /\ ~InQueue(qr, t)
        /\ cnt = 0 /\ UNCHANGED <<cnt, qw, op>> /\ qr' = Append(qr, t)
    BY <1>17 DEF FetchSleeps, Running, Asleep, queue, callvars
  <2>2. \A u : InQueue(qr', u) <=> InQueue(qr, u) \/ u = t
    BY <1>1, <1>7, <2>1, AppendedJoins
  <2>3. P \subseteq P'
    BY <1>2, <2>1, <2>2
  <2> QED BY <1>1, <1>4, <1>5, <1>6, <2>1, <2>3
<1>18. ASSUME NEW t \in Thread, op[t] \in {"fetch", "replace"}, ~InQueue(qw, t), ~InQueue(qr, t),
              cnt > 0, take(t), op'[t] \in {"none", "repost"},
              \A u \in Thread : u # t => op'[u] = op[u]
       PROVE  NoLostWakeup'
  <2>1. cnt' = cnt - 1 /\ qw' = Dequeue(qw) /\ qr' = qr
    BY <1>18 DEF take
  <2>2. P \subseteq P' /\ F \ {t} \subseteq F'
    BY <1>2, <1>11, <1>18, <2>1
  <2>3. qw' # <<>> => SIZE - cnt' <= Cardinality(P')
    <3> SUFFICES ASSUME qw' # <<>> PROVE SIZE - cnt' <= Cardinality(P')
      OBVIOUS
    <3>1. qw # <<>>
      BY <1>11, <2>1
    <3>2. \E h \in P' : h \notin P
      BY <1>7, <1>10, <1>18, <2>1, <3>1
    <3> QED BY <1>1, <1>4, <1>5, <2>1, <2>2, <3>1, <3>2
  <2>4. Cardinality(F) - 1 <= Cardinality(F')
    BY <1>4, <2>2
  <2>5. qr' # <<>> => cnt' <= Cardinality(F')
    BY <1>1, <1>4, <1>5, <2>1, <2>4
  <2> QED BY <1>6, <2>3, <2>5
<1>19. ASSUME NEW t \in Thread, Fetch(t) PROVE NoLostWakeup'
  <2>1. op[t] = "fetch" /\ ~InQueue(qw, t) /\ ~InQueue(qr, t) /\ cnt > 0 /\ take(t)
    BY <1>19 DEF Fetch, Running, Asleep
  <2>2. op'[t] = "none" /\ \A u \in Thread : u # t => op'[u] = op[u]
    BY <1>12, <1>19 DEF Fetch
  <2> QED BY <1>18, <2>1, <2>2
<1>20. ASSUME NEW t \in Thread, Replace(t) PROVE NoLostWakeup'
  <2>1. /\ op[t] = "replace" /\ ~InQueue(qw, t) /\ ~InQueue(qr, t)
        /\ op'[t] = "repost" /\ \A u \in Thread : u # t => op'[u] = op[u]
    BY <1>1, <1>20 DEF Replace, Running, Asleep
  <2>2. CASE cnt > 0
    BY <1>18, <1>20, <2>1, <2>2 DEF Replace, Discard
  <2>3. CASE ~(cnt > 0)
    <3>1. cnt = 0 /\ UNCHANGED <<cnt, qw, qr>>
      BY <1>1, <1>20, <2>3 DEF Replace, Discard, queue
    <3>2. P \subseteq P'
      BY <1>2, <2>1, <3>1
    <3> QED BY <1>1, <1>4, <1>5, <1>6, <3>1, <3>2
  <2> QED BY <2>2, <2>3
<1>21. ASSUME NEW t \in Thread, TimesOut(t) PROVE NoLostWakeup'
  <2>1. op'[t] = "none" /\ cnt' = cnt /\ \A u \in Thread : u # t => op'[u] = op[u]
    BY <1>12, <1>21 DEF TimesOut, queue
  <2>2. CASE \E i \in DOMAIN qw : qw[i] = t /\ qw' = Without(qw, i) /\ qr' = qr
    <3>1. qw # <<>> /\ InQueue(qw, t) /\ \A u : InQueue(qw', u) <=> InQueue(qw, u) /\ u # t
      BY <1>1, <1>7, <2>2, TimedOutLeaves
    <3>2. F \subseteq F' /\ P \subseteq P'
      BY <1>2, <2>1, <2>2, <3>1
    <3> QED BY <1>1, <1>4, <1>5, <1>6, <2>1, <2>2, <3>1, <3>2
  <2>3. CASE \E i \in DOMAIN qr : qr[i] = t /\ qr' = Without(qr, i) /\ qw' = qw
    <3>1. qr # <<>> /\ InQueue(qr, t) /\ \A u : InQueue(qr', u) <=> InQueue(qr, u) /\ u # t
      BY <1>1, <1>7, <2>3, TimedOutLeaves
    <3>2. F \subseteq F' /\ P \subseteq P'
      BY <1>2, <2>1, <2>3, <3>1
    <3> QED BY <1>1, <1>4, <1>5, <1>6, <2>1, <2>3, <3>1, <3>2
  <2> QED BY <1>21, <2>2, <2>3 DEF TimesOut
<1>22. CASE UNCHANGED vars
  BY <1>1, <1>2, <1>5, <1>6, <1>22 DEF vars, queue, callvars
<1> QED
  BY <1>8, <1>13, <1>14, <1>15, <1>16, <1>17, <1>19, <1>20, <1>21, <1>22 DEF Next, Turn

-----------------------------------------------------------------------------
(* The storage, the calls, the sleepers and the wake-ups together. *)
QueueInv == TypeOK /\ Calls /\ LiveExactly /\ SleepersInOrder /\ NoLostWakeup

\* The mailbox starts empty, and no thread is in it.
LEMMA QueueStarts == Init => QueueInv /\ Contents = <<>>
<1> SUFFICES ASSUME Init PROVE QueueInv /\ Contents = <<>>
  OBVIOUS
<1>1. SIZE \in Nat \ {0}
  BY MailboxAssumption
<1>2. TypeOK
  <2>1. <<>> \in Seq(Thread)
    OBVIOUS
  <2> QED BY <1>1, <2>1 DEF Init, TypeOK
<1>3. Calls
  <2>1. \A t \in Thread : op[t] = "none"
    BY DEF Init
  <2> QED BY <2>1 DEF Calls
<1>4. LiveExactly
  <2>1. rdptr = 0 /\ cnt = 0 /\ 0 \in 0 .. SIZE - 1
    BY <1>1 DEF Init
  <2>2. Place(rdptr, cnt) = 0 /\ \A i \in 0 .. SIZE - 1 : Place(rdptr, i) \in 0 .. SIZE - 1
    BY <1>1, <2>1, Places
  <2> QED BY <1>1, <1>2, <2>2, LiveAt DEF Init, Live
<1>5. SleepersInOrder /\ NoLostWakeup
  BY DEF Init, SleepersInOrder, NoLostWakeup
<1>6. Contents = <<>>
  <2>1. cnt = 0 /\ Contents = [i \in 1 .. 0 |-> storage[Place(rdptr, i - 1)]]
    BY <1>2, LiveAt DEF Init
  <2> QED BY <2>1
<1> QED BY <1>2, <1>3, <1>4, <1>5, <1>6 DEF QueueInv

\* QueueInv holds in every reachable state.
LEMMA QueueInvariance == Spec => []QueueInv
<1>1. QueueInv /\ [Next]_vars => QueueInv'
  BY CallsKept, LiveKept, SleepersKept, WakeupsKept DEF QueueInv
<1> QED
  BY <1>1, QueueStarts, PTL DEF Spec

(* As many awake threads are on their way to the messages and to the free  *)
(* places as there are of these, when others sleep for them, however many  *)
(* threads post, fetch and replace, and whatever the size                  *)
(* (mailbox_impl_p.h:84-105,156-179).                                      *)
THEOREM NoWakeupLost == Spec => []NoLostWakeup
<1>1. QueueInv => NoLostWakeup
  BY DEF QueueInv
<1> QED
  BY <1>1, QueueInvariance, PTL

\* Every step is one of the channel, or of none.
LEMMA QueueStep == QueueInv /\ QueueInv' /\ [Next]_vars => [Fifo!Next]_Fifo!vars
<1> SUFFICES ASSUME QueueInv, QueueInv', [Next]_vars
             PROVE  Fifo!Next \/ (Contents' = Contents /\ got' = got)
  BY DEF Fifo!vars
<1>1. /\ TypeOK /\ TypeOK' /\ LiveExactly /\ Calls /\ SIZE \in Nat \ {0} /\ cnt \in 0 .. SIZE
  BY MailboxAssumption DEF QueueInv, TypeOK
<1>2. ASSUME UNCHANGED queue PROVE Contents' = Contents
  BY <1>2 DEF Contents, Position, queue
<1>3. ASSUME NEW t \in Thread, Call(t) PROVE Fifo!Next
  BY <1>2, <1>3 DEF Call, Fifo!Next, Fifo!Ask
<1>4. ASSUME NEW t \in Thread, Post(t) PROVE Fifo!Next
  <2>1. msg[t] \in Message /\ freeCount > 0 /\ put(t) /\ got' = got
    BY <1>1, <1>4 DEF Post, Running, Calls
  <2>2. Contents' = Append(Contents, msg[t])
    BY <1>1, <2>1, PutFills
  <2>3. Len(Contents) < SIZE
    <3>1. Contents \in Seq(Message \union {NoMessage}) /\ Len(Contents) = cnt
      BY <1>1, Stored
    <3> QED BY <1>1, <2>1, <3>1 DEF freeCount
  <2> QED BY <2>1, <2>2, <2>3 DEF Fifo!Next, Fifo!Send
<1>5. ASSUME NEW t \in Thread, cnt > 0, take(t) PROVE Fifo!Next
  <2>1. Contents' = Tail(Contents) /\ Contents # <<>> /\ storage[rdptr] = Head(Contents)
    BY <1>1, <1>5, TakeEmpties
  <2> QED BY <1>5, <2>1 DEF take, Fifo!Next, Fifo!Receive
<1> QED
  BY <1>2, <1>3, <1>4, <1>5 DEF Next, Turn, PostFails, PostSleeps, Fetch, FetchFails,
     FetchSleeps, Replace, Discard, TimesOut, vars, callvars

(* Posts, fetches and replaces of any threads, with timeouts, are those of *)
(* a bounded first-in first-out channel: no message is lost, copied or     *)
(* overtaken, exactly the stored messages are live, and sleepers are where *)
(* their wake-up looks for them (mailbox_impl_p.h:64-210).                 *)
THEOREM QueueSafe == Spec => QueueIsChannel
<1>1. Init => Fifo!Init
  BY QueueStarts DEF Init, Fifo!Init
<1>2. QueueInv => TypeOK /\ LiveExactly /\ SleepersInOrder
  BY DEF QueueInv
<1> QED
  BY <1>1, <1>2, QueueInvariance, QueueStep, PTL DEF Spec, QueueIsChannel, Fifo!Spec

-----------------------------------------------------------------------------
(* How every device uses its mailbox: one thread replaces, the others      *)
(* fetch.                                                                  *)
SoleProducer ==
  /\ \A t \in Thread : Role[t] \in {"replace", "fetch"}
  /\ \A t, u \in Thread : Role[t] = "replace" /\ Role[u] = "replace" => t = u

(* Between the two critical sections of its replace the producer finds the *)
(* room that its fetch made, or found, since nobody else puts anything.    *)
RoomKept ==
  \A t \in Thread : /\ op[t] = "repost" => cnt < SIZE
                    /\ op[t] = "replace" => got[t] = NoMessage
                    /\ Role[t] = "replace" => result[t] = "ok"

SoleInv == QueueInv /\ RoomKept

\* A thread that is in no call but its own is in one of two.
LEMMA SoleCalls ==
  ASSUME SoleProducer, Calls, NEW t \in Thread
  PROVE  /\ op[t] \in {"none", "fetch", "replace", "repost"}
         /\ op[t] = "fetch" => Role[t] = "fetch"
         /\ op[t] \in {"replace", "repost"} => Role[t] = "replace"
  BY DEF SoleProducer, Calls

\* RoomKept is kept.
LEMMA RoomStays ==
  ASSUME SoleProducer
  PROVE  SoleInv /\ [Next]_vars => RoomKept'
<1> SUFFICES ASSUME SoleInv, [Next]_vars PROVE RoomKept'
  OBVIOUS
<1>1. /\ TypeOK /\ Calls /\ SleepersInOrder /\ RoomKept /\ SIZE \in Nat \ {0} /\ cnt \in 0 .. SIZE
      /\ op \in [Thread -> {"none", "post", "fetch", "replace", "repost"}]
      /\ got \in [Thread -> Message \union {NoMessage}] /\ result \in [Thread -> {"ok", "timeout"}]
  BY MailboxAssumption DEF SoleInv, QueueInv, TypeOK
<1>2. \A t \in Thread : /\ op[t] \in {"none", "fetch", "replace", "repost"}
                        /\ op[t] = "fetch" => Role[t] = "fetch"
                        /\ op[t] \in {"replace", "repost"} => Role[t] = "replace"
  BY <1>1, SoleCalls
<1>3. cnt' \in 0 .. SIZE
  <2>1. TypeOK'
    BY <1>1, CallsKept
  <2> QED BY <2>1 DEF TypeOK
<1>4. ASSUME NEW t \in Thread, Call(t) PROVE RoomKept'
  <2>1. UNCHANGED cnt /\ op' = [op EXCEPT ![t] = Role[t]]
        /\ got' = [got EXCEPT ![t] = NoMessage] /\ result' = [result EXCEPT ![t] = "ok"]
    BY <1>4 DEF Call, queue
  <2>2. Role[t] # "repost"
    BY DEF SoleProducer
  <2> QED BY <1>1, <2>1, <2>2 DEF RoomKept
<1>5. ASSUME NEW t \in Thread, NEW r \in {"ok", "timeout"}, Return(t, r), got' = got,
             Role[t] = "replace" => r = "ok",
             cnt' <= cnt \/ op[t] = "repost"
      PROVE  RoomKept'
  <2>1. op' = [op EXCEPT ![t] = "none"] /\ result' = [result EXCEPT ![t] = r]
    BY <1>5 DEF Return
  <2>2. ASSUME NEW u \in Thread PROVE op'[u] = "repost" => cnt' < SIZE
    <3>1. CASE u = t
      BY <1>1, <2>1, <3>1
    <3>2. CASE u # t /\ op[u] = "repost"
      <4>1. op[t] # "repost"
        BY <1>2, <3>2 DEF SoleProducer
      <4>2. cnt < SIZE /\ cnt' <= cnt
        BY <1>1, <1>5, <3>2, <4>1 DEF RoomKept
      <4> QED BY <1>1, <1>3, <4>2
    <3>3. CASE u # t /\ op[u] # "repost"
      BY <1>1, <2>1, <3>3
    <3> QED BY <3>1, <3>2, <3>3
  <2>3. ASSUME NEW u \in Thread
        PROVE  /\ op'[u] = "replace" => got'[u] = NoMessage
               /\ Role[u] = "replace" => result'[u] = "ok"
    BY <1>1, <1>5, <2>1 DEF RoomKept
  <2> QED BY <2>2, <2>3 DEF RoomKept
<1>6. ASSUME NEW t \in Thread, Post(t) PROVE RoomKept'
  <2>1. op[t] = "repost" /\ Return(t, "ok") /\ got' = got
    BY <1>2, <1>6 DEF Post, Running
  <2> QED BY <1>5, <2>1
<1>7. ASSUME NEW t \in Thread, PostFails(t) \/ PostSleeps(t) PROVE FALSE
  <2>1. op[t] = "repost" /\ SIZE - cnt = 0
    BY <1>2, <1>7 DEF PostFails, PostSleeps, Running, freeCount
  <2>2. cnt < SIZE
    BY <1>1, <2>1 DEF RoomKept
  <2> QED BY <1>1, <2>1, <2>2
<1>8. ASSUME NEW t \in Thread, Fetch(t) PROVE RoomKept'
  <2>1. /\ op[t] = "fetch" /\ cnt' = cnt - 1 /\ op' = [op EXCEPT ![t] = "none"]
        /\ got' = [got EXCEPT ![t] = storage[rdptr]] /\ result' = [result EXCEPT ![t] = "ok"]
    BY <1>8 DEF Fetch, Running, take, Return
  <2>2. ASSUME NEW u \in Thread, op'[u] = "repost" PROVE cnt' < SIZE
    <3>1. op[u] = "repost"
      BY <1>1, <2>1, <2>2
    <3>2. cnt < SIZE
      BY <1>1, <3>1 DEF RoomKept
    <3> QED BY <1>1, <2>1, <3>2
  <2>3. ASSUME NEW u \in Thread
        PROVE  /\ op'[u] = "replace" => got'[u] = NoMessage
               /\ Role[u] = "replace" => result'[u] = "ok"
    BY <1>1, <2>1 DEF RoomKept
  <2> QED BY <2>2, <2>3 DEF RoomKept
<1>9. ASSUME NEW t \in Thread, FetchFails(t) PROVE RoomKept'
  <2>1. /\ op[t] = "fetch" /\ Role[t] # "replace" /\ cnt' = cnt
        /\ Return(t, "timeout") /\ got' = got
    BY <1>2, <1>9 DEF FetchFails, Running, queue
  <2>2. cnt' <= cnt
    BY <1>1, <2>1
  <2> QED BY <1>5, <2>1, <2>2
<1>10. ASSUME NEW t \in Thread, FetchSleeps(t) PROVE RoomKept'
  BY <1>1, <1>10 DEF FetchSleeps, queue, callvars, RoomKept
<1>11. ASSUME NEW t \in Thread, Replace(t) PROVE RoomKept'
  <2>1. op[t] = "replace" /\ op' = [op EXCEPT ![t] = "repost"] /\ result' = result
    BY <1>11 DEF Replace, Running
  <2>2. cnt' < SIZE /\ \A u \in Thread : u # t => got'[u] = got[u]
    <3>1. CASE cnt > 0
      <4>1. take(t)
        BY <1>11, <3>1 DEF Replace, Discard
      <4>2. cnt' = cnt - 1
        BY <4>1 DEF take
      <4>3. cnt' < SIZE
        BY <1>1, <4>2
      <4> QED BY <1>1, <4>1, <4>3 DEF take
    <3>2. CASE ~(cnt > 0)
      <4>1. cnt' = cnt /\ got' = got
        BY <1>11, <3>2 DEF Replace, Discard, queue
      <4>2. cnt' < SIZE
        BY <1>1, <3>2, <4>1
      <4> QED BY <4>1, <4>2
    <3> QED BY <3>1, <3>2
  <2> QED BY <1>1, <2>1, <2>2 DEF RoomKept
<1>12. ASSUME NEW t \in Thread, TimesOut(t) PROVE RoomKept'
  <2>1. Asleep(t)
    BY <1>12 DEF TimesOut, Asleep, InQueue
  <2>2. op[t] = "fetch" \/ op[t] = "post"
    BY <1>1, <2>1, Sleepers DEF Asleep
  <2>3. Role[t] # "replace"
    BY <1>2, <2>2
  <2>4. Return(t, "timeout") /\ got' = got /\ cnt' = cnt
    BY <1>12 DEF TimesOut, queue
  <2>5. cnt' <= cnt
    BY <1>1, <2>4
  <2> QED BY <1>5, <2>3, <2>4, <2>5
<1>13. CASE UNCHANGED vars
  BY <1>1, <1>13 DEF vars, queue, callvars, RoomKept
<1> QED
  BY <1>4, <1>6, <1>7, <1>8, <1>9, <1>10, <1>11, <1>12, <1>13 DEF Next, Turn

\* SoleInv holds in every reachable state.
LEMMA SoleInvariance ==
  ASSUME SoleProducer
  PROVE  Spec => []SoleInv
<1>1. Init => SoleInv
  BY QueueStarts DEF Init, SoleInv, RoomKept
<1>2. SoleInv /\ [Next]_vars => SoleInv'
  <2>1. QueueInv /\ [Next]_vars => QueueInv'
    BY CallsKept, LiveKept, SleepersKept, WakeupsKept DEF QueueInv
  <2> QED BY <2>1, RoomStays DEF SoleInv
<1> QED
  BY <1>1, <1>2, PTL DEF Spec

(* A sole producer's replace never fails, although its fetch and its post  *)
(* are two critical sections and others fetch between them                 *)
(* (mailbox_impl_p.h:228-240).                                             *)
THEOREM ReplaceSafe ==
  ASSUME SoleProducer
  PROVE  Spec => []ReplaceNeverFails
<1>1. SoleInv => ReplaceNeverFails
  BY DEF SoleInv, RoomKept, ReplaceNeverFails
<1> QED
  BY <1>1, SoleInvariance, PTL

\* The slot of a sole producer's mailbox, and who is between its two steps.
LEMMA SlotOf ==
  ASSUME SoleProducer, Calls
  PROVE  /\ \A t \in Thread : op[t] = "repost" => Reposting = {t}
         /\ cnt > 0 => SlotContents = storage[rdptr]
         /\ ~(cnt > 0) /\ Reposting = {} => SlotContents = NoMessage
         /\ \A t : ~(cnt > 0) /\ Reposting = {t} => SlotContents = got[t]
<1>1. \A t \in Thread : op[t] = "repost" => Reposting = {t}
  BY SoleCalls DEF SoleProducer, Reposting
<1>2. \A t : ~(cnt > 0) /\ Reposting = {t} => SlotContents = got[t]
  BY DEF SlotContents
<1> QED BY <1>1, <1>2 DEF SlotContents

\* The same of the next state.
LEMMA SlotNext ==
  ASSUME SoleProducer, Calls'
  PROVE  /\ \A t \in Thread : op'[t] = "repost" => Reposting' = {t}
         /\ cnt' > 0 => SlotContents' = storage'[rdptr']
         /\ ~(cnt' > 0) /\ Reposting' = {} => SlotContents' = NoMessage
         /\ \A t : ~(cnt' > 0) /\ Reposting' = {t} => SlotContents' = got'[t]
<1>1. \A t \in Thread : op'[t] = "repost" => Role[t] = "replace"
  BY DEF Calls, SoleProducer
<1>2. \A t \in Thread : op'[t] = "repost" => Reposting' = {t}
  BY <1>1 DEF SoleProducer, Reposting
<1>3. \A t : ~(cnt' > 0) /\ Reposting' = {t} => SlotContents' = got'[t]
  BY DEF SlotContents
<1> QED BY <1>2, <1>3 DEF SlotContents

\* Every step of a mailbox of one place is one of the slot, or of none.
LEMMA SlotStep ==
  ASSUME SoleProducer, SIZE = 1
  PROVE  SoleInv /\ SoleInv' /\ [Next]_vars => [DeviceSlot!Next]_DeviceSlot!vars
<1> DEFINE g == [r \in SlotReader |-> got[r]]
<1> SUFFICES ASSUME SoleInv, SoleInv', [Next]_vars
             PROVE  DeviceSlot!Next \/ (SlotContents' = SlotContents /\ g' = g)
  BY DEF DeviceSlot!vars
<1>1. /\ TypeOK /\ TypeOK' /\ LiveExactly /\ Calls /\ Calls' /\ RoomKept /\ SleepersInOrder
      /\ cnt \in 0 .. 1 /\ cnt' \in 0 .. 1 /\ rdptr = 0 /\ rdptr' = 0 /\ wrptr = 0
      /\ op \in [Thread -> {"none", "post", "fetch", "replace", "repost"}]
      /\ got \in [Thread -> Message \union {NoMessage}]
      /\ storage \in [0 .. 0 -> Message \union {NoMessage}]
  BY DEF SoleInv, QueueInv, TypeOK
<1>2. \A t \in Thread : /\ op[t] \in {"none", "fetch", "replace", "repost"}
                        /\ op[t] = "fetch" => Role[t] = "fetch"
                        /\ op[t] \in {"replace", "repost"} => Role[t] = "replace"
  BY <1>1, SoleCalls
<1>3. /\ \A t \in Thread : op[t] = "repost" => Reposting = {t}
      /\ cnt > 0 => SlotContents = storage[0]
      /\ ~(cnt > 0) /\ Reposting = {} => SlotContents = NoMessage
      /\ \A t : ~(cnt > 0) /\ Reposting = {t} => SlotContents = got[t]
  BY <1>1, SlotOf
<1>4. /\ \A t \in Thread : op'[t] = "repost" => Reposting' = {t}
      /\ cnt' > 0 => SlotContents' = storage'[0]
      /\ ~(cnt' > 0) /\ Reposting' = {} => SlotContents' = NoMessage
      /\ \A t : ~(cnt' > 0) /\ Reposting' = {t} => SlotContents' = got'[t]
  BY <1>1, SlotNext
<1>5. /\ \/ Reposting = {}
         \/ \E t \in Thread : op[t] = "repost" /\ Reposting = {t} /\ Role[t] = "replace"
      /\ Reposting' = {t \in Thread : op'[t] = "repost"}
      /\ Reposting = {t \in Thread : op[t] = "repost"}
  BY <1>2, <1>3 DEF Reposting
<1>6. cnt > 0 => Reposting = {}
  BY <1>1, <1>5 DEF RoomKept
<1>7. SlotReader = {t \in Thread : Role[t] = "fetch"}
  BY DEF SlotReader
\* What a step that leaves the queue alone, and the fetch of the producer, does.
<1>8. ASSUME UNCHANGED queue, Reposting' = Reposting,
             \A t \in Thread : op[t] = "repost" => got'[t] = got[t]
      PROVE  SlotContents' = SlotContents
  <2>1. cnt' = cnt /\ storage' = storage
    BY <1>8 DEF queue
  <2>2. CASE cnt > 0
    BY <1>3, <1>4, <2>1, <2>2
  <2>3. CASE ~(cnt > 0) /\ Reposting = {}
    BY <1>3, <1>4, <1>8, <2>1, <2>3
  <2>4. CASE ~(cnt > 0) /\ Reposting # {}
    BY <1>3, <1>4, <1>5, <1>8, <2>1, <2>4
  <2> QED BY <2>2, <2>3, <2>4
<1>9. ASSUME NEW t \in Thread, Call(t)
      PROVE  DeviceSlot!Next \/ (SlotContents' = SlotContents /\ g' = g)
  <2>1. /\ op[t] = "none" /\ op' = [op EXCEPT ![t] = Role[t]] /\ UNCHANGED queue
        /\ got' = [got EXCEPT ![t] = NoMessage]
    BY <1>9 DEF Call
  <2>2. Role[t] \in {"fetch", "replace"}
    BY DEF SoleProducer
  <2>3. Reposting' = Reposting
    BY <1>1, <1>5, <2>1, <2>2
  <2>4. \A u \in Thread : op[u] = "repost" => got'[u] = got[u]
    BY <1>1, <2>1
  <2>5. SlotContents' = SlotContents
    BY <1>8, <2>1, <2>3, <2>4
  <2>6. CASE Role[t] = "fetch"
    <3>1. g' = [g EXCEPT ![t] = NoMessage] /\ t \in SlotReader
      BY <1>1, <1>7, <2>1, <2>6
    <3> QED BY <2>5, <3>1 DEF DeviceSlot!Next, DeviceSlot!Ask
  <2>7. CASE Role[t] = "replace"
    <3>1. g' = g
      BY <1>1, <1>7, <2>1, <2>7
    <3> QED BY <2>5, <3>1
  <2> QED BY <2>2, <2>6, <2>7
<1>10. ASSUME NEW t \in Thread, Post(t) PROVE DeviceSlot!Next
  <2>1. /\ op[t] = "repost" /\ msg[t] \in Message /\ got' = got
        /\ storage' = [storage EXCEPT ![0] = msg[t]] /\ cnt' = cnt + 1
    BY <1>1, <1>2, <1>10 DEF Post, put, Running, Calls
  <2>2. storage'[0] = msg[t] /\ cnt' > 0
    BY <1>1, <2>1
  <2>3. SlotContents' \in Message /\ g' = g
    BY <1>4, <2>1, <2>2
  <2> QED BY <2>3 DEF DeviceSlot!Next, DeviceSlot!Replace
<1>11. ASSUME NEW t \in Thread, PostFails(t) \/ PostSleeps(t) PROVE FALSE
  <2>1. op[t] = "repost" /\ SIZE - cnt = 0
    BY <1>2, <1>11 DEF PostFails, PostSleeps, Running, freeCount
  <2>2. cnt < SIZE
    BY <1>1, <2>1 DEF RoomKept
  <2> QED BY <1>1, <2>1, <2>2
<1>12. ASSUME NEW t \in Thread, Fetch(t) PROVE DeviceSlot!Next
  <2>1. /\ op[t] = "fetch" /\ cnt > 0 /\ take(t) /\ op' = [op EXCEPT ![t] = "none"]
        /\ got' = [got EXCEPT ![t] = storage[0]] /\ cnt' = cnt - 1
    BY <1>1, <1>12 DEF Fetch, Running, take, Return
  <2>2. storage[0] \in Message
    BY <1>1, <2>1, TakeEmpties
  <2>3. SlotContents = storage[0] /\ SlotContents # NoMessage
    BY <1>3, <2>1, <2>2, MessageAssumption
  <2>4. Reposting' = {}
    BY <1>1, <1>5, <1>6, <2>1
  <2>5. SlotContents' = NoMessage
    BY <1>1, <1>4, <2>1, <2>4
  <2>6. g' = [g EXCEPT ![t] = SlotContents] /\ t \in SlotReader
    BY <1>1, <1>2, <1>7, <2>1, <2>3
  <2> QED BY <2>3, <2>5, <2>6 DEF DeviceSlot!Next, DeviceSlot!Fetch
<1>13. ASSUME NEW t \in Thread, FetchFails(t) \/ FetchSleeps(t) \/ TimesOut(t)
       PROVE  SlotContents' = SlotContents /\ g' = g
  <2>1. UNCHANGED queue /\ got' = got
    BY <1>13 DEF FetchFails, FetchSleeps, TimesOut, callvars
  <2>2. op[t] # "repost" /\ (op' = op \/ op' = [op EXCEPT ![t] = "none"])
    <3>1. CASE FetchFails(t) \/ FetchSleeps(t)
      BY <3>1 DEF FetchFails, FetchSleeps, Running, Return, callvars
    <3>2. CASE TimesOut(t)
      <4>1. Asleep(t)
        BY <3>2 DEF TimesOut, Asleep, InQueue
      <4> QED BY <1>1, <3>2, <4>1, Sleepers DEF Asleep, TimesOut, Return
    <3> QED BY <1>13, <3>1, <3>2
  <2>3. Reposting' = Reposting
    BY <1>1, <1>5, <2>2
  <2> QED BY <1>8, <2>1, <2>3
<1>14. ASSUME NEW t \in Thread, Replace(t)
       PROVE  SlotContents' = SlotContents /\ g' = g
  <2>1. /\ op[t] = "replace" /\ op'[t] = "repost" /\ Role[t] = "replace" /\ got[t] = NoMessage
    BY <1>1, <1>2, <1>14 DEF Replace, Running, RoomKept
  <2>2. Reposting' = {t} /\ Reposting = {}
    BY <1>2, <1>4, <1>5, <2>1 DEF SoleProducer
  <2>3. CASE cnt > 0
    <3>1. take(t)
      BY <1>14, <2>3 DEF Replace, Discard
    <3>2. got' = [got EXCEPT ![t] = storage[0]] /\ cnt' = cnt - 1
      BY <1>1, <3>1 DEF take
    <3>3. SlotContents' = storage[0] /\ SlotContents = storage[0]
      BY <1>1, <1>3, <1>4, <2>2, <2>3, <3>2
    <3>4. g' = g
      BY <1>1, <1>7, <2>1, <3>2
    <3> QED BY <3>3, <3>4
  <2>4. CASE ~(cnt > 0)
    <3>1. cnt' = cnt /\ got' = got
      BY <1>14, <2>4 DEF Replace, Discard, queue
    <3>2. SlotContents' = NoMessage /\ SlotContents = NoMessage
      BY <1>3, <1>4, <2>1, <2>2, <2>4, <3>1
    <3> QED BY <3>1, <3>2
  <2> QED BY <2>3, <2>4
<1>15. CASE UNCHANGED vars
  <2>1. UNCHANGED queue /\ got' = got /\ op' = op
    BY <1>15 DEF vars, callvars
  <2>2. Reposting' = Reposting
    BY <2>1 DEF Reposting
  <2> QED BY <1>8, <2>1, <2>2
<1> HIDE DEF g
<1> QED
  BY <1>9, <1>10, <1>11, <1>12, <1>13, <1>14, <1>15 DEF Next, Turn

(* A sole producer's mailbox of one place is a slot: its replace puts its  *)
(* message in place of the old one in one step, whoever fetches between    *)
(* its two (mailbox_impl_p.h:228-240).                                     *)
THEOREM DeviceMailboxIsSlot ==
  ASSUME SoleProducer, SIZE = 1
  PROVE  Spec => ImplementsDeviceSlot
<1>1. Init => DeviceSlot!Init
  <2> SUFFICES ASSUME Init PROVE DeviceSlot!Init
    OBVIOUS
  <2>1. SlotContents = NoMessage
    BY DEF Init, SlotContents, Reposting
  <2> QED BY <2>1 DEF Init, DeviceSlot!Init, SlotReader
<1> QED
  BY <1>1, SoleInvariance, SlotStep, PTL DEF Spec, ImplementsDeviceSlot, DeviceSlot!Spec

-----------------------------------------------------------------------------
(* The serial device of the host, for buffers of any size.                 *)
SerialSizes == maxRead \in Nat /\ Size \in Nat \ {0} /\ MaxIn \in Nat /\ MaxOut \in Nat

(* All that read has taken from fd and not lost, in the order in which it  *)
(* came: what it has returned, and then what it has in hand.               *)
Taken == sGot \o Serial!InHand
Ascending(s) == \A i, j \in DOMAIN s : i < j => s[i] < s[j]

ReadInv == /\ sReading \in {"no", "loop"} /\ sTaken \in Nat /\ sArrived \in Nat /\ sTaken <= sArrived
           /\ sGot \in Seq(Nat) /\ sCur \in Seq(Nat) /\ Len(sCur) <= maxRead
           /\ Ascending(Taken)
           /\ ToSet(Taken) \union sLost = 1 .. sTaken
           /\ ToSet(Taken) \intersect sLost = {}

\* The instance has the sets of sequences from the same library.
LEMMA SameSet == \A s : Serial!ToSet(s) = ToSet(s)
  BY DEF ToSet, Serial!ToSet

\* What is in two sequences one after the other.
LEMMA Joins ==
  ASSUME NEW S, NEW s \in Seq(S), NEW t \in Seq(S)
  PROVE  /\ s \o t \in Seq(S) /\ Len(s \o t) = Len(s) + Len(t)
         /\ ToSet(s \o t) = ToSet(s) \union ToSet(t)
         /\ \A i \in 1 .. Len(s) : (s \o t)[i] = s[i]
         /\ \A i \in 1 .. Len(t) : (s \o t)[Len(s) + i] = t[i]
<1> DEFINE u == s \o t
<1>1. /\ u \in Seq(S) /\ Len(u) = Len(s) + Len(t)
      /\ \A i \in 1 .. Len(u) : u[i] = IF i <= Len(s) THEN s[i] ELSE t[i - Len(s)]
  BY ConcatProperties
<1>2. Len(s) \in Nat /\ Len(t) \in Nat
  OBVIOUS
<1> HIDE DEF u
<1>3. \A i \in 1 .. Len(s) : i \in 1 .. Len(u) /\ u[i] = s[i]
  BY <1>1, <1>2
<1>4. ASSUME NEW i \in 1 .. Len(t)
      PROVE  Len(s) + i \in 1 .. Len(u) /\ u[Len(s) + i] = t[i]
  <2>1. Len(s) + i \in 1 .. Len(u) /\ ~(Len(s) + i <= Len(s)) /\ (Len(s) + i) - Len(s) = i
    BY <1>1, <1>2
  <2> QED BY <1>1, <2>1
<1>5. ToSet(u) = ToSet(s) \union ToSet(t)
  <2>1. /\ ToSet(u) = {u[i] : i \in 1 .. Len(u)} /\ ToSet(s) = {s[i] : i \in 1 .. Len(s)}
        /\ ToSet(t) = {t[i] : i \in 1 .. Len(t)}
    BY <1>1 DEF ToSet
  <2>2. ASSUME NEW i \in 1 .. Len(u) PROVE u[i] \in ToSet(s) \union ToSet(t)
    <3>1. CASE i <= Len(s)
      <4>1. i \in 1 .. Len(s)
        BY <1>2, <3>1
      <4> QED BY <1>3, <2>1, <4>1
    <3>2. CASE ~(i <= Len(s))
      <4>1. i - Len(s) \in 1 .. Len(t) /\ u[i] = t[i - Len(s)]
        BY <1>1, <1>2, <3>2
      <4> QED BY <2>1, <4>1
    <3> QED BY <3>1, <3>2
  <2>3. ToSet(s) \subseteq ToSet(u)
    BY <1>3, <2>1
  <2>4. ToSet(t) \subseteq ToSet(u)
    BY <1>4, <2>1
  <2> QED BY <2>1, <2>2, <2>3, <2>4
<1> QED BY <1>1, <1>3, <1>4, <1>5 DEF u

\* The ascending stay ascending when later ones follow; and what follows
\* in them is not what came before.
LEMMA Ascends ==
  ASSUME NEW s \in Seq(Nat), NEW t \in Seq(Nat)
  PROVE  /\ Ascending(s) /\ Ascending(t) /\ (\A x \in ToSet(s), y \in ToSet(t) : x < y) => Ascending(s \o t)
         /\ Ascending(s \o t) => Ascending(s) /\ ToSet(s) \intersect ToSet(t) = {}
<1> DEFINE u == s \o t
           m == Len(s)
           n == Len(t)
<1>1. /\ u \in Seq(Nat) /\ Len(u) = m + n /\ m \in Nat /\ n \in Nat
      /\ \A i \in 1 .. m : u[i] = s[i]
      /\ \A i \in 1 .. n : u[m + i] = t[i]
  BY Joins
<1>2. DOMAIN u = 1 .. m + n /\ DOMAIN s = 1 .. m /\ DOMAIN t = 1 .. n
  BY <1>1
<1>3. \A i \in 1 .. m : s[i] \in ToSet(s)
  BY <1>2 DEF ToSet
<1>4. \A i \in 1 .. n : t[i] \in ToSet(t)
  BY <1>2 DEF ToSet
<1> HIDE DEF u, m, n
<1>5. ASSUME Ascending(s), Ascending(t), \A x \in ToSet(s), y \in ToSet(t) : x < y
      PROVE  Ascending(u)
  <2> SUFFICES ASSUME NEW i \in 1 .. m + n, NEW j \in 1 .. m + n, i < j PROVE u[i] < u[j]
    BY <1>2 DEF Ascending
  <2>1. CASE i \in 1 .. m /\ j \in 1 .. m
    BY <1>1, <1>2, <1>5, <2>1 DEF Ascending
  <2>2. CASE i \in 1 .. m /\ j \notin 1 .. m
    <3>1. PICK k \in 1 .. n : j = m + k
      <4>1. j - m \in 1 .. n /\ j = m + (j - m)
        BY <1>1, <2>2
      <4> QED BY <4>1
    <3> QED BY <1>1, <1>3, <1>4, <1>5, <2>2, <3>1
  <2>3. CASE i \notin 1 .. m
    <3>1. i - m \in 1 .. n /\ i = m + (i - m) /\ j - m \in 1 .. n /\ j = m + (j - m) /\ i - m < j - m
      BY <1>1, <2>3
    <3>2. t[i - m] < t[j - m]
      BY <1>2, <1>5, <3>1 DEF Ascending
    <3> QED BY <1>1, <3>1, <3>2
  <2> QED BY <2>1, <2>2, <2>3
<1>6. ASSUME Ascending(u)
      PROVE  Ascending(s) /\ ToSet(s) \intersect ToSet(t) = {}
  <2>1. ASSUME NEW i \in 1 .. m, NEW j \in 1 .. m, i < j PROVE s[i] < s[j]
    <3>1. i \in DOMAIN u /\ j \in DOMAIN u /\ u[i] = s[i] /\ u[j] = s[j]
      BY <1>1, <1>2
    <3> QED BY <1>6, <2>1, <3>1 DEF Ascending
  <2>2. ASSUME NEW x \in ToSet(s), x \in ToSet(t) PROVE FALSE
    <3>1. PICK i \in 1 .. m : x = s[i]
      BY <1>2 DEF ToSet
    <3>2. PICK j \in 1 .. n : x = t[j]
      BY <1>2, <2>2 DEF ToSet
    <3>3. i \in 1 .. m + n /\ m + j \in 1 .. m + n /\ i < m + j
      BY <1>1
    <3>4. u[i] = x /\ u[m + j] = x
      BY <1>1, <3>1, <3>2
    <3>5. x \in Nat
      <4>1. \A k \in DOMAIN s : s[k] \in Nat
        OBVIOUS
      <4> QED BY <1>2, <3>1, <4>1
    <3>6. u[i] < u[m + j]
      BY <1>2, <1>6, <3>3 DEF Ascending
    <3> QED BY <3>4, <3>5, <3>6
  <2> QED BY <1>2, <2>1, <2>2 DEF Ascending
<1> QED BY <1>5, <1>6 DEF u

\* Nothing is taken or lost, and all that was taken stays in its order.
LEMMA TakenStays ==
  ASSUME ReadInv, SerialSizes, Taken' = Taken, sLost' = sLost, sTaken' = sTaken,
         sArrived' \in Nat, sTaken <= sArrived', sReading' \in {"no", "loop"},
         sGot' \in Seq(Nat), sCur' \in Seq(Nat), Len(sCur') <= maxRead
  PROVE  ReadInv'
<1>1. Ascending(Taken)' /\ ToSet(Taken') = ToSet(Taken)
  BY DEF ReadInv, Ascending
<1> QED BY <1>1 DEF ReadInv

\* The bytes that a read takes from fd, in their order.
LEMMA Burst ==
  ASSUME NEW k \in Nat, NEW n \in Nat
  PROVE  LET t == [i \in 1 .. n |-> k + i]
         IN  t \in Seq(Nat) /\ Len(t) = n /\ Ascending(t) /\ ToSet(t) = k + 1 .. k + n
<1> DEFINE t == [i \in 1 .. n |-> k + i]
<1>1. t \in Seq(Nat) /\ Len(t) = n /\ DOMAIN t = 1 .. n /\ \A i \in 1 .. n : t[i] = k + i
  OBVIOUS
<1> HIDE DEF t
<1>2. Ascending(t)
  BY <1>1 DEF Ascending
<1>3. ToSet(t) = k + 1 .. k + n
  <2>1. ToSet(t) = {t[i] : i \in 1 .. n}
    BY <1>1 DEF ToSet
  <2>2. ASSUME NEW x \in k + 1 .. k + n PROVE x \in ToSet(t)
    <3>1. x - k \in 1 .. n /\ k + (x - k) = x
      BY <2>2
    <3> QED BY <1>1, <2>1, <3>1
  <2>3. ASSUME NEW i \in 1 .. n PROVE t[i] \in k + 1 .. k + n
    BY <1>1
  <2> QED BY <2>1, <2>2, <2>3
<1> QED BY <1>1, <1>2, <1>3 DEF t

\* A call of read returns, with what it has or with nothing.
LEMMA ReturnsWhole ==
  ASSUME ReadInv, SerialSizes, sReading = "loop", NEW r \in {"ok", "ReadTimeout"},
         r # "ok" => sCur = <<>>, Serial!return(r), UNCHANGED <<sArrived, sCur, sLost, sTaken>>
  PROVE  ReadInv'
<1>1. /\ sReading' = "no" /\ sGot' = IF r = "ok" THEN sGot \o sCur ELSE sGot
      /\ sGot \in Seq(Nat) /\ sCur \in Seq(Nat)
  BY DEF ReadInv, Serial!return
<1>2. Taken = sGot \o sCur
  BY DEF Taken, Serial!InHand
<1>3. sGot' \in Seq(Nat)
  BY <1>1, Joins
<1>4. Taken' = sGot'
  <2>1. Taken' = sGot' \o <<>>
    BY <1>1 DEF Taken, Serial!InHand
  <2> QED BY <1>3, <2>1, ConcatEmptySeq
<1>5. sGot' = sGot \o sCur
  BY <1>1, ConcatEmptySeq
<1> QED BY <1>1, <1>2, <1>3, <1>4, <1>5, TakenStays DEF ReadInv

\* Read takes some of the bytes that came.
LEMMA ReadBytesInv == ASSUME ReadInv, SerialSizes, Serial!ReadBytes PROVE ReadInv'
<1>1. /\ sReading = "loop" /\ sReading' = "loop" /\ sLost' = sLost /\ sGot' = sGot /\ sArrived' = sArrived
  BY DEF Serial!ReadBytes, Serial!GoesOn
<1>2. PICK n \in 0 .. maxRead - Len(sCur) :
        /\ n <= sArrived - sTaken
        /\ sCur' = sCur \o [i \in 1 .. n |-> sTaken + i]
        /\ sTaken' = sTaken + n
  BY DEF Serial!ReadBytes
<1> DEFINE t == [i \in 1 .. n |-> sTaken + i]
<1>3. /\ sTaken \in Nat /\ sArrived \in Nat /\ sGot \in Seq(Nat) /\ sCur \in Seq(Nat)
      /\ Ascending(Taken) /\ ToSet(Taken) \union sLost = 1 .. sTaken /\ ToSet(Taken) \intersect sLost = {}
  BY DEF ReadInv
<1>4. n \in Nat /\ sTaken' \in Nat /\ sTaken' <= sArrived /\ Len(sCur) + n <= maxRead
  BY <1>2, <1>3 DEF SerialSizes
<1>5. t \in Seq(Nat) /\ Len(t) = n /\ Ascending(t) /\ ToSet(t) = sTaken + 1 .. sTaken + n
  BY <1>3, <1>4, Burst
<1> HIDE DEF t
<1>6. sCur' \in Seq(Nat) /\ Len(sCur') <= maxRead
  BY <1>2, <1>3, <1>4, <1>5, Joins DEF t
<1>7. Taken = sGot \o sCur /\ Taken \in Seq(Nat)
  BY <1>1, <1>3, Joins DEF Taken, Serial!InHand
<1>8. Taken' = Taken \o t
  <2>1. Taken' = sGot \o (sCur \o t)
    BY <1>1, <1>2 DEF Taken, Serial!InHand, t
  <2>2. (sGot \o sCur) \o t = sGot \o (sCur \o t)
    <3>1. sGot \in Seq(Nat) /\ sCur \in Seq(Nat) /\ t \in Seq(Nat)
      BY <1>3, <1>5
    <3> QED BY <3>1, ConcatAssociative
  <2> QED BY <1>7, <2>1, <2>2
<1>9. \A x \in ToSet(Taken), y \in ToSet(t) : x < y
  <2> TAKE x \in ToSet(Taken), y \in ToSet(t)
  <2>1. x \in 1 .. sTaken /\ y \in sTaken + 1 .. sTaken + n
    BY <1>3, <1>5
  <2> QED BY <1>3, <1>4, <2>1
<1>10. Ascending(Taken')
  BY <1>3, <1>5, <1>7, <1>8, <1>9, Ascends
<1>11. ToSet(Taken') = ToSet(Taken) \union (sTaken + 1 .. sTaken + n)
  <2>1. Taken \in Seq(Nat) /\ t \in Seq(Nat)
    BY <1>5, <1>7
  <2>2. ToSet(Taken \o t) = ToSet(Taken) \union ToSet(t)
    <3> HIDE DEF Taken
    <3> QED BY <2>1, Joins, Zenon
  <2> QED BY <1>5, <1>8, <2>2
<1>12. ToSet(Taken') \union sLost = 1 .. sTaken'
  <2>1. (1 .. sTaken) \union (sTaken + 1 .. sTaken + n) = 1 .. sTaken + n
    BY <1>3, <1>4
  <2> QED BY <1>2, <1>3, <1>11, <2>1
<1>13. ToSet(Taken') \intersect sLost = {}
  <2>1. sLost \intersect (sTaken + 1 .. sTaken + n) = {}
    <3>1. \A x \in sLost : x \in 1 .. sTaken
      BY <1>3
    <3>2. \A x \in 1 .. sTaken : x \notin sTaken + 1 .. sTaken + n
      BY <1>3, <1>4
    <3> QED BY <3>1, <3>2
  <2> QED BY <1>3, <1>11, <2>1
<1>14. Ascending(Taken)'
  BY <1>10 DEF Ascending
<1> QED BY <1>1, <1>3, <1>4, <1>6, <1>12, <1>13, <1>14 DEF ReadInv

\* What a failed call had read is lost.
LEMMA ReadFailsInv == ASSUME ReadInv, SerialSizes, Serial!ReadFails PROVE ReadInv'
<1>1. /\ sReading = "loop" /\ sReading' = "no" /\ sGot' = sGot /\ sLost' = sLost \union ToSet(sCur)
      /\ UNCHANGED <<sArrived, sTaken, sCur>>
  <2>1. /\ sReading = "loop" /\ Serial!return("SerialDeviceReadError")
        /\ sLost' = sLost \union ToSet(sCur) /\ UNCHANGED <<sArrived, sTaken, sCur>>
    BY SameSet DEF Serial!ReadFails, Serial!GoesOn
  <2>2. sReading' = "no" /\ sGot' = sGot
    BY <2>1 DEF Serial!return
  <2> QED BY <2>1, <2>2
<1>2. /\ sGot \in Seq(Nat) /\ sCur \in Seq(Nat) /\ Ascending(Taken)
      /\ ToSet(Taken) \union sLost = 1 .. sTaken /\ ToSet(Taken) \intersect sLost = {}
  BY DEF ReadInv
<1>3. Taken = sGot \o sCur
  BY <1>1 DEF Taken, Serial!InHand
<1>4. Taken' = sGot
  <2>1. Taken' = sGot \o <<>>
    BY <1>1 DEF Taken, Serial!InHand
  <2> QED BY <1>2, <2>1, ConcatEmptySeq
<1>5. Ascending(sGot) /\ ToSet(sGot) \intersect ToSet(sCur) = {}
  BY <1>2, <1>3, Ascends
<1>6. ToSet(Taken) = ToSet(sGot) \union ToSet(sCur)
  BY <1>2, <1>3, Joins
<1>7. ToSet(Taken') \union sLost' = 1 .. sTaken /\ ToSet(Taken') \intersect sLost' = {}
  BY <1>1, <1>2, <1>4, <1>5, <1>6
<1>8. Ascending(Taken)'
  BY <1>4, <1>5 DEF Ascending
<1> QED BY <1>1, <1>2, <1>7, <1>8 DEF ReadInv

\* What has come and was not read is lost when fd is closed.
LEMMA CloseInv == ASSUME ReadInv, SerialSizes, Serial!Close PROVE ReadInv'
<1>1. /\ sTaken' = sArrived /\ sLost' = sLost \union (sTaken + 1 .. sArrived)
      /\ UNCHANGED <<sArrived, sReading, sCur, sGot>>
  BY DEF Serial!Close
<1>2. Taken' = Taken
  BY <1>1 DEF Taken, Serial!InHand
<1>3. /\ sTaken \in Nat /\ sArrived \in Nat /\ sTaken <= sArrived
      /\ ToSet(Taken) \union sLost = 1 .. sTaken /\ ToSet(Taken) \intersect sLost = {}
  BY DEF ReadInv
<1>4. (1 .. sTaken) \union (sTaken + 1 .. sArrived) = 1 .. sArrived
  BY <1>3
<1>5. ToSet(Taken) \intersect (sTaken + 1 .. sArrived) = {}
  <2>1. \A x \in 1 .. sTaken : x \notin sTaken + 1 .. sArrived
    BY <1>3
  <2> QED BY <1>3, <2>1
<1>6. ToSet(Taken') \union sLost' = 1 .. sTaken' /\ ToSet(Taken') \intersect sLost' = {}
  BY <1>1, <1>2, <1>3, <1>4, <1>5
<1>7. Ascending(Taken)'
  BY <1>2 DEF ReadInv, Ascending
<1> QED BY <1>1, <1>3, <1>6, <1>7 DEF ReadInv

\* Every step of the device.
LEMMA ReadKeeps == ASSUME ReadInv, SerialSizes, [Serial!Next]_(Serial!vars) PROVE ReadInv'
<1>1. /\ sReading \in {"no", "loop"} /\ sTaken \in Nat /\ sArrived \in Nat /\ sTaken <= sArrived
      /\ sGot \in Seq(Nat) /\ sCur \in Seq(Nat) /\ Len(sCur) <= maxRead
  BY DEF ReadInv
<1>2. CASE UNCHANGED Serial!reader /\ sArrived' \in {sArrived, sArrived + 1}
  <2>1. UNCHANGED <<sReading, sCur, sGot, sLost, sTaken>>
    BY <1>2 DEF Serial!reader
  <2>2. Taken' = Taken
    BY <2>1 DEF Taken, Serial!InHand
  <2>3. sArrived' \in Nat /\ sTaken <= sArrived'
    BY <1>1, <1>2
  <2> QED BY <1>1, <2>1, <2>2, <2>3, TakenStays
<1>3. CASE Serial!Pass
  <2>1. UNCHANGED <<sArrived, sReading, sCur, sGot, sLost, sTaken>>
    BY <1>3 DEF Serial!Pass
  <2>2. Taken' = Taken
    BY <2>1 DEF Taken, Serial!InHand
  <2> QED BY <1>1, <2>1, <2>2, TakenStays
<1>4. CASE Serial!Read
  <2>1. /\ sReading = "no" /\ sReading' = "loop" /\ sCur' = <<>>
        /\ UNCHANGED <<sArrived, sGot, sLost, sTaken>>
    BY <1>4 DEF Serial!Read
  <2>2. Taken' = Taken
    BY <2>1 DEF Taken, Serial!InHand
  <2>3. sCur' \in Seq(Nat) /\ Len(sCur') <= maxRead
    BY <2>1 DEF SerialSizes
  <2> QED BY <1>1, <2>1, <2>2, <2>3, TakenStays
<1>5. CASE Serial!Leave
  <2>1. /\ sReading = "loop" /\ Serial!return(IF sCur = <<>> THEN "ReadTimeout" ELSE "ok")
        /\ UNCHANGED <<sArrived, sCur, sLost, sTaken>>
    BY <1>5 DEF Serial!Leave
  <2> QED BY <2>1, ReturnsWhole
<1>6. CASE Serial!SelectTimesOut
  <2>1. sReading = "loop" /\ UNCHANGED <<sArrived, sCur, sLost, sTaken>>
    BY <1>6 DEF Serial!SelectTimesOut, Serial!GoesOn
  <2>2. CASE sCur = <<>>
    <3>1. UNCHANGED <<sReading, sGot>>
      BY <1>6, <2>2 DEF Serial!SelectTimesOut
    <3>2. Taken' = Taken
      BY <2>1, <3>1 DEF Taken, Serial!InHand
    <3> QED BY <1>1, <2>1, <3>1, <3>2, TakenStays
  <2>3. CASE sCur # <<>>
    <3>1. Serial!return("ok")
      BY <1>6, <2>3 DEF Serial!SelectTimesOut
    <3> QED BY <2>1, <3>1, ReturnsWhole
  <2> QED BY <2>2, <2>3
<1>7. CASE Serial!ReadBytes
  BY <1>7, ReadBytesInv
<1>8. CASE Serial!ReadFails
  BY <1>8, ReadFailsInv
<1>9. CASE Serial!Close
  BY <1>9, CloseInv
<1>10. Serial!Open \/ Serial!Configure \/ Serial!ConfigureFails \/ Serial!Arrive
       \/ (\E w \in Writer : Serial!Write(w) \/ Serial!WriteSome(w) \/ Serial!WriteFails(w))
         => UNCHANGED Serial!reader /\ sArrived' \in {sArrived, sArrived + 1}
  BY DEF Serial!Open, Serial!Configure, Serial!ConfigureFails, Serial!Arrive, Serial!Write,
         Serial!WriteSome, Serial!WriteFails
<1>11. UNCHANGED Serial!vars => UNCHANGED Serial!reader /\ sArrived' = sArrived
  BY DEF Serial!vars
<1> QED
  BY <1>2, <1>3, <1>4, <1>5, <1>6, <1>7, <1>8, <1>9, <1>10, <1>11 DEF Serial!Next, Serial!ReadLoop

(* For buffers of any size: every byte that was taken from fd is returned  *)
(* once and in order, is in the hands of a call, or was lost when a call   *)
(* failed or fd was closed, wherever a deadline passes                     *)
(* (serial_device_impl.cpp:89-127).                                        *)
THEOREM HostReadsAll == SerialSizes /\ Serial!Spec => []Serial!BytesReturned
<1>1. SerialSizes /\ Serial!Init => ReadInv
  <2> SUFFICES ASSUME SerialSizes, Serial!Init PROVE ReadInv
    OBVIOUS
  <2>1. /\ sArrived = 0 /\ sTaken = 0 /\ sReading = "no" /\ sCur = <<>> /\ sGot = <<>> /\ sLost = {}
    BY DEF Serial!Init
  <2>2. sGot \in Seq(Nat) /\ sCur \in Seq(Nat) /\ Len(sCur) <= maxRead
    BY <2>1 DEF SerialSizes
  <2>3. Taken = <<>>
    <3>1. Taken = sGot \o <<>>
      BY <2>1 DEF Taken, Serial!InHand
    <3> QED BY <2>1, <2>2, <3>1, ConcatEmptySeq
  <2>4. Ascending(Taken) /\ ToSet(Taken) = {}
    BY <2>3 DEF Ascending, ToSet
  <2> QED BY <2>1, <2>2, <2>4 DEF ReadInv
<1>2. SerialSizes /\ ReadInv /\ [Serial!Next]_(Serial!vars) => SerialSizes' /\ ReadInv'
  BY ReadKeeps DEF SerialSizes
<1>3. ReadInv => Serial!BytesReturned
  <2> SUFFICES ASSUME ReadInv PROVE Serial!BytesReturned
    OBVIOUS
  <2>1. ToSet(Taken) \union sLost = 1 .. sTaken /\ ToSet(Taken) \intersect sLost = {}
        /\ Ascending(Taken)
    BY DEF ReadInv
  <2>2. Taken \in Seq(Nat)
    <3>1. Serial!InHand \in Seq(Nat) /\ sGot \in Seq(Nat)
      BY DEF ReadInv, Serial!InHand
    <3> QED BY <3>1, Joins DEF Taken
  <2>3. \A i \in 2 .. Len(Taken) : Taken[i - 1] < Taken[i]
    <3> TAKE i \in 2 .. Len(Taken)
    <3>1. i - 1 \in DOMAIN Taken /\ i \in DOMAIN Taken /\ i - 1 < i
      BY <2>2
    <3> QED BY <2>1, <3>1 DEF Ascending
  <2> DEFINE all == sGot \o Serial!InHand
  <2>4. /\ ToSet(all) \union sLost = 1 .. sTaken /\ ToSet(all) \intersect sLost = {}
        /\ \A i \in 2 .. Len(all) : all[i - 1] < all[i]
    BY <2>1, <2>3 DEF Taken
  <2> HIDE DEF all
  <2>5. Serial!ToSet(all) = ToSet(all)
    BY SameSet
  <2> QED BY <2>4, <2>5 DEF Serial!BytesReturned, all
<1> QED
  BY <1>1, <1>2, <1>3, PTL DEF Serial!Spec

-----------------------------------------------------------------------------
(* One writer of the serial device: what of the buffer in hand is on the   *)
(* line is at its end, and the rest is left; every earlier one is whole,   *)
(* or its write has failed.                                                *)
WholeIn(b, s) ==
  \E i \in DOMAIN s : /\ i + Size - 1 \in DOMAIN s
                      /\ \A k \in DOMAIN s : IF k \in i .. i + Size - 1 THEN s[k] = <<b, k - i + 1>>
                                             ELSE s[k][1] # b

(* The first d bytes of the buffer b are the last of s, and no others of b *)
(* are in s.                                                               *)
Ends(b, s, d) == /\ d \in 0 .. Len(s)
                 /\ \A k \in 1 .. Len(s) : IF k > Len(s) - d THEN s[k] = <<b, k - (Len(s) - d)>>
                                           ELSE s[k][1] # b
Rest(l, b, d) == Len(l) = Size - d /\ \A i \in 1 .. Len(l) : l[i] = <<b, d + i>>

Ended(w) == IF sLeft[w] = <<>> THEN 1 .. sBuffers ELSE (1 .. sBuffers) \ {sBuffers}

WriteInv(w) ==
  /\ Writer = {w} /\ sBuffers \in Nat
  /\ sLeft \in [Writer -> Seq(Nat \X Nat)] /\ sLine \in Seq(Nat \X Nat)
  /\ \A k \in 1 .. Len(sLine) : sLine[k][1] \in 1 .. sBuffers
  /\ sLeft[w] # <<>> =>
       /\ sBuffers # 0
       /\ \E d \in 0 .. Size : Ends(sBuffers, sLine, d) /\ Rest(sLeft[w], sBuffers, d)
  /\ \A b \in Ended(w) \ sFailed : WholeIn(b, sLine)

\* What of the buffer is taken by the kernel goes to the end of the line.
LEMMA EndsGrow ==
  ASSUME SerialSizes, NEW s \in Seq(Nat \X Nat), NEW l \in Seq(Nat \X Nat), NEW b \in Nat,
         NEW d \in 0 .. Size, Ends(b, s, d), Rest(l, b, d), NEW n \in 1 .. Len(l)
  PROVE  LET t == s \o SubSeq(l, 1, n)
             m == SubSeq(l, n + 1, Len(l))
         IN  /\ t \in Seq(Nat \X Nat) /\ m \in Seq(Nat \X Nat) /\ Len(t) = Len(s) + n
             /\ \A k \in 1 .. Len(s) : t[k] = s[k]
             /\ \A k \in 1 .. n : t[Len(s) + k][1] = b
             /\ d + n \in 0 .. Size /\ Ends(b, t, d + n) /\ Rest(m, b, d + n)
             /\ m = <<>> => WholeIn(b, t)
<1> DEFINE u == SubSeq(l, 1, n)
           t == s \o u
           m == SubSeq(l, n + 1, Len(l))
           p == Len(s)
<1>1. Size \in Nat /\ Size > 0 /\ p \in Nat /\ n \in Nat /\ d \in Nat /\ d <= p /\ Len(l) = Size - d
  BY DEF SerialSizes, Ends, Rest
<1>2. u \in Seq(Nat \X Nat) /\ Len(u) = n /\ \A k \in 1 .. n : u[k] = l[k]
  BY <1>1
<1>3. m \in Seq(Nat \X Nat) /\ Len(m) = Len(l) - n /\ \A k \in 1 .. Len(l) - n : m[k] = l[n + k]
  <2>1. l \in Seq(Nat \X Nat) /\ Len(l) \in Nat /\ n \in 1 .. Len(l)
    OBVIOUS
  <2> QED BY <2>1
<1> HIDE DEF u, m
<1>4. /\ t \in Seq(Nat \X Nat) /\ Len(t) = p + n /\ \A k \in 1 .. p : t[k] = s[k]
      /\ \A k \in 1 .. n : t[p + k] = u[k]
  <2>1. s \in Seq(Nat \X Nat) /\ u \in Seq(Nat \X Nat) /\ Len(u) = n
    BY <1>2
  <2> DEFINE S == Nat \X Nat
  <2>2. s \in Seq(S) /\ u \in Seq(S)
    BY <2>1
  <2> HIDE DEF p, S
  <2>3. /\ s \o u \in Seq(S) /\ Len(s \o u) = Len(s) + Len(u)
        /\ \A k \in 1 .. Len(s) : (s \o u)[k] = s[k]
        /\ \A k \in 1 .. Len(u) : (s \o u)[Len(s) + k] = u[k]
    BY <2>2, Joins
  <2> QED BY <2>1, <2>3 DEF p, S
<1> HIDE DEF t, p
<1>5. ASSUME NEW k \in 1 .. n PROVE t[p + k] = <<b, d + k>>
  <2>1. k \in 1 .. Len(l)
    BY <1>1
  <2>2. l[k] = <<b, d + k>>
    BY <2>1 DEF Rest
  <2> QED BY <1>2, <1>4, <2>2
<1>6. ASSUME NEW k \in 1 .. p + n
      PROVE  IF k > p - d THEN t[k] = <<b, k - (p - d)>> ELSE t[k][1] # b
  <2>1. CASE k \in 1 .. p
    BY <1>4, <2>1 DEF Ends, p
  <2>2. CASE k \notin 1 .. p
    <3>1. k - p \in 1 .. n /\ k = p + (k - p) /\ d + (k - p) = k - (p - d) /\ k > p - d
      BY <1>1, <2>2
    <3>2. t[k] = <<b, d + (k - p)>>
      BY <1>5, <3>1
    <3> QED BY <3>1, <3>2
  <2> QED BY <2>1, <2>2
<1>7. d + n \in 0 .. Size /\ d + n \in 0 .. p + n /\ (p + n) - (d + n) = p - d
  BY <1>1
<1>8. Ends(b, t, d + n)
  BY <1>4, <1>6, <1>7 DEF Ends
<1>9. Rest(m, b, d + n)
  <2>1. Len(m) = Size - (d + n)
    BY <1>1, <1>3
  <2>2. ASSUME NEW i \in 1 .. Len(m) PROVE m[i] = <<b, (d + n) + i>>
    <3>1. i \in 1 .. Len(l) - n /\ Len(l) \in Nat
      BY <1>3
    <3>2. n + i \in 1 .. Len(l) /\ d + (n + i) = (d + n) + i
      BY <1>1, <3>1
    <3>3. l[n + i] = <<b, d + (n + i)>>
      BY <3>2 DEF Rest
    <3> QED BY <1>3, <3>1, <3>2, <3>3
  <2> QED BY <2>1, <2>2 DEF Rest
<1>10. ASSUME m = <<>> PROVE WholeIn(b, t)
  <2>1. d + n = Size
    BY <1>1, <1>3, <1>10
  <2> DEFINE i == p - d + 1
  <2>2. i \in 1 .. p + n /\ i + Size - 1 = p + n
    BY <1>1, <2>1
  <2>3. ASSUME NEW k \in 1 .. p + n
        PROVE  IF k \in i .. i + Size - 1 THEN t[k] = <<b, k - i + 1>> ELSE t[k][1] # b
    <3>1. k \in i .. i + Size - 1 <=> k > p - d
      BY <1>1, <2>2
    <3>2. k - i + 1 = k - (p - d)
      BY <1>1
    <3> QED BY <1>6, <3>1, <3>2
  <2>4. DOMAIN t = 1 .. p + n
    BY <1>4
  <2>5. p + n \in 1 .. p + n
    BY <2>2, <1>1
  <2> HIDE DEF i
  <2> QED BY <2>2, <2>3, <2>4, <2>5 DEF WholeIn
<1>11. \A k \in 1 .. n : t[p + k][1] = b
  BY <1>5
<1> QED BY <1>3, <1>4, <1>7, <1>8, <1>9, <1>10, <1>11 DEF u, t, m, p

\* A buffer stays whole when bytes of others follow.
LEMMA WholeStays ==
  ASSUME SerialSizes, NEW s \in Seq(Nat \X Nat), NEW t \in Seq(Nat \X Nat), NEW n \in Nat,
         Len(t) = Len(s) + n, \A k \in 1 .. Len(s) : t[k] = s[k],
         NEW b, \A k \in 1 .. n : t[Len(s) + k][1] # b, WholeIn(b, s)
  PROVE  WholeIn(b, t)
<1> DEFINE p == Len(s)
<1>1. p \in Nat /\ Size \in Nat /\ DOMAIN s = 1 .. p /\ DOMAIN t = 1 .. p + n
  BY DEF SerialSizes
<1>2. PICK i \in 1 .. p : /\ i + Size - 1 \in 1 .. p
                          /\ \A k \in 1 .. p : IF k \in i .. i + Size - 1 THEN s[k] = <<b, k - i + 1>>
                                               ELSE s[k][1] # b
  BY <1>1 DEF WholeIn
<1>3. i \in 1 .. p + n /\ i + Size - 1 \in 1 .. p + n
  BY <1>1, <1>2
<1>4. ASSUME NEW k \in 1 .. p + n
      PROVE  IF k \in i .. i + Size - 1 THEN t[k] = <<b, k - i + 1>> ELSE t[k][1] # b
  <2>1. CASE k \in 1 .. p
    BY <1>2, <2>1
  <2>2. CASE k \notin 1 .. p
    <3>1. k - p \in 1 .. n /\ k = p + (k - p) /\ k \notin i .. i + Size - 1
      <4>1. p \in Nat /\ i \in Nat /\ Size \in Nat /\ i + Size - 1 <= p
        BY <1>1, <1>2
      <4> HIDE DEF p
      <4>2. k > p /\ k <= p + n
        BY <2>2, <4>1
      <4> QED BY <4>1, <4>2
    <3>2. t[p + (k - p)][1] # b
      BY <3>1
    <3> QED BY <3>1, <3>2
  <2> QED BY <2>1, <2>2
<1> HIDE DEF p
<1> QED BY <1>1, <1>3, <1>4 DEF WholeIn

\* A write begins.
LEMMA WriteBegins ==
  ASSUME SerialSizes, NEW w, WriteInv(w), Serial!Write(w)
  PROVE  WriteInv(w)'
<1> DEFINE l == [i \in 1 .. Size |-> <<sBuffers', i>>]
<1>1. /\ sLeft[w] = <<>> /\ sBuffers' = sBuffers + 1 /\ sLeft' = [sLeft EXCEPT ![w] = l]
      /\ UNCHANGED <<sFailed, sLine>>
  BY DEF Serial!Write
<1>2. /\ Writer = {w} /\ sBuffers \in Nat /\ sBuffers' \in Nat /\ Size \in Nat /\ Size > 0
      /\ sLeft \in [Writer -> Seq(Nat \X Nat)] /\ sLine \in Seq(Nat \X Nat)
      /\ \A k \in 1 .. Len(sLine) : sLine[k][1] \in 1 .. sBuffers
      /\ \A b \in 1 .. sBuffers : b \notin sFailed => WholeIn(b, sLine)
  <2>1. Ended(w) = 1 .. sBuffers
    BY <1>1 DEF Ended
  <2>2. sBuffers' \in Nat
    BY <1>1 DEF WriteInv
  <2>3. Size \in Nat /\ Size > 0
    BY DEF SerialSizes
  <2> QED BY <2>1, <2>2, <2>3 DEF WriteInv
<1>3. l \in Seq(Nat \X Nat) /\ Len(l) = Size /\ \A i \in 1 .. Size : l[i] = <<sBuffers', i>>
  <2>1. sBuffers' \in Nat /\ Size \in Nat
    BY <1>2
  <2>2. \A i \in 1 .. Size : i \in Nat
    BY <2>1
  <2>3. \A i \in 1 .. Size : <<sBuffers', i>> \in Nat \X Nat
    BY <2>1, <2>2
  <2>4. l \in [1 .. Size -> Nat \X Nat] /\ \A i \in 1 .. Size : l[i] = <<sBuffers', i>>
    BY <2>3
  <2> HIDE DEF l
  <2>5. l \in Seq(Nat \X Nat) /\ Len(l) = Size
    BY <2>1, <2>4
  <2> QED BY <2>4, <2>5
<1> HIDE DEF l
<1>4. sLeft'[w] = l /\ sLeft' \in [Writer -> Seq(Nat \X Nat)] /\ l # <<>>
  BY <1>1, <1>2, <1>3
<1>5. \A k \in 1 .. Len(sLine) : sLine[k][1] \in 1 .. sBuffers' /\ sLine[k][1] # sBuffers'
  BY <1>1, <1>2
<1>6. Ends(sBuffers', sLine, 0)
  <2>1. Len(sLine) \in Nat
    BY <1>2
  <2> QED BY <1>5, <2>1 DEF Ends
<1>7. Rest(l, sBuffers', 0)
  BY <1>2, <1>3 DEF Rest
<1>8. Ended(w)' = 1 .. sBuffers
  <2>1. (1 .. sBuffers') \ {sBuffers'} = 1 .. sBuffers
    BY <1>1, <1>2
  <2> QED BY <1>4, <2>1 DEF Ended
<1>9. 0 \in 0 .. Size
  BY <1>2
<1>10. sBuffers' # 0 /\ \E d \in 0 .. Size : Ends(sBuffers', sLine', d) /\ Rest(sLeft'[w], sBuffers', d)
  <2>1. sBuffers' # 0
    BY <1>1, <1>2
  <2>2. Ends(sBuffers', sLine', 0) /\ Rest(sLeft'[w], sBuffers', 0)
    BY <1>1, <1>4, <1>6, <1>7
  <2> QED BY <1>9, <2>1, <2>2
<1>11. \A b \in Ended(w)' \ sFailed' : WholeIn(b, sLine')
  BY <1>1, <1>2, <1>8
<1> QED BY <1>1, <1>2, <1>4, <1>5, <1>10, <1>11 DEF WriteInv, Ends, Rest, WholeIn

\* The kernel takes a part of the buffer, or the rest of it.
LEMMA WriteGoesOn ==
  ASSUME SerialSizes, NEW w, WriteInv(w), Serial!WriteSome(w)
  PROVE  WriteInv(w)'
<1> DEFINE l == sLeft[w]
<1>1. PICK n \in 1 .. Len(l) : /\ sLine' = sLine \o SubSeq(l, 1, n)
                               /\ sLeft' = [sLeft EXCEPT ![w] = SubSeq(l, n + 1, Len(l))]
  BY DEF Serial!WriteSome, Serial!advance
<1>2. l # <<>> /\ UNCHANGED <<sFailed, sBuffers>>
  BY DEF Serial!WriteSome
<1>3. /\ Writer = {w} /\ sBuffers \in Nat /\ l \in Seq(Nat \X Nat) /\ sLine \in Seq(Nat \X Nat)
      /\ sLeft \in [Writer -> Seq(Nat \X Nat)]
      /\ \A k \in 1 .. Len(sLine) : sLine[k][1] \in 1 .. sBuffers
      /\ \A b \in (1 .. sBuffers) \ {sBuffers} : b \notin sFailed => WholeIn(b, sLine)
  BY <1>2 DEF WriteInv, Ended
<1>4. PICK d \in 0 .. Size : Ends(sBuffers, sLine, d) /\ Rest(l, sBuffers, d)
  BY <1>2 DEF WriteInv
<1> DEFINE m == SubSeq(l, n + 1, Len(l))
           t == sLine \o SubSeq(l, 1, n)
<1> HIDE DEF l
<1>5. /\ t \in Seq(Nat \X Nat) /\ m \in Seq(Nat \X Nat) /\ Len(t) = Len(sLine) + n
      /\ \A k \in 1 .. Len(sLine) : t[k] = sLine[k]
      /\ \A k \in 1 .. n : t[Len(sLine) + k][1] = sBuffers
      /\ d + n \in 0 .. Size /\ Ends(sBuffers, t, d + n) /\ Rest(m, sBuffers, d + n)
      /\ m = <<>> => WholeIn(sBuffers, t)
  BY <1>3, <1>4, EndsGrow
<1> HIDE DEF m, t
<1>6. sLine' = t /\ sLeft' = [sLeft EXCEPT ![w] = m]
  BY <1>1 DEF m, t
<1>7. sLeft'[w] = m /\ sLeft' \in [Writer -> Seq(Nat \X Nat)]
  BY <1>3, <1>5, <1>6
<1>8. n \in Nat /\ Len(sLine) \in Nat
  BY <1>3
<1>9. sBuffers \in 1 .. sBuffers
  <2>1. sBuffers # 0
    BY <1>2 DEF WriteInv, l
  <2> QED BY <1>3, <2>1
<1>10. ASSUME NEW k \in 1 .. Len(t) PROVE t[k][1] \in 1 .. sBuffers
  <2>1. CASE k \in 1 .. Len(sLine)
    BY <1>3, <1>5, <2>1
  <2>2. CASE k \notin 1 .. Len(sLine)
    <3>1. k - Len(sLine) \in 1 .. n /\ k = Len(sLine) + (k - Len(sLine))
      <4>1. Len(t) = Len(sLine) + n
        BY <1>5
      <4> QED BY <1>8, <2>2, <4>1
    <3>2. t[k][1] = sBuffers
      BY <1>5, <3>1
    <3> QED BY <1>9, <3>2
  <2> QED BY <2>1, <2>2
<1>11. ASSUME NEW b \in (1 .. sBuffers) \ {sBuffers}, b \notin sFailed PROVE WholeIn(b, t)
  <2>1. WholeIn(b, sLine)
    BY <1>3, <1>11
  <2>2. \A k \in 1 .. n : t[Len(sLine) + k][1] # b
    BY <1>5, <1>11
  <2> QED BY <1>3, <1>5, <1>8, <2>1, <2>2, WholeStays
<1>12. \A b \in Ended(w)' \ sFailed' : WholeIn(b, t)
  <2>1. CASE m = <<>>
    BY <1>2, <1>5, <1>7, <1>11, <2>1 DEF Ended
  <2>2. CASE m # <<>>
    <3>1. Ended(w)' = (1 .. sBuffers) \ {sBuffers}
      BY <1>2, <1>7, <2>2 DEF Ended
    <3> QED BY <1>2, <1>11, <3>1
  <2> QED BY <2>1, <2>2
<1>13. \E e \in 0 .. Size : Ends(sBuffers', sLine', e) /\ Rest(sLeft'[w], sBuffers', e)
  BY <1>2, <1>5, <1>6, <1>7
<1>14. \A b \in Ended(w)' \ sFailed' : WholeIn(b, sLine')
  BY <1>6, <1>12
<1>15. \A k \in 1 .. Len(sLine') : sLine'[k][1] \in 1 .. sBuffers'
  BY <1>2, <1>6, <1>10
<1>16. sBuffers' \in Nat /\ sBuffers' # 0 /\ sLine' \in Seq(Nat \X Nat)
  BY <1>2, <1>3, <1>5, <1>6, <1>9
<1> QED BY <1>3, <1>7, <1>13, <1>14, <1>15, <1>16 DEF WriteInv, Ends, Rest, WholeIn

\* A write fails.
LEMMA WriteBreaks ==
  ASSUME SerialSizes, NEW w, WriteInv(w), Serial!WriteFails(w)
  PROVE  WriteInv(w)'
<1>1. /\ sLeft[w] # <<>> /\ sLeft' = [sLeft EXCEPT ![w] = <<>>]
      /\ sFailed' = sFailed \union {Head(sLeft[w])[1]} /\ UNCHANGED <<sBuffers, sLine>>
  BY DEF Serial!WriteFails
<1>2. /\ Writer = {w} /\ sBuffers \in Nat /\ sLeft \in [Writer -> Seq(Nat \X Nat)]
      /\ sLeft[w] \in Seq(Nat \X Nat)
  BY DEF WriteInv
<1>3. Head(sLeft[w])[1] = sBuffers
  <2>1. PICK d \in 0 .. Size : Rest(sLeft[w], sBuffers, d)
    BY <1>1 DEF WriteInv
  <2>2. 1 \in 1 .. Len(sLeft[w]) /\ Head(sLeft[w]) = sLeft[w][1]
    BY <1>1, <1>2
  <2>3. sLeft[w][1] = <<sBuffers, d + 1>>
    BY <2>1, <2>2 DEF Rest
  <2> QED BY <2>2, <2>3
<1>4. sLeft'[w] = <<>> /\ sLeft' \in [Writer -> Seq(Nat \X Nat)]
  BY <1>1, <1>2
<1>5. \A b \in Ended(w)' \ sFailed' : b \in Ended(w) \ sFailed
  BY <1>1, <1>3, <1>4 DEF Ended
<1>6. \A b \in Ended(w)' \ sFailed' : WholeIn(b, sLine')
  BY <1>1, <1>5 DEF WriteInv
<1>7. \A k \in 1 .. Len(sLine') : sLine'[k][1] \in 1 .. sBuffers'
  BY <1>1 DEF WriteInv
<1>8. sBuffers' \in Nat /\ sLine' \in Seq(Nat \X Nat)
  BY <1>1 DEF WriteInv
<1> QED BY <1>2, <1>4, <1>6, <1>7, <1>8 DEF WriteInv, WholeIn

\* Every step of the device, with one writer.
LEMMA WriteKeeps ==
  ASSUME SerialSizes, NEW w, WriteInv(w), [Serial!Next]_(Serial!vars)
  PROVE  WriteInv(w)'
<1>1. CASE UNCHANGED Serial!writer
  <2>1. UNCHANGED <<sLeft, sFailed, sBuffers, sLine>>
    BY <1>1 DEF Serial!writer
  <2>2. Ended(w)' = Ended(w)
    BY <2>1 DEF Ended
  <2>3. \A b \in Ended(w)' \ sFailed' : WholeIn(b, sLine')
    BY <2>1, <2>2 DEF WriteInv
  <2>4. sLeft'[w] # <<>> =>
          /\ sBuffers' # 0
          /\ \E d \in 0 .. Size : Ends(sBuffers', sLine', d) /\ Rest(sLeft'[w], sBuffers', d)
    BY <2>1 DEF WriteInv
  <2>5. /\ Writer = {w} /\ sBuffers' \in Nat /\ sLine' \in Seq(Nat \X Nat)
        /\ sLeft' \in [Writer -> Seq(Nat \X Nat)]
        /\ \A k \in 1 .. Len(sLine') : sLine'[k][1] \in 1 .. sBuffers'
    BY <2>1 DEF WriteInv
  <2> QED BY <2>3, <2>4, <2>5 DEF WriteInv, Ends, Rest, WholeIn
<1>2. CASE \E v \in Writer : Serial!Write(v) \/ Serial!WriteSome(v) \/ Serial!WriteFails(v)
  <2>1. Serial!Write(w) \/ Serial!WriteSome(w) \/ Serial!WriteFails(w)
    BY <1>2 DEF WriteInv
  <2> QED BY <2>1, WriteBegins, WriteGoesOn, WriteBreaks
<1>3. Serial!Open \/ Serial!Configure \/ Serial!ConfigureFails \/ Serial!Close \/ Serial!Arrive
        => UNCHANGED Serial!writer
  BY DEF Serial!Open, Serial!Configure, Serial!ConfigureFails, Serial!Close, Serial!Arrive
<1>4. Serial!Pass \/ Serial!Read \/ Serial!ReadLoop \/ Serial!ReadFails => UNCHANGED Serial!writer
  BY DEF Serial!Pass, Serial!Read, Serial!ReadLoop, Serial!Leave, Serial!ReadBytes,
         Serial!SelectTimesOut, Serial!ReadFails
<1>5. UNCHANGED Serial!vars => UNCHANGED Serial!writer
  BY DEF Serial!vars
<1> QED BY <1>1, <1>2, <1>3, <1>4, <1>5 DEF Serial!Next

(* With one writer, for buffers of any size: one that was written without  *)
(* an error is on the line whole, once and in one piece, in whatever parts *)
(* the kernel takes it and whatever writes have failed                     *)
(* (serial_device_impl.cpp:129-144).                                       *)
THEOREM HostWritesWhole ==
  ASSUME NEW w
  PROVE  SerialSizes /\ Writer = {w} /\ Serial!Spec => []Serial!WholeUnlessFailed
<1>1. SerialSizes /\ Writer = {w} /\ Serial!Init => WriteInv(w)
  <2> SUFFICES ASSUME SerialSizes, Writer = {w}, Serial!Init PROVE WriteInv(w)
    OBVIOUS
  <2>1. sLeft = [v \in Writer |-> <<>>] /\ sBuffers = 0 /\ sLine = <<>>
    BY DEF Serial!Init
  <2>2. sLeft[w] = <<>> /\ sLeft \in [Writer -> Seq(Nat \X Nat)]
    BY <2>1
  <2>3. Ended(w) = {}
    BY <2>1, <2>2 DEF Ended
  <2> QED BY <2>1, <2>2, <2>3 DEF WriteInv
<1>2. SerialSizes /\ WriteInv(w) /\ [Serial!Next]_(Serial!vars) => SerialSizes' /\ WriteInv(w)'
  BY WriteKeeps DEF SerialSizes
<1>3. WriteInv(w) => Serial!WholeUnlessFailed
  <2> SUFFICES ASSUME WriteInv(w), NEW b \in Serial!Written PROVE WholeIn(b, sLine)
    BY DEF Serial!WholeUnlessFailed, WholeIn
  <2>1. b \in 1 .. sBuffers /\ b \notin sFailed /\ (sLeft[w] = <<>> \/ Head(sLeft[w])[1] # b)
    BY DEF Serial!Written, WriteInv
  <2>2. ASSUME sLeft[w] # <<>> PROVE Head(sLeft[w])[1] = sBuffers
    <3>1. PICK d \in 0 .. Size : Rest(sLeft[w], sBuffers, d)
      BY <2>2 DEF WriteInv
    <3>2. sLeft[w] \in Seq(Nat \X Nat)
      BY DEF WriteInv
    <3>3. 1 \in 1 .. Len(sLeft[w]) /\ Head(sLeft[w]) = sLeft[w][1]
      BY <2>2, <3>2
    <3>4. sLeft[w][1] = <<sBuffers, d + 1>>
      BY <3>1, <3>3 DEF Rest
    <3> QED BY <3>3, <3>4
  <2>3. b \in Ended(w) \ sFailed
    BY <2>1, <2>2 DEF Ended
  <2> QED BY <2>3 DEF WriteInv
<1> QED
  BY <1>1, <1>2, <1>3, PTL DEF Serial!Spec
=============================================================================
