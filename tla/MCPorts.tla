------------------------------ MODULE MCPorts ------------------------------
(* The mailboxes and the threads of both ports and the serial device of    *)
(* the host, checked side by side: a behaviour is one of LinuxMailbox, of  *)
(* Mailbox as a queue or as a device uses it, of LinuxThread, of           *)
(* ChibiosThread or of LinuxSerialDevice, as "machine" says, while the     *)
(* others stay in their initial states.                                    *)
EXTENDS LinuxMailbox, Mailbox

CONSTANTS post1, post2, device, fetch1, fetch2, fetch3, packets, serial

VARIABLES machine,
          dStorage, dWrptr, dRdptr, dCnt, dQw, dQr, dOp, dMsg, dPatient, dGot, dResult,
          lPtr, lValue, lPromise, lThread, lOwner, lFault,
          cFunction, cStored, cTerminate, cResult, cMember, cThread, cOwner, cFault,
          sFd, sStep, sArrived, sTaken, sReading, sCur, sLate, sPast, sResult, sGot, sLost,
          sLeft, sFailed, sBuffers, sLine

(* Two threads post to a queue of two and two fetch from it. *)
QueueThread == {post1, post2, fetch1, fetch2}
QueueRole == [t \in QueueThread |-> IF t \in {post1, post2} THEN "post" ELSE "fetch"]

(* A device replaces the message of its mailbox, three clients fetch. *)
DeviceThread == {device, fetch1, fetch2, fetch3}
Device == INSTANCE Mailbox WITH
    Thread <- DeviceThread, SIZE <- 1,
    Role <- [t \in DeviceThread |-> IF t = device THEN "replace" ELSE "fetch"],
    storage <- dStorage, wrptr <- dWrptr, rdptr <- dRdptr, cnt <- dCnt, qw <- dQw, qr <- dQr,
    op <- dOp, msg <- dMsg, patient <- dPatient, got <- dGot, result <- dResult

Owner == {packets, serial}
Host == INSTANCE LinuxThread WITH
    ptr <- lPtr, value <- lValue, promise <- lPromise, thread <- lThread, owner <- lOwner,
    fault <- lFault
Firmware == INSTANCE ChibiosThread WITH
    function <- cFunction, stored <- cStored, terminate <- cTerminate, result <- cResult,
    member <- cMember, thread <- cThread, owner <- cOwner, fault <- cFault

(* Three bytes arrive, in buffers of two; two buffers of three are written. *)
Serial == INSTANCE LinuxSerialDevice WITH
    maxRead <- 2, Writer <- {serial}, Size <- 3, MaxIn <- 3, MaxOut <- 2,
    fd <- sFd, step <- sStep, arrived <- sArrived, taken <- sTaken, reading <- sReading,
    cur <- sCur, late <- sLate, past <- sPast, result <- sResult, got <- sGot, lost <- sLost,
    left <- sLeft, failed <- sFailed, buffers <- sBuffers, line <- sLine

deviceVars == <<dStorage, dWrptr, dRdptr, dCnt, dQw, dQr, dOp, dMsg, dPatient, dGot, dResult>>
hostVars == <<lPtr, lValue, lPromise, lThread, lOwner, lFault>>
firmwareVars == <<cFunction, cStored, cTerminate, cResult, cMember, cThread, cOwner, cFault>>
serialVars == <<sFd, sStep, sArrived, sTaken, sReading, sCur, sLate, sPast, sResult, sGot, sLost,
                sLeft, sFailed, sBuffers, sLine>>
allVars == <<machine, linuxVars, vars, deviceVars, hostVars, firmwareVars, serialVars>>

AnyInit == /\ machine \in {"slot", "queue", "device", "host", "firmware", "serial"}
           /\ LinuxInit /\ Init /\ Device!Init /\ Host!Init /\ Firmware!Init /\ Serial!Init

SlotStep == /\ machine = "slot" /\ LinuxNext
            /\ UNCHANGED <<machine, vars, deviceVars, hostVars, firmwareVars, serialVars>>
QueueStep == /\ machine = "queue" /\ Next
             /\ UNCHANGED <<machine, linuxVars, deviceVars, hostVars, firmwareVars, serialVars>>
DeviceStep == /\ machine = "device" /\ Device!Next
              /\ UNCHANGED <<machine, linuxVars, vars, hostVars, firmwareVars, serialVars>>
HostStep == /\ machine = "host" /\ Host!Next
            /\ UNCHANGED <<machine, linuxVars, vars, deviceVars, firmwareVars, serialVars>>
FirmwareStep == /\ machine = "firmware" /\ Firmware!Next
                /\ UNCHANGED <<machine, linuxVars, vars, deviceVars, hostVars, serialVars>>
SerialStep == /\ machine = "serial" /\ Serial!Next
              /\ UNCHANGED <<machine, linuxVars, vars, deviceVars, hostVars, firmwareVars>>

AnyNext == SlotStep \/ QueueStep \/ DeviceStep \/ HostStep \/ FirmwareStep \/ SerialStep

(* The fairness of each machine's own specification. *)
AnyFairness ==
    /\ \A r \in Reader : WF_linuxVars(machine = "slot" /\ LinuxTurn(r))
    /\ \A t \in Thread : WF_vars(machine = "queue" /\ Turn(t))
    /\ \A t \in DeviceThread : WF_deviceVars(machine = "device" /\ Device!Turn(t))
    /\ \A o \in Owner :
          /\ WF_hostVars(machine = "host" /\ Host!ThreadRuns(o))
          /\ WF_hostVars(machine = "host" /\ Host!constructed(o))
          /\ WF_hostVars(machine = "host" /\ Host!wait(o))
          /\ WF_firmwareVars(machine = "firmware" /\ Firmware!ThreadRuns(o))
          /\ WF_firmwareVars(machine = "firmware" /\ Firmware!wait(o))
    /\ WF_serialVars(machine = "serial" /\ Serial!ReadLoop)
    /\ WF_serialVars(machine = "serial" /\ Serial!Pass)

AnySpec == AnyInit /\ [][AnyNext]_allVars /\ AnyFairness

-----------------------------------------------------------------------------
(* With a sole producer the two critical sections of replace look like one *)
(* step that never fails (mailbox_impl_p.h:228-240).                       *)
DeviceIsSlot == /\ Device!ImplementsDeviceSlot
                /\ [](Device!TypeOK /\ Device!LiveExactly /\ Device!ReplaceNeverFails)

(* A message does not stay with a thread that sleeps for one, nor a free   *)
(* place with a thread that sleeps for one, in any of the mailboxes: one   *)
(* wake-up is given for each of them, and none is taken back when another  *)
(* thread overtakes the woken one (mailbox_impl_p.h:84-105,156-179).       *)
EveryoneServed == /\ [](NoLostWakeup /\ Device!NoLostWakeup /\ NoLostNotification)
                  /\ WaitersServed /\ SleepersServed /\ Device!SleepersServed

(* The threads of both ports end when their own owner asks, and no request *)
(* goes through a null or dangling pointer (thread_impl_p.h:34-84 and      *)
(* 38-74).                                                                 *)
ThreadsStoppable == /\ Host!ImplementsStoppable /\ Firmware!ImplementsStoppable
                    /\ [](Host!NoFault /\ Firmware!NoFault)

(* The host's device returns every byte once and in order, also when the   *)
(* deadline passes within a burst, a read returns whatever the line does,  *)
(* and a buffer written without an error is on the line in one piece       *)
(* (serial_device_impl.cpp:72-144).                                        *)
HostDevice == /\ [](Serial!TypeOK /\ Serial!BytesReturned /\ Serial!WholeUnlessFailed)
              /\ Serial!ReadReturns
=============================================================================
