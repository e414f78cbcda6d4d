----------------------------- MODULE MCModules -----------------------------
(* The modules of src/common that the firmware is built from and that no   *)
(* other run composes, checked side by side: a behaviour is one of         *)
(* Executor, of Ownership, of Uart or of ModuleStack, as "machine" says,   *)
(* while the others stay in their initial states.                          *)
EXTENDS Executor, Ownership, Uart

VARIABLES machine,
          sDowns, sUps, sLine, sPktz, sSlots, sReading, sFatal, sWritten, sCame, sDelivered,
          sSpoiled

(* Packets of no byte, of one, and of more than fits the buffers, to two   *)
(* addresses, one of which has a slot at most, and a CRC that no other     *)
(* byte of a frame is equal to.                                            *)
Packets == {<<>>, <<0>>, <<0, 0, 0, 0>>}
ToyCrc == [p \in {<<a>> \o s : a \in {0, 1}, s \in Packets} |->
              IF Len(p) = 1 THEN 10 + p[1] ELSE 5 + Len(p) + p[1]]
Stack == INSTANCE ModuleStack WITH
    K <- 12, maxSize <- 6, MAX_STACKS <- 1, Address <- {0, 1}, Payload <- Packets, Crc <- ToyCrc,
    NumProc <- 1, MaxWritten <- 2,
    downs <- sDowns, ups <- sUps, line <- sLine, pktz <- sPktz, slots <- sSlots,
    reading <- sReading, fatal <- sFatal, written <- sWritten, came <- sCame,
    delivered <- sDelivered, spoiled <- sSpoiled

executorVars == <<ring, running, deferred>>
stackVars == <<sDowns, sUps, sLine, sPktz, sSlots, sReading, sFatal, sWritten, sCame, sDelivered,
               sSpoiled>>
allVars == <<machine, executorVars, poolVars, uartVars, stackVars>>

AnyInit == /\ machine \in {"executor", "blocks", "driver", "stack"}
           /\ Init /\ PoolInit /\ UartInit /\ Stack!Init

ExecutorStep == /\ machine = "executor" /\ Next
                /\ UNCHANGED <<machine, poolVars, uartVars, stackVars>>
BlocksStep == /\ machine = "blocks" /\ PoolNext
              /\ UNCHANGED <<machine, executorVars, uartVars, stackVars>>
DriverStep == /\ machine = "driver" /\ UartNext
              /\ UNCHANGED <<machine, executorVars, poolVars, stackVars>>
StackStep == /\ machine = "stack" /\ Stack!Next
             /\ UNCHANGED <<machine, executorVars, poolVars, uartVars>>

AnyNext == ExecutorStep \/ BlocksStep \/ DriverStep \/ StackStep

(* The fairness of each machine's own specification. *)
AnySpec == /\ AnyInit /\ [][AnyNext]_allVars
           /\ WF_executorVars(machine = "executor" /\ executeOne)
           /\ WF_executorVars(machine = "executor" /\ Return)
           /\ WF_uartVars(machine = "driver" /\ txFinishI)
           /\ WF_uartVars(machine = "driver" /\ Stopping)

-----------------------------------------------------------------------------
(* Endpoints read what was written to them, in order and once, and while   *)
(* nothing is lost all that fits arrives (packetizer_module.h, crc.h,      *)
(* cobs_module.h, multistack.h, endpoint.h).                               *)
StackDelivers == machine = "stack" => /\ Stack!TypeOK /\ Stack!DeliveredInOrder
                                      /\ Stack!BoxedWithin /\ Stack!AllArrive

(* Whatever is deferred is executed (executor.h:21-38), and a buffer to    *)
(* send is sent or given back by stop() (uart.h:191-201,248-279).          *)
Served == EveryoneRuns /\ RequestsComplete
=============================================================================
