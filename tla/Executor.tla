------------------------------ MODULE Executor ------------------------------
(***************************************************************************)
(* ExecutorT (src/common/include/spacket/executor.h): deferred procedures  *)
(* in a ring, executed one at a time by the main loop.  A procedure may    *)
(* itself defer one: the polling and reading loops of the firmware go on   *)
(* in this way.                                                            *)
(*                                                                         *)
(* Operators named ...Faulty are wrong on purpose and used nowhere.        *)
(***************************************************************************)
EXTENDS Ring

VARIABLES ring,
          running,   \* dp, the procedure that executeOne has moved out of the ring
          deferred   \* whether it has deferred another yet

vars == <<ring, running, deferred>>

Init == ring = Empty /\ running = None /\ deferred = FALSE

(* ExecutorT::defer; a procedure that finds the ring full is destroyed. *)
defer(p) == ring' = put(ring, p)

(* From outside of the executor, before and between its steps. *)
Defer(p) == running = None /\ defer(p) /\ UNCHANGED <<running, deferred>>

executeOneFaulty == /\ running = None /\ ~empty(ring)
                    /\ running' = tail(ring)
                    /\ deferred' = FALSE
                    /\ UNCHANGED ring

executeOneFaulty2 == LET h == (ring.headIndex + Capacity) % (Capacity + 1)
                     IN  /\ running = None /\ ~empty(ring)
                         /\ running' = ring.array[h]
                         /\ ring' = [ring EXCEPT !.array[h] = None, !.headIndex = h]
                         /\ deferred' = FALSE

executeOne == /\ running = None /\ ~empty(ring)
              /\ running' = tail(ring)
              /\ ring' = eraseTail(ring)
              /\ deferred' = FALSE

(* Within dp(). *)
DeferNext(p) == running # None /\ ~deferred /\ defer(p) /\ deferred' = TRUE /\ UNCHANGED running

Return == running # None /\ running' = None /\ deferred' = FALSE /\ UNCHANGED ring

Next == (\E p \in T : Defer(p) \/ DeferNext(p)) \/ executeOne \/ Return

(* The main loop calls executeOne again and again, and procedures return. *)
Spec == Init /\ [][Next]_vars /\ WF_vars(executeOne) /\ WF_vars(Return)

-----------------------------------------------------------------------------
TypeOK == ring \in RingT /\ running \in T \union {None} /\ deferred \in BOOLEAN

(* An element lives in a slot exactly while it is in the queue: what a     *)
(* procedure has captured is released with it (ring.h:34-49).              *)
LiveExactly == \A i \in Index : ring.array[i] # None <=> Holds(ring, i)

(* However full the ring was, the procedure that runs can defer another in *)
(* its place, for executeOne has freed its slot before the call            *)
(* (executor.h:24-27): no loop of the firmware ends by ExecutorRingFull.   *)
RoomForNext == running # None /\ ~deferred => canPut(ring)

(* The ring with its wrapping indices is a bounded channel: procedures run *)
(* in the order they were deferred in, each once (ring.h, executor.h).     *)
FIFO == INSTANCE Channel WITH Client <- {"executeOne"}, Message <- T, NoMessage <- None,
                              channel <- Contents(ring), got <- [c \in {"executeOne"} |-> running]
ImplementsChannel == FIFO!Spec

(* Whatever is deferred is executed, though others are deferred all the    *)
(* time (executor.h:21-38).                                                *)
EveryoneRuns == \A p \in T : p \in {ring.array[i] : i \in Index} ~> running = p
=============================================================================
