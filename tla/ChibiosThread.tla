--------------------------- MODULE ChibiosThread ---------------------------
(***************************************************************************)
(* ThreadImpl of the firmware (src/chibios/include/spacket/impl/           *)
(* thread_impl_p.h) as the devices use it.  The thread, its function and   *)
(* its stack are in a storage that outlives the handle and is used again;  *)
(* a handle is a pointer to the storage, which a move copies.  A thread of *)
(* a higher priority runs before chThdCreateStatic returns.                *)
(*                                                                         *)
(* Operators named ...Faulty are wrong on purpose and used nowhere.        *)
(***************************************************************************)
EXTENDS Integers

CONSTANTS Owner   \* each has one storage

VARIABLES function,  \* whether storage.function is the owner's
          stored,    \* whether storage.thread is set
          terminate, \* the thread's CH_FLAG_TERMINATE
          result, member,  \* whether the handle returned and the owner's point to the storage
          thread,    \* the thread's place
          owner,     \* its owner's place
          fault      \* a stack in use given to another thread, a call of no function,
                     \* a request through no pointer

vars == <<function, stored, terminate, result, member, thread, owner, fault>>

Init == /\ function = [o \in Owner |-> FALSE] /\ stored = [o \in Owner |-> FALSE]
        /\ terminate = [o \in Owner |-> FALSE]
        /\ result = [o \in Owner |-> FALSE] /\ member = [o \in Owner |-> FALSE]
        /\ thread = [o \in Owner |-> "none"] /\ owner = [o \in Owner |-> "idle"]
        /\ fault = FALSE

Step(var, o, from, to) == var[o] = from /\ var' = [var EXCEPT ![o] = to]
Set(var, o, to) == var' = [var EXCEPT ![o] = to]

-----------------------------------------------------------------------------
assign(o) == /\ Step(owner, o, "idle", "assigned")
             /\ Set(function, o, TRUE)
             /\ UNCHANGED <<stored, terminate, result, member, thread, fault>>

chThdCreateStatic(o) == /\ Step(owner, o, "assigned", "created")
                        /\ Set(thread, o, "ready") /\ Set(terminate, o, FALSE)
                        /\ fault' = (fault \/ thread[o] \in {"ready", "running"})
                        /\ UNCHANGED <<function, stored, result, member>>

create(o) == /\ Step(owner, o, "created", "returned")
             /\ Set(stored, o, TRUE) /\ Set(result, o, TRUE)
             /\ UNCHANGED <<function, terminate, member, thread, fault>>

(* The handle returned keeps its pointer and dies. *)
move(o) == /\ Step(owner, o, "returned", "using")
           /\ Set(member, o, result[o]) /\ Set(result, o, FALSE)
           /\ UNCHANGED <<function, stored, terminate, thread, fault>>

requestStop(o) == /\ Step(owner, o, "using", "waiting")
                  /\ IF member[o] /\ stored[o] THEN Set(terminate, o, TRUE) /\ UNCHANGED fault
                     ELSE fault' = member[o] /\ UNCHANGED terminate
                  /\ UNCHANGED <<function, stored, result, member, thread>>

(* chThdWait of a thread that has ended returns at once. *)
wait(o) == /\ member[o] => thread[o] = "final"
           /\ Step(owner, o, "waiting", "idle")
           /\ Set(member, o, FALSE)
           /\ UNCHANGED <<function, stored, terminate, result, thread, fault>>

threadFunction(o) == /\ Step(thread, o, "ready", "running")
                     /\ fault' = (fault \/ ~function[o])
                     /\ UNCHANGED <<function, stored, terminate, result, member, owner>>

shouldStopFaulty(o) == \E p \in Owner : terminate[p]
shouldStop(o) == terminate[o]

returns(o) == /\ shouldStop(o)
              /\ Step(thread, o, "running", "final")
              /\ UNCHANGED <<function, stored, terminate, result, member, owner, fault>>

ThreadRuns(o) == threadFunction(o) \/ returns(o)
Next == \E o \in Owner : \/ ThreadRuns(o) \/ assign(o) \/ chThdCreateStatic(o) \/ create(o)
                         \/ move(o) \/ requestStop(o) \/ wait(o)

(* Threads are scheduled, and an owner that has asked waits. *)
Fairness == \A o \in Owner : WF_vars(ThreadRuns(o)) /\ WF_vars(wait(o))
Spec == Init /\ [][Next]_vars /\ Fairness

-----------------------------------------------------------------------------
TypeOK == /\ function \in [Owner -> BOOLEAN] /\ stored \in [Owner -> BOOLEAN]
          /\ terminate \in [Owner -> BOOLEAN]
          /\ result \in [Owner -> BOOLEAN] /\ member \in [Owner -> BOOLEAN]
          /\ thread \in [Owner -> {"none", "ready", "running", "final"}]
          /\ owner \in [Owner -> {"idle", "assigned", "created", "returned", "using", "waiting"}]
          /\ fault \in BOOLEAN
          /\ \A o \in Owner : member[o] <=> owner[o] \in {"using", "waiting"}

(* The storage is used again only when the thread in it has ended, though  *)
(* the member alone knows of it, and is empty after wait; whoever runs     *)
(* first after chThdCreateStatic finds what it needs                       *)
(* (thread_impl_p.h:38-47,69-74).                                          *)
NoFault == ~fault

(* The firmware's threads are Stoppable: they end when their own owner     *)
(* asks, and before its wait (thread_impl_p.h:59-65,69-74).                *)
Phase(o) == CASE owner[o] \in {"idle", "assigned", "created", "returned"} -> "idle"
              [] owner[o] = "using" -> "running"
              [] owner[o] = "waiting" -> IF thread[o] = "final" THEN "returned" ELSE "asked"
Abstract == INSTANCE Stoppable WITH phase <- [o \in Owner |-> Phase(o)]
ImplementsStoppable == Abstract!Spec
=============================================================================
