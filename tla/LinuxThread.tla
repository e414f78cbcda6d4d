---------------------------- MODULE LinuxThread ----------------------------
(***************************************************************************)
(* ThreadImpl of the host (src/linux/include/spacket/impl/thread_impl_p.h) *)
(* and Thread (src/common/include/spacket/thread.h) as the devices use     *)
(* them: a thread is created, its handle moved to a member; the thread's   *)
(* function returns when shouldStop says so; the owner calls requestStop   *)
(* and wait.  The flag is a thread_local of the thread and the handle has  *)
(* a pointer to it, written by the thread itself: through "this" of the    *)
(* constructor, before the handle is moved.                                *)
(***************************************************************************)
EXTENDS Integers

CONSTANTS Owner   \* each has one thread at a time

VARIABLES ptr,     \* shouldStopPtr of the constructor's object and of the member: "null" or "flag"
          value,   \* ShouldStop::value of the thread; "none" when there is no thread
          promise,
          thread,  \* the thread's place
          owner,   \* its owner's place
          fault    \* a write through a null pointer or to the flag of a thread that is gone

vars == <<ptr, value, promise, thread, owner, fault>>

Init == /\ ptr = [o \in Owner |-> [result |-> "null", member |-> "null"]]
        /\ value = [o \in Owner |-> "none"]
        /\ promise = [o \in Owner |-> FALSE]
        /\ thread = [o \in Owner |-> "none"]
        /\ owner = [o \in Owner |-> "idle"]
        /\ fault = FALSE

Step(var, o, from, to) == var[o] = from /\ var' = [var EXCEPT ![o] = to]

-----------------------------------------------------------------------------
(* The owner. *)
create(o) == /\ Step(owner, o, "idle", "constructing")
             /\ thread' = [thread EXCEPT ![o] = "spawned"]
             /\ promise' = [promise EXCEPT ![o] = FALSE]
             /\ ptr' = [ptr EXCEPT ![o].result = "null"]
             /\ UNCHANGED <<value, fault>>

(* future.wait() *)
constructed(o) == /\ promise[o]
                  /\ Step(owner, o, "constructing", "constructed")
                  /\ UNCHANGED <<ptr, value, promise, thread, fault>>

move(o) == /\ Step(owner, o, "constructed", "using")
           /\ ptr' = [ptr EXCEPT ![o] = [result |-> "null", member |-> ptr[o].result]]
           /\ UNCHANGED <<value, promise, thread, fault>>

requestStop(o) == /\ Step(owner, o, "using", "waiting")
                  /\ IF ptr[o].member = "null" \/ value[o] = "none"
                     THEN fault' = TRUE /\ UNCHANGED value
                     ELSE value' = [value EXCEPT ![o] = "TRUE"] /\ UNCHANGED fault
                  /\ UNCHANGED <<ptr, promise, thread>>

(* join; the pointer stays. *)
wait(o) == /\ thread[o] = "returned"
           /\ Step(owner, o, "waiting", "idle")
           /\ thread' = [thread EXCEPT ![o] = "none"]
           /\ UNCHANGED <<ptr, value, promise, fault>>

(* The lambda of the constructor. *)
initialize(o) == /\ Step(thread, o, "spawned", "initialized")
                 /\ value' = [value EXCEPT ![o] = "FALSE"]
                 /\ UNCHANGED <<ptr, promise, owner, fault>>

publish(o) == /\ Step(thread, o, "initialized", "published")
              /\ ptr' = [ptr EXCEPT ![o].result = IF owner[o] = "constructing" THEN "flag" ELSE @]
              /\ UNCHANGED <<value, promise, owner, fault>>

set_value(o) == /\ Step(thread, o, "published", "running")
                /\ promise' = [promise EXCEPT ![o] = TRUE]
                /\ UNCHANGED <<ptr, value, owner, fault>>

(* f(), which tests shouldStop again and again, and the thread's end. *)
shouldStop(o) == value[o] = "TRUE"

returns(o) == /\ shouldStop(o)
              /\ Step(thread, o, "running", "returned")
              /\ value' = [value EXCEPT ![o] = "none"]
              /\ UNCHANGED <<ptr, promise, owner, fault>>

ThreadRuns(o) == initialize(o) \/ publish(o) \/ set_value(o) \/ returns(o)
Next == \E o \in Owner : \/ ThreadRuns(o) \/ create(o) \/ constructed(o)
                       \/ move(o) \/ requestStop(o) \/ wait(o)

(* Threads are scheduled, and an owner that has asked waits. *)
Fairness == \A o \in Owner : WF_vars(ThreadRuns(o)) /\ WF_vars(constructed(o)) /\ WF_vars(wait(o))
Spec == Init /\ [][Next]_vars /\ Fairness

-----------------------------------------------------------------------------
TypeOK == /\ ptr \in [Owner -> [result : {"null", "flag"}, member : {"null", "flag"}]]
          /\ value \in [Owner -> {"none", "FALSE", "TRUE"}]
          /\ \A o \in Owner : value[o] # "none" <=> thread[o] \in {"initialized", "published", "running"}
          /\ promise \in [Owner -> BOOLEAN]
          /\ thread \in [Owner -> {"none", "spawned", "initialized", "published", "running", "returned"}]
          /\ owner \in [Owner -> {"idle", "constructing", "constructed", "using", "waiting"}]

(* requestStop of the member always reaches the flag of a live thread,     *)
(* though the pointer was written by another thread to another object, and *)
(* the member's own is left dangling by wait                               *)
(* (thread_impl_p.h:62-66,69-84).                                          *)
NoFault == ~fault

(* A request is not lost to the thread's own initialization of its flag,   *)
(* and does not stop another one: the host's threads are Stoppable         *)
(* (thread_impl_p.h:62-66,76-83).                                          *)
Phase(o) == CASE owner[o] \in {"idle", "constructing", "constructed"} -> "idle"
              [] owner[o] = "using" /\ thread[o] # "returned" -> "running"
              [] owner[o] = "waiting" /\ thread[o] # "returned" -> "asked"
              [] thread[o] = "returned" -> "returned"
Abstract == INSTANCE Stoppable WITH phase <- [o \in Owner |-> Phase(o)]
ImplementsStoppable == Abstract!Spec
=============================================================================
