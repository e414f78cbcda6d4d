----------------------------- MODULE Stoppable -----------------------------
(***************************************************************************)
(* What Thread (src/common/include/spacket/thread.h) promises its owners,  *)
(* the devices, on both ports: a function that runs until its own owner    *)
(* asks it to stop, and that has returned before wait does.                *)
(***************************************************************************)
CONSTANT Owner

VARIABLE phase

Init == phase = [o \in Owner |-> "idle"]

Become(o, from, to) == phase[o] = from /\ phase' = [phase EXCEPT ![o] = to]

create(o) == Become(o, "idle", "running")
requestStop(o) == Become(o, "running", "asked")
Returns(o) == Become(o, "asked", "returned")
wait(o) == Become(o, "returned", "idle")

Next == \E o \in Owner : create(o) \/ requestStop(o) \/ Returns(o) \/ wait(o)

(* An owner that has asked waits, and gets its thread back. *)
Fairness == \A o \in Owner : WF_phase(Returns(o)) /\ WF_phase(wait(o))

Spec == Init /\ [][Next]_phase /\ Fairness
=============================================================================
