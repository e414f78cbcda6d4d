---------------------------- MODULE StagedQueue ----------------------------
(***************************************************************************)
(* What a ring of spacket/special_ring.h promises to its users: a bounded  *)
(* FIFO whose elements pass two stages.  An element is queued when it is   *)
(* handed to the hardware's side, becomes ready when the hardware is done  *)
(* with it, and leaves in the order in which it came.                      *)
(***************************************************************************)
EXTENDS Naturals, Sequences

CONSTANTS
  Item,      \* the elements that may be put
  Capacity   \* how many elements the queue holds, both stages together

VARIABLES
  queued,    \* put, not finished by the hardware yet
  ready      \* finished by the hardware, not taken yet

Init ==
  /\ queued = << >>
  /\ ready  = << >>

Put(x) ==
  /\ Len(queued) + Len(ready) < Capacity
  /\ queued' = Append(queued, x)
  /\ UNCHANGED ready

Finish ==
  /\ queued # << >>
  /\ queued' = Tail(queued)
  /\ ready'  = Append(ready, Head(queued))

Get ==
  /\ ready # << >>
  /\ ready' = Tail(ready)
  /\ UNCHANGED queued

Next == (\E x \in Item : Put(x)) \/ Finish \/ Get

Spec == Init /\ [][Next]_<<queued, ready>>
=============================================================================
