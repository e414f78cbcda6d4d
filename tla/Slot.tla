-------------------------------- MODULE Slot --------------------------------
(***************************************************************************)
(* What a mailbox promises to the devices built on it: one slot that holds *)
(* the newest message.  A replace puts its message in place of whatever is *)
(* there in one step, a fetch takes it out.  A fetch that times out takes  *)
(* nothing; it does not promise that the slot was empty.                   *)
(***************************************************************************)
CONSTANTS Reader, Message, NoMessage

VARIABLES slot, got

vars == <<slot, got>>

Init == slot = NoMessage /\ got = [r \in Reader |-> NoMessage]

Replace == slot' \in Message /\ UNCHANGED got

Fetch(r) == /\ slot # NoMessage
            /\ got' = [got EXCEPT ![r] = slot]
            /\ slot' = NoMessage

Ask(r) == got' = [got EXCEPT ![r] = NoMessage] /\ UNCHANGED slot

Next == Replace \/ \E r \in Reader : Fetch(r) \/ Ask(r)

Spec == Init /\ [][Next]_vars
=============================================================================
