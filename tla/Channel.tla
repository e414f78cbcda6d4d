------------------------------ MODULE Channel ------------------------------
(***************************************************************************)
(* What QueueT promises (lib/chibios/include/spacket/impl/mailbox_impl_p.h *)
(* 20-223): a bounded first-in first-out channel.  got[c] is the message   *)
(* the last fetch of c returned, NoMessage when it returned none.          *)
(***************************************************************************)
EXTENDS Naturals, Sequences

CONSTANTS Client, Message, NoMessage, Capacity

VARIABLES channel, got

vars == <<channel, got>>

Init == channel = <<>> /\ got = [c \in Client |-> NoMessage]

Send == /\ Len(channel) < Capacity
        /\ \E m \in Message : channel' = Append(channel, m)
        /\ UNCHANGED got

Receive(c) == /\ channel # <<>>
              /\ channel' = Tail(channel)
              /\ got' = [got EXCEPT ![c] = Head(channel)]

(* The client asks anew and forgets what it was given. *)
Ask(c) == /\ got' = [got EXCEPT ![c] = NoMessage]
          /\ UNCHANGED channel

Next == Send \/ \E c \in Client : Receive(c) \/ Ask(c)

Spec == Init /\ [][Next]_vars
=============================================================================
