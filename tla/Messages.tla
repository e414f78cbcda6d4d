------------------------------ MODULE Messages ------------------------------
(* What the mailboxes of both ports carry. *)
CONSTANTS Message, NoMessage

ASSUME MessageAssumption == NoMessage \notin Message
=============================================================================
