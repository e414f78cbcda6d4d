--------------------------- MODULE PacketDecoder ----------------------------
(***************************************************************************)
(* The decoder of lib/include/spacket/impl/packet_decode_fsm.h, which      *)
(* takes a stream of bytes one at a time.  Each of its functions maps the  *)
(* decoder to the decoder after the call; `error' is what the call         *)
(* returns and `packet' what the last byte handed to the callback.  The    *)
(* callback may fail, as that of PacketDevice does when there is no buffer *)
(* for the next packet.                                                    *)
(*                                                                         *)
(* Operators named ...Faulty are wrong on purpose and used nowhere.        *)
(***************************************************************************)
EXTENDS Cobs

CONSTANT maxSize   \* of the buffer

ASSUME SizeAssumption == maxSize \in Nat

SIZE_MAX == 65535   \* of size_t: more than any buffer holds

New == [state |-> "delimiter", left |-> 0, zero |-> FALSE, out |-> <<>>,
        error |-> "none", packet |-> <<>>]

transit(s, state) == [s EXCEPT !.state = state]
fail(s, e) == [s EXCEPT !.state = "delimiter", !.error = e]

append(s, b) == IF Len(s.out) >= maxSize THEN [s EXCEPT !.error = "PacketTooBig"]
                ELSE [s EXCEPT !.out = Append(@, b),
                               !.left = IF @ = 0 THEN SIZE_MAX ELSE @ - 1]

startBlockFaulty(s, code) == [s EXCEPT !.left = code - 1, !.zero = TRUE]
startBlock(s, code) == [s EXCEPT !.left = code - 1, !.zero = (code # K)]

finishBlock(s) == IF s.zero THEN append(s, 0) ELSE s

(* r > transit(to) <= transit(delimiter) *)
Then(s, to) == IF s.error = "none" THEN transit(s, to) ELSE transit(s, "delimiter")

delimiter(s, b) == IF b = 0 THEN transit(s, "start") ELSE s

startFaulty(s, b) == IF b = 0 THEN s ELSE transit(startBlock(s, b), "block")
start(s, b) == CASE b = 0 -> s
                 [] b = 1 -> Then(finishBlock(startBlock(s, b)), "nextBlock")
                 [] OTHER -> transit(startBlock(s, b), "block")

block(s, b) ==
    IF b = 0 THEN fail(s, "CobsBadEncoding")
    ELSE LET t == append(s, b)
         IN  IF t.error = "none" /\ t.left = 0 THEN Then(finishBlock(t), "nextBlock")
             ELSE Then(t, "block")

finishPacketFaulty(s, ok) ==
    LET n == Len(s.out) - (IF Last(s.out) = 0 THEN 1 ELSE 0)
    IN  IF n = 0 THEN fail([s EXCEPT !.out = <<>>], "CobsBadEncoding")
        ELSE IF ok THEN transit([s EXCEPT !.packet = SubSeq(s.out, 1, n), !.out = <<>>], "start")
        ELSE fail([s EXCEPT !.packet = SubSeq(s.out, 1, n)], "callback")
(* The zero after the last block is taken back; bytesRead is reset only here. *)
finishPacket(s, ok) ==
    LET n == Len(s.out) - (IF Last(s.out) = 0 THEN 1 ELSE 0)
    IN  IF n = 0 THEN fail([s EXCEPT !.out = <<>>], "CobsBadEncoding")
        ELSE Then([s EXCEPT !.packet = SubSeq(s.out, 1, n), !.out = <<>>,
                            !.error = IF ok THEN "none" ELSE "callback"], "start")

(* The second case returns the failure of finishBlock without a transition. *)
nextBlock(s, b, ok) == CASE b = 0 -> finishPacket(s, ok)
                         [] b = 1 -> finishBlock(startBlock(s, b))
                         [] OTHER -> transit(startBlock(s, b), "block")

consume(decoder, b, ok) ==
    LET s == [decoder EXCEPT !.error = "none", !.packet = <<>>]
    IN  CASE s.state = "delimiter" -> delimiter(s, b)
          [] s.state = "start" -> start(s, b)
          [] s.state = "block" -> block(s, b)
          [] s.state = "nextBlock" -> nextBlock(s, b, ok)
=============================================================================
