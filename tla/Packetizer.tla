----------------------------- MODULE Packetizer -----------------------------
(***************************************************************************)
(* The packetizer of lib/include/spacket/packetizer.h, which cuts a stream *)
(* of bytes at its zeros, as a function of the packetizer and a byte; and  *)
(* what a frame of a stream is, said of the stream as a whole.  Of a byte  *)
(* only matters whether it is zero; the others are told apart by the       *)
(* properties.                                                             *)
(***************************************************************************)
EXTENDS Integers, Sequences, SequencesExt

CONSTANTS Byte,     \* numbers, 0 among them
          maxSize   \* positive

create(needSync) == [state |-> IF needSync THEN "Sync" ELSE "SkipDelim", out |-> <<>>]

Continue(p) == [pktz |-> p, result |-> "Continue"]
Store(p, b) == IF Len(p.out) = maxSize THEN [pktz |-> p, result |-> "Overflow"]
               ELSE Continue([state |-> "Within", out |-> Append(p.out, b)])

consumeSync(p, b) == Continue(IF b = 0 THEN [p EXCEPT !.state = "SkipDelim"] ELSE p)
consumeSkipDelim(p, b) == IF b = 0 THEN Continue(p) ELSE Store(p, b)
consumeWithin(p, b) == IF b = 0 THEN [pktz |-> p, result |-> "Finished"] ELSE Store(p, b)

consume(p, b) == CASE p.state = "Sync" -> consumeSync(p, b)
                   [] p.state = "SkipDelim" -> consumeSkipDelim(p, b)
                   [] p.state = "Within" -> consumeWithin(p, b)

-----------------------------------------------------------------------------
(* A frame is a longest non-empty run of bytes other than zero that has a  *)
(* zero on both sides; it is named by the place of its closing zero.       *)
Opening(s, i) == CHOOSE j \in 1 .. i - 1 : /\ s[j] = 0
                                          /\ \A k \in j + 1 .. i - 1 : s[k] # 0
FrameEnds(s) == {i \in DOMAIN s : /\ s[i] = 0 /\ i > 1 /\ s[i - 1] # 0
                                  /\ \E j \in 1 .. i - 1 : s[j] = 0}
FrameAt(s, i) == SubSeq(s, Opening(s, i) + 1, i - 1)
=============================================================================
