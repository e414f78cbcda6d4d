---------------------------- MODULE CobsPayloads ----------------------------
(* Every payload up to MaxPayload bytes, grown a byte at a time, through   *)
(* the functions of Cobs.                                                  *)
EXTENDS Cobs

CONSTANT MaxPayload   \* bound: the bytes of a payload

VARIABLE bytes

PayloadInit == bytes = <<>>
PayloadNext == Len(bytes) < MaxPayload /\ \E b \in Byte : bytes' = Append(bytes, b)
PayloadSpec == PayloadInit /\ [][PayloadNext]_bytes

(* What is stuffed has no zero and unstuffs to the payload. *)
Unstuffs == bytes # <<>> => /\ \A i \in DOMAIN stuff(bytes) : stuff(bytes)[i] # 0
                            /\ unstuff(stuff(bytes)) = bytes

(* The buffers made for a stuffed and for an unstuffed packet are large    *)
(* enough, for any input; the latter gets that of the stuffed one.         *)
BuffersSuffice == /\ bytes # <<>> => Len(stuff(bytes)) <= maxStuffedSize(Len(bytes))
                  /\ Len(unstuffLoop(bytes).out) <= Len(bytes)

(* A payload of the size the size functions allow fits the given size. *)
PayloadFits == LET n == Len(bytes)
               IN  /\ n >= 1 => maxStuffedSize(maxPayloadSize(n)) <= n
                   /\ n >= 3 => maxStuffedAndDelimitedSize(maxPayloadSizeDelimited(n)) <= n

(* What is stuffed unstuffs to the payload, and the sizes calculated for   *)
(* the buffers are enough, also for input that was never stuffed           *)
(* (cobs.h:7-63, cobs/cobs.h).                                             *)
RoundTrip == Unstuffs /\ BuffersSuffice /\ PayloadFits
=============================================================================
