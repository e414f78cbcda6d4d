---------------------------- MODULE MCMultiplexer ----------------------------
(* Payloads of no byte, of one, and of more than can be written, and a CRC  *)
(* that no other byte of a frame is equal to, nor that of another packet.   *)
EXTENDS Multiplexer

MCPayload == {<<>>, <<0>>, <<0, 0, 0, 0>>}
MCCrc == [p \in {<<c>> \o s : c \in 0 .. PeerChannels - 1, s \in Payload} |->
             IF Len(p) = 1 THEN 10 + p[1] ELSE 3 + Len(p) + p[1]]
=============================================================================
