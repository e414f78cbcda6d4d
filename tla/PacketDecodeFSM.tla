-------------------------- MODULE PacketDecodeFSM ---------------------------
(***************************************************************************)
(* The decoder of PacketDecoder on every stream of bytes: a step consumes  *)
(* any byte, and the callback may fail.  What the stream holds since its   *)
(* last zero is compared with what cobs.h's unstuff makes of it.           *)
(***************************************************************************)
EXTENDS PacketDecoder

CONSTANT MaxFrame   \* bound: the bytes between two zeros of the stream

ASSUME FrameAssumption == MaxFrame \in Nat

VARIABLES dec,    \* the decoder
          frame,  \* the bytes since the last zero of the stream
          begun,  \* the decoder took that zero for a start
          clean,  \* and did so with an empty buffer
          whole   \* no byte of the frame found the buffer full

decoderVars == <<dec, frame, begun, clean, whole>>

DecoderInit == dec = New /\ frame = <<>> /\ begun = FALSE /\ clean = FALSE /\ whole = TRUE

ConsumeByte(b, ok) == /\ dec' = consume(dec, b, ok)
                      /\ IF b = 0
                         THEN /\ frame' = <<>>
                              /\ begun' = (dec'.state = "start")
                              /\ clean' = (begun' /\ dec'.out = <<>>)
                              /\ whole' = TRUE
                         ELSE /\ Len(frame) < MaxFrame
                              /\ frame' = Append(frame, b)
                              /\ whole' = (whole /\ dec'.error # "PacketTooBig")
                              /\ UNCHANGED <<begun, clean>>

DecoderNext == \E b \in Byte, ok \in BOOLEAN : ConsumeByte(b, ok)

DecoderSpec == DecoderInit /\ [][DecoderNext]_decoderVars

-----------------------------------------------------------------------------
DecoderTypeOK == /\ dec.state \in {"delimiter", "start", "block", "nextBlock"}
                 /\ dec.left \in 0 .. SIZE_MAX /\ dec.zero \in BOOLEAN
                 /\ dec.out \in Seq(Byte) /\ Len(dec.out) <= maxSize
                 /\ dec.error \in {"none", "PacketTooBig", "CobsBadEncoding", "callback"}
                 /\ dec.packet \in Seq(Byte)

(* finishPacket looks at the last byte of the buffer: there is one whenever *)
(* it can be called.  A block that is under way is not finished.            *)
LastByteExists == /\ dec.state = "nextBlock" => dec.out # <<>>
                  /\ dec.state = "block" => dec.left > 0

EndsFrame == frame # <<>> /\ frame' = <<>>

(* A frame of the stream that starts with a clean decoder is decoded to    *)
(* what cobs.h's unstuff returns for it, and one that unstuff refuses is   *)
(* refused, as long as the buffer has place for it and its implied zero.   *)
(* After an error the decoder keeps what it has read: what it hands out    *)
(* later ends with the frame's own payload, and starts with bytes of       *)
(* frames that were abandoned (packet_decode_fsm.h:81-136).                *)
DecodesFrames ==
    [][EndsFrame /\ whole =>
          /\ (clean => dec'.packet = unstuff(frame))
          /\ (dec'.packet # <<>> => IsSuffix(unstuff(frame), dec'.packet))]_decoderVars

(* After errors of any kind, a torn frame or a callback that failed, no    *)
(* two good frames that find room in the buffer are lost.  One that begins *)
(* with a zero the error has used up is skipped, and its closing zero      *)
(* begins the next.  One that the decoder has begun is handed out, and the *)
(* buffer is empty then: what an abandoned frame left there is joined to   *)
(* one packet and to no other (packet_decode_fsm.h:50-60, 78-136).         *)
Recovered == IF begun THEN dec'.packet # <<>> /\ dec'.out = <<>> ELSE begun'
Recovers == [][EndsFrame /\ whole /\ unstuff(frame) # <<>> => Recovered]_decoderVars
=============================================================================
