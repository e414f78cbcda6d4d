------------------------------ MODULE MCBytes ------------------------------
(* What turns bytes into packets and back, checked side by side: a         *)
(* behaviour is one of PacketDecodeFSM, of Cobs on growing payloads, of    *)
(* PacketReader, of PacketizerThread, of CrcDevice or of SbusPacket, as    *)
(* "machine" says, while the others stay in their initial states.          *)
EXTENDS PacketDecodeFSM, CobsPayloads, SbusPacket

VARIABLES machine,
          rReading, rGathered, rRest, rStatus, rInput, rPackets,
          tFetched, tPktz, tOut, tError, tStream, tHandled,
          cDR, cAt, cData, cPos, cCrc, cU2

Reader == INSTANCE PacketReader WITH
    Byte <- {0, 1, 2}, maxSize <- 2, maxRead <- 3, MaxInput <- 7,
    reading <- rReading, gathered <- rGathered, rest <- rRest, status <- rStatus, input <- rInput,
    packets <- rPackets

Thread == INSTANCE PacketizerThread WITH
    Byte <- {0, 1, 2}, maxSize <- 2, MaxRead <- 3, MaxStream <- 8,
    fetched <- tFetched, pktz <- tPktz, out <- tOut, error <- tError, stream <- tStream,
    handled <- tHandled

Crc == INSTANCE CrcDevice WITH
    ByteBits <- 2, Polynomial <- <<0, 0, 0, 0, 0, 1, 1, 1>>, Users <- {"reader"}, MaxSize <- 9,
    DR <- cDR, at <- cAt, data <- cData, pos <- cPos, crc <- cCrc, u2 <- cU2

(* Frames of the SBUS: each bit of each byte alone, on a background of     *)
(* zeros and of ones, the range of the servo's channel, the flags, and     *)
(* some malformed frames.                                                  *)
Good(data, flags) == [size |-> 25, header |-> 15, data |-> data, flags |-> flags, footer |-> 0]
Background(b) == [i \in 1 .. 22 |-> b]
Neutral == Good(Background(85), 0)
MCRawPackets ==
    {Good([Background(b) EXCEPT ![i] = v], 0) :
         b \in {0, 255}, i \in 1 .. 22, v \in {2^j : j \in 0 .. 7} \union {0, 85, 127, 170, 254, 255}}
    \union {Good([Background(0) EXCEPT ![6] = v, ![5] = w], 0) : v \in 0 .. 15, w \in {0, 64, 254}}
    \union {Good(Background(85), flags) : flags \in 0 .. 15}
    \union {[Neutral EXCEPT !.size = 24], [Neutral EXCEPT !.header = 14], [Neutral EXCEPT !.footer = 4]}

readerVars == <<rReading, rGathered, rRest, rStatus, rInput, rPackets>>
threadVars == <<tFetched, tPktz, tOut, tError, tStream, tHandled>>
crcVars == <<cDR, cAt, cData, cPos, cCrc, cU2>>
allVars == <<machine, decoderVars, bytes, readerVars, threadVars, crcVars, sbusVars>>

AnyInit == /\ machine \in {"decoder", "cobs", "reader", "thread", "crc", "sbus"}
           /\ DecoderInit /\ PayloadInit /\ Reader!ReaderInit /\ Thread!Init /\ Crc!Init
           /\ SbusInit /\ (machine # "sbus" => source = Neutral)

DecoderStep == /\ machine = "decoder" /\ DecoderNext
               /\ UNCHANGED <<machine, bytes, readerVars, threadVars, crcVars, sbusVars>>
CobsStep == /\ machine = "cobs" /\ PayloadNext
            /\ UNCHANGED <<machine, decoderVars, readerVars, threadVars, crcVars, sbusVars>>
ReaderStep == /\ machine = "reader" /\ Reader!ReaderNext
              /\ UNCHANGED <<machine, decoderVars, bytes, threadVars, crcVars, sbusVars>>
ThreadStep == /\ machine = "thread" /\ Thread!Next
              /\ UNCHANGED <<machine, decoderVars, bytes, readerVars, crcVars, sbusVars>>
CrcStep == /\ machine = "crc" /\ Crc!Next
           /\ UNCHANGED <<machine, decoderVars, bytes, readerVars, threadVars, sbusVars>>
SbusStep == /\ machine = "sbus" /\ SbusNext
            /\ UNCHANGED <<machine, decoderVars, bytes, readerVars, threadVars, crcVars>>

AnyNext == DecoderStep \/ CobsStep \/ ReaderStep \/ ThreadStep \/ CrcStep \/ SbusStep

AnySpec == AnyInit /\ [][AnyNext]_allVars

-----------------------------------------------------------------------------
(* Whichever way the stream is cut into buffers, the calls of a reader     *)
(* return every frame once, whole and in order (read_packet-impl.h), and   *)
(* the packetizer's thread handles exactly the frames that fit and whose   *)
(* opening zero closed none (packetizer_thread_function.h).                *)
StreamsWhole ==
    /\ [](Reader!ReaderTypeOK /\ Reader!ReturnsEveryFrame /\ Reader!PartialFrame)
    /\ [](Thread!TypeOK /\ Thread!HandledExactly)
    /\ Thread!PostsTheFrame

(* The unit's words and the correction for the last one to three bytes     *)
(* give the remainder that the host calculates, for a buffer of any size,  *)
(* so that check takes what append has made (crc_device.cpp, crc.h).       *)
RightCrc == machine = "crc" => /\ Crc!TypeOK /\ Crc!RightCrc /\ Crc!PassesCheck /\ Crc!ResetToZero
=============================================================================
