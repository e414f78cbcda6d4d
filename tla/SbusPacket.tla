----------------------------- MODULE SbusPacket -----------------------------
(***************************************************************************)
(* What sbus2pwm does with a received packet: sbus::decode                 *)
(* (src/examples/sbus2pwm/sbus_decoder.h) takes 18 channels out of 25      *)
(* bytes, updatePwm and printPacket (main.cpp) make a pulse width and a    *)
(* line of text of them.  Arithmetic only; when these steps are taken is   *)
(* the business of Sbus2Pwm.                                               *)
(*                                                                         *)
(* Operators named ...Faulty are wrong on purpose and used nowhere.        *)
(***************************************************************************)
EXTENDS Integers, Sequences, FiniteSets

CONSTANTS RawPackets   \* the packets to decode

Octet == 0 .. 255
ASSUME PacketsAssumption ==
    RawPackets \subseteq [size : Nat, header : Octet, data : [1 .. 22 -> Octet],
                          flags : Octet, footer : Octet]

VARIABLES source, packet, width, line

sbusVars == <<source, packet, width, line>>

channelMax == 2047      \* eleven bits
BUFFER_MAX_SIZE == 40   \* constants.h: of the buffer to decode to
LINE_MAX_SIZE == 97     \* typedefs.h: of the buffer to print to
sizeofPacket == 18 * 2 + 2
period == 65535
sbusMin == 352
sbusMax == 1696

-----------------------------------------------------------------------------
(* 2 to the i. *)
power(i) == <<1, 2, 4, 8, 16, 32, 64, 128, 256, 512, 1024>>[i + 1]

(* The parts of a channel do not overlap, so that the or is a sum; the     *)
(* mask is a remainder.                                                    *)
decode2(a, b, rshift) == (a \div power(rshift) + b * power(8 - rshift)) % (channelMax + 1)

decode3(a, b, c, rshift) ==
    (a \div power(rshift) + b * power(8 - rshift) + c * power(16 - rshift)) % (channelMax + 1)

(* Eight channels from eleven bytes; data counts from 1. *)
decode8Faulty(data, k) ==
    LET d(i) == data[k + i + 1]
    IN  << decode2(d(0), d(1), 0), decode2(d(1), d(2), 3), decode3(d(2), d(3), d(4), 6),
           decode2(d(4), d(5), 1), decode2(d(5), d(6), 4), decode2(d(6), d(7), 7),
           decode2(d(8), d(9), 2), decode2(d(9), d(10), 5) >>
decode8(data, k) ==
    LET d(i) == data[k + i + 1]
    IN  << decode2(d(0), d(1), 0), decode2(d(1), d(2), 3), decode3(d(2), d(3), d(4), 6),
           decode2(d(4), d(5), 1), decode2(d(5), d(6), 4), decode3(d(6), d(7), d(8), 7),
           decode2(d(8), d(9), 2), decode2(d(9), d(10), 5) >>

flag(raw, b) == (raw.flags \div b) % 2 = 1
switch(raw, b) == IF flag(raw, b) THEN channelMax ELSE 0

(* Two groups of eight, and two switches. *)
channels(raw) ==
    LET first == decode8(raw.data, 0)
        second == decode8(raw.data, 11)
    IN  [n \in 1 .. 18 |-> CASE n <= 8 -> first[n]
                           [] n \in 9 .. 16 -> second[n - 8]
                           [] n > 16 -> switch(raw, n - 16)]

decode(raw) ==
    CASE raw.size # 25 -> [error |-> "PacketSizeMismatch"]
      [] raw.size = 25 /\ raw.header # 15 -> [error |-> "PacketHeaderMismatch"]
      [] raw.size = 25 /\ raw.header = 15 /\ raw.footer # 0 -> [error |-> "PacketFooterMismatch"]
      [] OTHER -> [error |-> IF sizeofPacket <= BUFFER_MAX_SIZE THEN "none" ELSE "DestBufferTooSmall",
                   channels |-> channels(raw),
                   frameLost |-> flag(raw, 4),
                   failsafe |-> flag(raw, 8)]

norm(value) == (IF value < sbusMin THEN sbusMin ELSE IF value > sbusMax THEN sbusMax ELSE value) - sbusMin

(* PWM_FRACTION_TO_WIDTH. *)
fractionToWidth(numerator) == (period * numerator) \div (sbusMax - sbusMin)

(* The length of the line: "P", an 'L', an 'F' or blanks, and " %04d" for  *)
(* each channel, which has a fifth digit from 10000 on.                    *)
lineLength(values) == 5 + 18 * 5 + Cardinality({i \in 1 .. 18 : values[i] >= 10000}) + 2

-----------------------------------------------------------------------------
None == [error |-> "none"]

SbusInit == source \in RawPackets /\ packet = None /\ width = 0 /\ line = 0

(* The completion of a read of the decoder. *)
Decode == /\ packet = None
          /\ packet' = decode(source)
          /\ UNCHANGED <<source, width, line>>

(* The fourth channel drives the servo. *)
updatePwm == /\ packet.error = "none" /\ packet # None /\ line = 0
             /\ width' = fractionToWidth(norm(packet.channels[4]))
             /\ line' = lineLength(packet.channels)
             /\ UNCHANGED <<source, packet>>

SbusNext == Decode \/ updatePwm

SbusSpec == SbusInit /\ [][SbusNext]_sbusVars

-----------------------------------------------------------------------------
(* The reference: the bits of the frame, those of a byte from the lowest.  *)
BitOf(v, i) == (v \div power(i)) % 2
Bit(k) == BitOf(source.data[k \div 8 + 1], k % 8)

SbusTypeOK == /\ width \in 0 .. period
              /\ line \in 0 .. 5 + 18 * 6 + 2
              /\ "channels" \in DOMAIN packet => packet.channels \in [1 .. 18 -> 0 .. channelMax]

(* Channel n of an accepted packet is the n-th group of eleven bits of the *)
(* stream, whatever shifts the position asks for, and has nothing of its   *)
(* neighbours (sbus_decoder.h:38-68).                                      *)
OwnBits == "channels" \in DOMAIN packet =>
           \A n \in 1 .. 16, i \in 0 .. 10 : BitOf(packet.channels[n], i) = Bit(11 * (n - 1) + i)

(* The whole range of the stick, and what lies outside of it, gives the    *)
(* whole range of the pulse: full deflection is "true 100% pwm"            *)
(* (main.cpp:55-68,132), and neither end wraps around.                     *)
FullDeflection == line # 0 => LET v == packet.channels[4]
                              IN  /\ v <= sbusMin => width = 0
                                  /\ v >= sbusMax => width = period
                                  /\ sbusMin < v /\ v < sbusMax => 0 < width /\ width < period

(* Every decoded packet fits the buffer it is decoded to, and its line the *)
(* buffer that it is printed to: out_ never drops a character              *)
(* (typedefs.h:15, main.cpp:36-82).                                        *)
LineFits == packet.error # "DestBufferTooSmall" /\ line <= LINE_MAX_SIZE

(* Each channel has exactly its own eleven bits of the stream, full        *)
(* deflection is the full width of the pulse, neither end wraps around,    *)
(* and what is decoded and printed fits its buffer (sbus_decoder.h:38-68,  *)
(* main.cpp:36-83).                                                        *)
ChannelsAsSent == SbusTypeOK /\ OwnBits /\ FullDeflection /\ LineFits
=============================================================================
