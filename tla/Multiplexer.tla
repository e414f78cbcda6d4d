----------------------------- MODULE Multiplexer -----------------------------
(***************************************************************************)
(* MultiplexerImplBaseT (lib/include/spacket/impl/multiplexer_impl_base.h) *)
(* on top of a packet device: a peer writes packets to channels, the read  *)
(* thread checks them and leaves them in the mailbox of their channel, and *)
(* a client of each channel reads them.  The peer may have more channels.  *)
(*                                                                         *)
(* The CRC is ideal: one byte that no packet but one made by append        *)
(* carries, instead of four bytes that hardly any other carries.           *)
(*                                                                         *)
(* Operators named ...Faulty are wrong on purpose and used nowhere.        *)
(***************************************************************************)
EXTENDS PacketDevice

CONSTANTS NumChannels, PeerChannels, Payload,
          Crc,       \* a function from packets to bytes
          MaxSent    \* bound: the packets written

VARIABLES mailboxes,  \* of the channels
          hand,       \* what the read thread has read
          muxThread, stopMux,
          sent,       \* the packets written, a channel and a payload each
          got,        \* what the clients have read, the same way
          holds       \* the channels whose client holds the packet it has read

muxVars == <<mailboxes, hand, muxThread, stopMux, got, holds>>
vars == <<deviceVars, muxVars, sent>>

Channel == 0 .. NumChannels - 1

ASSUME MuxAssumption ==
    /\ NumChannels \in Nat /\ PeerChannels \in NumChannels .. K + 1
    /\ Payload \subseteq Seq(Byte)
    /\ \A c \in 0 .. PeerChannels - 1, p \in Payload :
          <<c>> \o p \in DOMAIN Crc /\ Crc[<<c>> \o p] \in Byte

Init == /\ DeviceInit
        /\ mailboxes = [c \in Channel |-> None]
        /\ hand = None
        /\ muxThread = "check" /\ stopMux = FALSE
        /\ sent = <<>> /\ got = <<>> /\ holds = {}

-----------------------------------------------------------------------------
(* crc.h: append fails when there is no room for the CRC, check when there *)
(* is nothing but a CRC.                                                   *)
CanAppend(packet) == maxSize - Len(packet) >= 1
appendCrc(packet) == Append(packet, Crc[packet])
checkFaulty(packet) == Len(packet) >= 2
check(packet) == Len(packet) >= 2 /\ Front(packet) \in DOMAIN Crc /\ Crc[Front(packet)] = Last(packet)

(* An ideal CRC: in a frame the CRC of a packet is the last byte of that   *)
(* packet. Of the 32 bits in the code it is true but for accidents.        *)
ASSUME IdealCrc ==
    \A c \in 0 .. PeerChannels - 1, p \in Payload, packet \in DOMAIN Crc :
        LET frame == stuffAndDelim(appendCrc(<<c>> \o p))
        IN  \A i \in DOMAIN frame :
               frame[i] = Crc[packet] => packet = <<c>> \o p /\ i = Len(frame) - 1

(* write of the peer: what it refuses is not sent. *)
Write(c, payload) ==
    /\ Len(sent) < MaxSent /\ c < PeerChannels
    /\ Len(payload) <= maxSize - 1
    /\ CanAppend(<<c>> \o payload)
    /\ CanWrite(appendCrc(<<c>> \o payload))
    /\ write(appendCrc(<<c>> \o payload))
    /\ sent' = Append(sent, <<c, payload>>)
    /\ UNCHANGED <<lower, d, chunk, readMailbox, readThread, stopRead, finished, lost, free, muxVars>>

-----------------------------------------------------------------------------
MuxCheck == /\ muxThread = "check"
            /\ muxThread' = IF stopMux THEN "none" ELSE "reading"
            /\ UNCHANGED <<deviceVars, mailboxes, hand, stopMux, got, holds, sent>>

MuxRead == /\ muxThread = "reading"
           /\ read(hand')
           /\ muxThread' = "handling"
           /\ UNCHANGED <<wire, lower, d, chunk, readThread, stopRead, finished, lost, free>>
           /\ UNCHANGED <<mailboxes, stopMux, got, holds, sent>>

MuxTimesOut == /\ muxThread = "reading" /\ readMailbox = None
               /\ muxThread' = "check"
               /\ UNCHANGED <<deviceVars, mailboxes, hand, stopMux, got, holds, sent>>

(* A checked packet has a byte: the channel. *)
Accepted(message) == message.ok /\ check(message.packet) /\ Head(message.packet) \in Channel

(* It is copied without its first byte and its CRC to a new buffer. *)
payload(packet) == Front(Tail(packet))

Deliver == /\ muxThread = "handling" /\ Accepted(hand) /\ free > 0
           /\ mailboxes' = [mailboxes EXCEPT ![Head(hand.packet)] = Packet(payload(hand.packet))]
           /\ free' = free + Held(mailboxes[Head(hand.packet)])
           /\ hand' = None /\ muxThread' = "check"
           /\ UNCHANGED <<wire, lower, d, chunk, readMailbox, readThread, stopRead, finished, lost>>
           /\ UNCHANGED <<stopMux, got, holds, sent>>

(* An error of the device, a bad packet or no buffer for it. *)
Refuse == /\ muxThread = "handling" /\ ~ (Accepted(hand) /\ free > 0)
          /\ free' = free + Held(hand)
          /\ hand' = None /\ muxThread' = "check"
          /\ UNCHANGED <<wire, lower, d, chunk, readMailbox, readThread, stopRead, finished, lost>>
          /\ UNCHANGED <<mailboxes, stopMux, got, holds, sent>>

MuxThread == MuxCheck \/ MuxRead \/ MuxTimesOut \/ Deliver \/ Refuse

-----------------------------------------------------------------------------
Read(c) == /\ mailboxes[c] # None /\ c \notin holds
           /\ got' = Append(got, <<c, mailboxes[c].packet>>)
           /\ mailboxes' = [mailboxes EXCEPT ![c] = None]
           /\ holds' = holds \union {c}
           /\ UNCHANGED <<deviceVars, hand, muxThread, stopMux, sent>>

Drop(c) == /\ c \in holds
           /\ holds' = holds \ {c}
           /\ free' = free + 1
           /\ UNCHANGED <<wire, lower, d, chunk, readMailbox, readThread, stopRead, finished, lost>>
           /\ UNCHANGED <<mailboxes, hand, muxThread, stopMux, got, sent>>

(* The destructors, the multiplexer's first: each requests the stop of its *)
(* thread and waits for it.                                                *)
DestroyMux == /\ ~stopMux
              /\ stopMux' = TRUE
              /\ UNCHANGED <<deviceVars, mailboxes, hand, muxThread, got, holds, sent>>

wait == stopMux /\ muxThread = "none"

DestroyDevice == /\ wait /\ ~stopRead
                 /\ requestStop
                 /\ UNCHANGED <<wire, lower, d, chunk, readMailbox, readThread, finished, lost, free, muxVars, sent>>

Device == /\ ReadThread \/ \E n \in 1 .. MaxChunk : Receive(n)
          /\ UNCHANGED <<muxVars, sent>>

Next == \/ \E c \in 0 .. PeerChannels - 1, p \in Payload : Write(c, p)
        \/ Device \/ MuxThread
        \/ \E c \in Channel : Read(c) \/ Drop(c)
        \/ DestroyMux \/ DestroyDevice

(* The scheduler runs both threads, and the destructors once begun. *)
Spec == /\ Init /\ [][Next]_vars
        /\ WF_vars(ReadThread /\ UNCHANGED <<muxVars, sent>>) /\ WF_vars(MuxThread) /\ WF_vars(DestroyDevice)

-----------------------------------------------------------------------------
TypeOK == /\ DeviceTypeOK
          /\ \A c \in Channel : mailboxes[c].ok => mailboxes[c].packet \in Payload
          /\ muxThread \in {"check", "reading", "handling", "none"} /\ stopMux \in BOOLEAN
          /\ holds \subseteq Channel

(* Every buffer is in the pool or in exactly one hand, however packets are *)
(* replaced, refused, dropped with the rest of a chunk or not handed out   *)
(* for want of a buffer.                                                   *)
BuffersConserved ==
    NumBuffers = free + DeviceBuffers + Held(hand) + Cardinality(holds)
                   + Cardinality({c \in Channel : mailboxes[c].ok})

(* What a channel's client reads was written to that channel, in the order *)
(* it was written and not twice, also when chunks are lost and the decoder *)
(* joins the halves of different frames.                                   *)
DeliveredInOrder ==
    \E from \in [DOMAIN got -> DOMAIN sent] :
       /\ \A i \in DOMAIN got : got[i] = sent[from[i]]
       /\ \A i, j \in DOMAIN got : i < j /\ got[i][1] = got[j][1] => from[i] < from[j]

(* As long as no chunk is lost and no buffer missing the decoder hands out *)
(* exactly what was written, however the chunks cut the frames: every      *)
(* packet that the sender's size checks let pass fits the receiver's       *)
(* buffer, and nothing is taken for an error but a read that failed.       *)
AllDecoded ==
    ~lost => /\ IsPrefix(finished, [i \in DOMAIN sent |-> appendCrc(<<sent[i][1]>> \o sent[i][2])])
             /\ readMailbox.ok \/ readMailbox \in {None, Error("SerialDeviceReadError")}

(* The multiplexer's thread never reads from a device whose thread is      *)
(* asked to stop.                                                          *)
DeviceOutlivesMux == stopRead => muxThread = "none"

(* Both destructors return, whatever arrives meanwhile, in their order.    *)
StopReturns == []DeviceOutlivesMux /\ (stopMux ~> readThread = "none")
=============================================================================
