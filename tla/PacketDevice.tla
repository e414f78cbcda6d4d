---------------------------- MODULE PacketDevice ----------------------------
(***************************************************************************)
(* PacketDeviceImplBase (lib/include/spacket/impl/packet_device_impl_base  *)
(* .h), the same on both ports: a read thread that feeds the chunks of the *)
(* device below byte by byte to the decoder and leaves each packet, or the *)
(* error, in a mailbox of one slot.                                        *)
(*                                                                         *)
(* The mailbox is the slot of module Slot, which both ports' mailboxes     *)
(* implement.  The device below is a wire and a slot of one chunk: it cuts *)
(* the bytes anywhere and replaces a chunk that nobody has read.           *)
(* Of the buffers only their number is kept.                               *)
(*                                                                         *)
(* Operators named ...Faulty are wrong on purpose and used nowhere.        *)
(***************************************************************************)
EXTENDS PacketDecoder

CONSTANTS NumBuffers,   \* in the allocator's pool
          MaxChunk      \* bound: the bytes of a chunk

ASSUME DeviceAssumption == NumBuffers \in Nat /\ NumBuffers >= 2 /\ MaxChunk \in 1 .. maxSize

VARIABLES wire,    \* the bytes on their way
          lower,   \* the unread chunk of the device below
          d,       \* decodeFSM
          chunk,   \* the rest of the chunk in the read thread's hand
          readMailbox,
          readThread, stopRead,  \* the read thread and its stop flag
          finished,  \* history: the packets the decoder has handed out, while nothing was lost
          lost,    \* history: whether a chunk was replaced or not read, or a buffer was missing
          free     \* the number of buffers in the pool

deviceVars == <<wire, lower, d, chunk, readMailbox, readThread, stopRead, finished, lost, free>>

None == [ok |-> FALSE, error |-> "none"]
Error(e) == [ok |-> FALSE, error |-> e]
Packet(p) == [ok |-> TRUE, packet |-> p]

(* The buffers that a message of a mailbox holds, 0 or 1. *)
Held(m) == IF m.ok THEN 1 ELSE 0

(* The decoder's buffer is the constructor's argument; the device below    *)
(* has one to receive into.                                                *)
DeviceInit == /\ wire = <<>> /\ lower = <<>>
              /\ d = New /\ chunk = <<>>
              /\ readMailbox = None
              /\ readThread = "check" /\ stopRead = FALSE
              /\ finished = <<>> /\ lost = FALSE
              /\ free = NumBuffers - 2

-----------------------------------------------------------------------------
Record(packets) == finished' = IF lost' THEN <<>> ELSE packets

(* The device below: it drops what it has received when it gets no buffer  *)
(* to go on with.                                                          *)
Receive(n) == /\ n <= Len(wire)
              /\ lost' = (lost \/ lower # <<>> \/ free = 0)
              /\ wire' = SubSeq(wire, n + 1, Len(wire))
              /\ IF free = 0 THEN UNCHANGED <<lower, free>>
                 ELSE /\ lower' = SubSeq(wire, 1, n)
                      /\ free' = free - (IF lower = <<>> THEN 1 ELSE 0)
              /\ Record(finished)
              /\ UNCHANGED <<d, chunk, readMailbox, readThread, stopRead>>

Check == /\ readThread = "check"
         /\ readThread' = IF stopRead THEN "none" ELSE "reading"
         /\ UNCHANGED <<wire, lower, d, chunk, readMailbox, stopRead, finished, lost, free>>

ReadChunk == /\ readThread = "reading" /\ lower # <<>>
             /\ chunk' = lower /\ lower' = <<>>
             /\ readThread' = "consuming"
             /\ UNCHANGED <<wire, d, readMailbox, stopRead, finished, lost, free>>

(* After stopCheckPeriod. *)
ReadTimesOut == /\ readThread = "reading" /\ lower = <<>>
                /\ readThread' = "check"
                /\ UNCHANGED <<wire, lower, d, chunk, readMailbox, stopRead, finished, lost, free>>

(* The device below fails, as the host's does when select or read fails:   *)
(* the bytes it had gathered are gone, if there were any, and the error    *)
(* takes the place of an unread packet.                                    *)
ReadFails == /\ readThread = "reading"
             /\ lower' = <<>>
             /\ lost' = (lost \/ lower # <<>>)
             /\ readMailbox' = Error("SerialDeviceReadError")
             /\ free' = free + Held(readMailbox) + (IF lower = <<>> THEN 0 ELSE 1)
             /\ readThread' = "check"
             /\ Record(finished)
             /\ UNCHANGED <<wire, d, chunk, stopRead>>

(* The buffer goes to the mailbox, which drops what it had, and the        *)
(* decoder gets a new one.                                                 *)
packetFinished(packet) == /\ readMailbox' = Packet(packet)
                          /\ Record(Append(finished, packet))
                          /\ free' = free - 1 + Held(readMailbox)

reportErrorFaulty(e) == /\ readMailbox' = Error(e)
                        /\ free' = free + 1
(* Both ports fail with e, so that the loop over the chunk ends and the    *)
(* error takes the place of an unread packet.                              *)
reportError(e) == /\ readMailbox' = Error(e)
                  /\ free' = free + 1 + Held(readMailbox)

Consume == /\ readThread = "consuming"
           /\ d' = consume(d, Head(chunk), free > 0)
           /\ lost' = (lost \/ d'.error = "callback")
           /\ IF d'.error # "none"
              THEN /\ reportError(d'.error)
                   /\ chunk' = <<>> /\ readThread' = "check"
                   /\ Record(finished)
                   /\ UNCHANGED lower
              ELSE /\ IF d'.packet # <<>> THEN packetFinished(d'.packet) ELSE UNCHANGED <<readMailbox, finished, free>>
                   /\ chunk' = Tail(chunk)
                   /\ readThread' = IF Len(chunk) = 1 THEN "release" ELSE "consuming"
                   /\ UNCHANGED lower
           /\ UNCHANGED <<wire, stopRead>>

(* The whole chunk is consumed. *)
Release == /\ readThread = "release"
           /\ free' = free + 1
           /\ readThread' = "check"
           /\ UNCHANGED <<wire, lower, d, chunk, readMailbox, stopRead, finished, lost>>

ReadThread == Check \/ ReadChunk \/ ReadTimesOut \/ ReadFails \/ Consume \/ Release

-----------------------------------------------------------------------------
(* read: takes what is in the mailbox, a packet or an error. *)
read(message) == /\ readMailbox # None /\ message = readMailbox
                 /\ readMailbox' = None

CanWriteFaulty(packet) == TRUE
(* write: stuffAndDelim fails when no buffer could hold the worst case. *)
CanWrite(packet) == maxStuffedAndDelimitedSize(Len(packet)) <= maxSize
write(packet) == wire' = wire \o stuffAndDelim(packet)

requestStopFaulty == UNCHANGED stopRead
requestStop == stopRead' = TRUE

-----------------------------------------------------------------------------
DeviceTypeOK == /\ wire \in Seq(Byte) /\ lower \in Seq(Byte) /\ chunk \in Seq(Byte)
                /\ Len(d.out) <= maxSize
                /\ readMailbox.ok \in BOOLEAN
                /\ readThread \in {"check", "reading", "consuming", "release", "none"}
                /\ stopRead \in BOOLEAN
                /\ free \in 0 .. NumBuffers

(* The buffers the device and the one below hold. *)
DeviceBuffers == 2 + (IF lower = <<>> THEN 0 ELSE 1) + Held(readMailbox)
                   + (IF readThread \in {"consuming", "release"} THEN 1 ELSE 0)
=============================================================================
