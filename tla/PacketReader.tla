---------------------------- MODULE PacketReader ----------------------------
(***************************************************************************)
(* readPacket of lib/include/spacket/impl/read_packet-impl.h and the way   *)
(* its callers use it: the first call skips until a delimiter, each later  *)
(* one gets the suffix of the one before as its prefix; after a failed     *)
(* call the caller starts afresh.  A step is a call, a buffer that         *)
(* source() returns, or a byte of it or of the prefix.                     *)
(*                                                                         *)
(* Operators named ...Faulty are wrong on purpose and used nowhere.        *)
(***************************************************************************)
EXTENDS Packetizer

CONSTANTS maxRead, MaxInput   \* MaxInput bounds the bytes read between two fresh starts

VARIABLES reading,  \* whether a call is under way
          gathered, \* its packetizer
          rest,     \* of the prefix or buffer in hand; the suffix when the call has returned
          status,   \* how the last call ended
          input,    \* what was read since the fresh start
          packets   \* what was returned since then

readerVars == <<reading, gathered, rest, status, input, packets>>

ReaderInit == /\ reading = FALSE /\ gathered = create(TRUE) /\ rest = <<>> /\ status = "failed"
              /\ input = <<>> /\ packets = <<>>

(* The packet is released, the unread bytes go to the caller. *)
finish(packet) == /\ packets' = Append(packets, packet)
                  /\ rest' = Tail(rest)
                  /\ reading' = FALSE /\ status' = "ok"

failed == /\ reading' = FALSE /\ status' = "failed" /\ rest' = <<>>
          /\ UNCHANGED packets

(* The first overload: an empty prefix, and PacketizerNeedSync::Yes. *)
ReadSynced == /\ ~reading
              /\ reading' = TRUE /\ gathered' = create(TRUE) /\ rest' = <<>>
              /\ input' = <<>> /\ packets' = <<>>
              /\ UNCHANGED status

ReadNextFaulty == /\ ~reading /\ status = "ok"
                  /\ reading' = TRUE /\ gathered' = create(TRUE)
                  /\ UNCHANGED <<rest, status, input, packets>>
(* The second overload: the prefix is consumed before source() is called. *)
ReadNext == /\ ~reading /\ status = "ok"
            /\ reading' = TRUE /\ gathered' = create(FALSE)
            /\ UNCHANGED <<rest, status, input, packets>>

(* The two loops over bytes; a suffix needs a buffer of its own. *)
ReadByte == /\ reading /\ rest # <<>>
            /\ LET r == consume(gathered, Head(rest))
               IN  /\ gathered' = r.pktz
                   /\ \/ r.result = "Finished" /\ (finish(r.pktz.out) \/ failed)
                      \/ r.result = "Overflow" /\ failed
                      \/ r.result = "Continue" /\ rest' = Tail(rest) /\ UNCHANGED <<reading, status, packets>>
            /\ UNCHANGED input

(* source() returns at most maxRead bytes, perhaps none. *)
Source(b) == /\ reading /\ rest = <<>>
             /\ Len(input) + Len(b) <= MaxInput
             /\ input' = input \o b /\ rest' = b
             /\ UNCHANGED <<reading, gathered, status, packets>>

(* The deadline has passed, or source() fails. *)
TimesOut == reading /\ rest = <<>> /\ failed /\ UNCHANGED <<gathered, input>>

(* A call finds no buffer to gather in. *)
NoBuffer == ~reading /\ failed /\ UNCHANGED <<gathered, input>>

ReaderNext == \/ ReadSynced \/ ReadNext \/ ReadByte \/ TimesOut \/ NoBuffer
              \/ \E b \in BoundedSeq(Byte, maxRead) : Source(b)

ReaderSpec == ReaderInit /\ [][ReaderNext]_readerVars

-----------------------------------------------------------------------------
ReaderTypeOK ==
    /\ reading \in BOOLEAN /\ status \in {"ok", "failed"}
    /\ gathered.state \in {"Sync", "SkipDelim", "Within"}
    /\ gathered.out \in Seq(Byte \ {0}) /\ Len(gathered.out) <= maxSize
    /\ rest \in Seq(Byte) /\ Len(rest) <= maxRead

(* Until a call fails, the calls together return every frame of what was   *)
(* read, each once, whole and in order, however the buffers cut the stream *)
(* and however many frames one buffer holds: what is not yet returned is   *)
(* in the suffix (read_packet-impl.h:22-87).                               *)
Consumed == SubSeq(input, 1, Len(input) - Len(rest))
ReturnsEveryFrame ==
    reading \/ status = "ok" =>
        \E end \in [DOMAIN packets -> FrameEnds(Consumed)] :
            /\ \A i \in DOMAIN packets : packets[i] = FrameAt(Consumed, end[i])
            /\ \A i, j \in DOMAIN packets : i < j => end[i] < end[j]
            /\ \A e \in FrameEnds(Consumed) : \E i \in DOMAIN packets : end[i] = e

(* A reader that has a packet under way has all of it. *)
PartialFrame == reading /\ gathered.state = "Within" =>
                   /\ IsSuffix(<<0>> \o gathered.out, Consumed)
                   /\ gathered.out # <<>>
=============================================================================
