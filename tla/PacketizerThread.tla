-------------------------- MODULE PacketizerThread --------------------------
(***************************************************************************)
(* packetizerThreadFunctionT of                                            *)
(* lib/chibios/include/spacket/packetizer_thread_function.h: it fetches    *)
(* buffers, cuts their bytes into packets and posts these without waiting. *)
(* A step is a byte, a fetch, or a fetch of the thread's own client.       *)
(***************************************************************************)
EXTENDS Packetizer

CONSTANTS MaxRead, MaxStream   \* bounds: the bytes of a buffer, of the stream

VARIABLES fetched,  \* the rest of the buffer in hand
          pktz,
          out,      \* the packet in the outgoing mailbox, <<>> when empty
          error,    \* what the step reported
          stream,   \* the bytes consumed so far
          handled   \* the closing zeros of the packets that were finished

vars == <<fetched, pktz, out, error, stream, handled>>

Init == /\ fetched = <<>> /\ pktz = create(TRUE) /\ out = <<>> /\ error = "none"
        /\ stream = <<>> /\ handled = {}

Fetch == /\ fetched = <<>>
         /\ \E b \in BoundedSeq(Byte, MaxRead) :
               /\ b # <<>> /\ Len(stream) + Len(b) <= MaxStream
               /\ fetched' = b
         /\ error' = "none"
         /\ UNCHANGED <<pktz, out, stream, handled>>

(* A packet that finds the mailbox full is dropped and reported. *)
post(packet) == IF out = <<>> THEN out' = packet /\ error' = "none"
                ELSE UNCHANGED out /\ error' = "Timeout"

overflow(p) == pktz' = create(TRUE) /\ error' = "PacketizerOverflow" /\ UNCHANGED <<out, handled>>

finished(p) == /\ post(p.out)
               /\ pktz' = create(TRUE)
               /\ handled' = handled \union {Len(stream')}

Consume == /\ fetched # <<>>
           /\ fetched' = Tail(fetched)
           /\ stream' = Append(stream, Head(fetched))
           /\ LET r == consume(pktz, Head(fetched))
              IN  \/ r.result = "Overflow" /\ overflow(r.pktz)
                  \/ r.result = "Finished" /\ finished(r.pktz)
                  \/ r.result = "Continue" /\ pktz' = r.pktz /\ error' = "none" /\ UNCHANGED <<out, handled>>

Take == /\ out # <<>>
        /\ out' = <<>> /\ error' = "none"
        /\ UNCHANGED <<fetched, pktz, stream, handled>>

(* The stream is bounded, so the thread comes to wait. *)
Next == Fetch \/ Consume \/ Take

Spec == Init /\ [][Next]_vars

-----------------------------------------------------------------------------
TypeOK == /\ fetched \in Seq(Byte) /\ stream \in Seq(Byte) /\ handled \subseteq 1 .. MaxStream
          /\ pktz.state \in {"Sync", "SkipDelim", "Within"} /\ pktz.out \in Seq(Byte \ {0})
          /\ Len(pktz.out) <= maxSize /\ Len(out) <= maxSize
          /\ error \in {"none", "Timeout", "PacketizerOverflow"}

(* Exactly those frames are handled that fit a buffer and whose opening    *)
(* zero did not close a frame that was handled: a zero that both closes    *)
(* and opens a frame costs the second one (packetizer_thread_function.h:   *)
(* 58-59), frames with a zero of their own on both sides are all handled,  *)
(* and an overflow costs nothing but its own frame.                        *)
HandledExactly ==
    handled = {i \in FrameEnds(stream) : /\ Len(FrameAt(stream, i)) <= maxSize
                                         /\ Opening(stream, i) \notin handled}

(* What is posted is the frame that just ended, and one that is not posted *)
(* is reported.                                                            *)
PostsTheFrame ==
    [][handled' # handled =>
          \/ error' = "Timeout" /\ out' = out
          \/ error' = "none" /\ out' = FrameAt(stream', Len(stream'))]_vars

=============================================================================
