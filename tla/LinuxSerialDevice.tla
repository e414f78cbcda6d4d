-------------------------- MODULE LinuxSerialDevice --------------------------
(***************************************************************************)
(* The serial device of the Linux port                                     *)
(* (lib/linux/serial_device_impl.cpp and impl/serial_device_impl_p.h):     *)
(* open, a loop of select and read that collects a burst of bytes, and a   *)
(* loop of writes.  A step is a system call with the test that follows it; *)
(* EINTR, after which the call is repeated, is left out.  A byte is named  *)
(* by its place in the stream.                                             *)
(*                                                                         *)
(* Operators named ...Faulty are wrong on purpose and used nowhere.        *)
(***************************************************************************)
EXTENDS Integers, Sequences, SequencesExt

CONSTANTS maxRead,   \* the size of a buffer
          Writer,
          Size,      \* bound: the bytes of a written buffer
          MaxIn, MaxOut   \* bounds: the bytes that arrive, the buffers written

VARIABLES fd,       \* "none", "open", or the device is opened and "ready"
          step,     \* which call of doOpen comes next
          arrived, taken,  \* how many bytes came, how many were read from fd
          reading,  \* where a call of read is
          cur,      \* the bytes it has read
          late,     \* whether its deadline had passed when it last looked
          past,     \* whether it has passed by now
          result,   \* what read returned last
          got,      \* the bytes read has returned
          lost,     \* those it had read when a call failed
          left,     \* for each writer the bytes it has yet to write
          failed,   \* the buffers whose write returned an error
          buffers,  \* how many buffers were written
          line      \* what was written to fd: the buffer's number, the byte's place

reader == <<reading, cur, late, past, result, got, lost, taken>>
writer == <<left, failed, buffers, line>>
vars == <<fd, step, arrived, reader, writer>>

Init == /\ fd = "none" /\ step = 0 /\ arrived = 0 /\ taken = 0
        /\ reading = "no" /\ cur = <<>> /\ late = FALSE /\ past = FALSE
        /\ result = "none" /\ got = <<>> /\ lost = {}
        /\ left = [w \in Writer |-> <<>>] /\ failed = {}
        /\ buffers = 0 /\ line = <<>>

-----------------------------------------------------------------------------
(* doOpen: open, then tcgetattr, cfsetispeed, cfsetospeed and tcsetattr.   *)
Open == /\ fd = "none"
        /\ fd' = "open" /\ step' = 1
        /\ UNCHANGED <<arrived, reader, writer>>

Configure == /\ fd = "open"
             /\ IF step = 4 THEN fd' = "ready" /\ step' = 0
                ELSE fd' = fd /\ step' = step + 1
             /\ UNCHANGED <<arrived, reader, writer>>

close == fd' = "none"

(* The object that owns fd goes out of scope. *)
ConfigureFails == /\ fd = "open"
                  /\ close /\ step' = 0
                  /\ UNCHANGED <<arrived, reader, writer>>

Close == /\ fd = "ready" /\ reading = "no" /\ \A w \in Writer : left[w] = <<>>
         /\ close
         /\ taken' = arrived /\ lost' = lost \union (taken + 1 .. arrived)
         /\ UNCHANGED <<step, arrived, reading, cur, late, past, result, got, writer>>

(* The line and the clock. *)
Arrive == /\ fd = "ready" /\ arrived < MaxIn
          /\ arrived' = arrived + 1
          /\ UNCHANGED <<fd, step, reader, writer>>

Pass == /\ reading # "no" /\ ~past
        /\ past' = TRUE
        /\ UNCHANGED <<fd, step, arrived, reading, cur, late, result, got, lost, taken, writer>>

-----------------------------------------------------------------------------
(* Impl::read.  With a timeout of zero the deadline has passed at once.    *)
Read == /\ fd = "ready" /\ reading = "no"
        /\ reading' = "loop" /\ cur' = <<>>
        /\ past' \in BOOLEAN /\ late' = past'
        /\ UNCHANGED <<fd, step, arrived, result, got, lost, taken, writer>>

return(r) == /\ reading' = "no" /\ result' = r
             /\ got' = IF r = "ok" THEN got \o cur ELSE got

GoesOn == reading = "loop" /\ ~late /\ Len(cur) < maxRead

LeaveFaulty == /\ reading = "loop" /\ ~GoesOn
               /\ return(IF late THEN "ReadTimeout" ELSE "ok")
               /\ UNCHANGED <<fd, step, arrived, cur, late, past, lost, taken, writer>>
Leave == /\ reading = "loop" /\ ~GoesOn
         /\ return(IF cur = <<>> THEN "ReadTimeout" ELSE "ok")
         /\ UNCHANGED <<fd, step, arrived, cur, late, past, lost, taken, writer>>

(* select reports bytes, read takes some of them, or none at all, and the  *)
(* clock is read.                                                          *)
ReadBytes == /\ GoesOn
             /\ \E n \in 0 .. maxRead - Len(cur) :
                   /\ n <= arrived - taken
                   /\ cur' = cur \o [i \in 1 .. n |-> taken + i]
                   /\ taken' = taken + n
             /\ late' = past
             /\ UNCHANGED <<fd, step, arrived, reading, past, result, got, lost, writer>>

(* The line is silent for byteTimeout: the burst is over, or none began. *)
SelectTimesOut == /\ GoesOn /\ taken = arrived
                  /\ IF cur = <<>> THEN late' = past /\ UNCHANGED <<reading, result, got>>
                     ELSE return("ok") /\ UNCHANGED late
                  /\ UNCHANGED <<fd, step, arrived, cur, past, lost, taken, writer>>

(* select or read fails: what was read is gone. *)
ReadFails == /\ GoesOn
             /\ return("SerialDeviceReadError")
             /\ lost' = lost \union ToSet(cur)
             /\ UNCHANGED <<fd, step, arrived, cur, late, past, taken, writer>>

ReadLoop == Leave \/ ReadBytes \/ SelectTimesOut

-----------------------------------------------------------------------------
(* Impl::write. *)
Write(w) == /\ fd = "ready" /\ left[w] = <<>> /\ buffers < MaxOut
            /\ buffers' = buffers + 1
            /\ left' = [left EXCEPT ![w] = [i \in 1 .. Size |-> <<buffers', i>>]]
            /\ UNCHANGED <<fd, step, arrived, reader, failed, line>>

advance(bytes, n) == SubSeq(bytes, n + 1, Len(bytes))

WriteSome(w) == /\ left[w] # <<>>
                /\ \E n \in 1 .. Len(left[w]) :
                      /\ line' = line \o SubSeq(left[w], 1, n)
                      /\ left' = [left EXCEPT ![w] = advance(left[w], n)]
                /\ UNCHANGED <<fd, step, arrived, reader, failed, buffers>>

(* The kernel's buffer is full: fd does not block, so the write fails. *)
WriteFails(w) == /\ left[w] # <<>>
                 /\ left' = [left EXCEPT ![w] = <<>>]
                 /\ failed' = failed \union {Head(left[w])[1]}
                 /\ UNCHANGED <<fd, step, arrived, reader, buffers, line>>

Next == \/ Open \/ Configure \/ ConfigureFails \/ Close \/ Arrive \/ Pass
        \/ Read \/ ReadLoop \/ ReadFails
        \/ \E w \in Writer : Write(w) \/ WriteSome(w) \/ WriteFails(w)

(* Time passes, and a call goes on until it returns. *)
Spec == /\ Init /\ [][Next]_vars
        /\ WF_vars(ReadLoop) /\ WF_vars(Pass)

-----------------------------------------------------------------------------
TypeOK == /\ fd \in {"none", "open", "ready"} /\ step \in 0 .. 4
          /\ arrived \in 0 .. MaxIn /\ taken \in 0 .. arrived
          /\ reading \in {"no", "loop"} /\ late \in BOOLEAN /\ past \in BOOLEAN
          /\ Len(cur) <= maxRead
          /\ result \in {"none", "ok", "ReadTimeout", "SerialDeviceReadError"}
          /\ left \in [Writer -> Seq((1 .. MaxOut) \X (1 .. Size))]
          /\ failed \subseteq 1 .. MaxOut /\ buffers \in 0 .. MaxOut

(* Every byte that was taken from fd is returned once and in order, or in  *)
(* the hands of the call that goes on, or was lost when a call failed or   *)
(* fd was closed; none is lost because a deadline passes within a burst.   *)
InHand == IF reading = "loop" THEN cur ELSE <<>>
BytesReturned == LET all == got \o InHand
                 IN  /\ ToSet(all) \union lost = 1 .. taken
                     /\ ToSet(all) \intersect lost = {}
                     /\ \A i \in 2 .. Len(all) : all[i - 1] < all[i]

(* A buffer that was written without an error is on the line whole, once,  *)
(* and in one piece, also after a write that failed half-way.  This holds  *)
(* for one writer: the loop takes no lock, so two writers mix when the     *)
(* kernel takes a buffer in parts.                                         *)
Written == {b \in (1 .. buffers) \ failed : \A w \in Writer : left[w] = <<>> \/ Head(left[w])[1] # b}
WholeUnlessFailed ==
    \A b \in Written : \E i \in DOMAIN line :
        /\ i + Size - 1 \in DOMAIN line
        /\ \A k \in DOMAIN line : IF k \in i .. i + Size - 1 THEN line[k] = <<b, k - i + 1>>
                                  ELSE line[k][1] # b

(* A call of read returns when its deadline passes and the line is silent, *)
(* and also when it is not.                                                *)
ReadReturns == reading = "loop" ~> reading = "no"
=============================================================================
