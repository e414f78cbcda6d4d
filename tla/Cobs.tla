-------------------------------- MODULE Cobs --------------------------------
(***************************************************************************)
(* The byte stuffing of src/common/include/spacket/cobs/cobs.h and the     *)
(* calls of cobs.h around it.  K is the largest code, 255 in the code: a   *)
(* block holds at most K - 1 bytes, and a byte is a number below K + 1,    *)
(* so a small K has all the block boundaries of the real one within reach. *)
(*                                                                         *)
(* The loops over pointers are folds over sequences.  A result that is a   *)
(* failure is the empty sequence, which is no successful one.  stuff reads *)
(* the byte before its input when that is empty; it is defined here for    *)
(* the inputs that have a byte.                                            *)
(*                                                                         *)
(* Operators named ...Faulty are wrong on purpose and used nowhere.        *)
(***************************************************************************)
EXTENDS Integers, Sequences, SequencesExt

CONSTANT K   \* the largest code

ASSUME KAssumption == K \in Nat /\ K >= 3

Byte == 0 .. K

maxStuffedSize(n) == n + 1 + n \div (K - 1)
maxStuffedAndDelimitedSize(n) == maxStuffedSize(n) + 2
maxPayloadSize(n) == ((n - 1) * (K - 1)) \div K
maxPayloadSizeDelimited(n) == ((n - 2 - 1) * (K - 1)) \div K

(* The state of the loop: what is written, the place of the open block's   *)
(* code byte and how many of its bytes are read.                           *)
Closed(s) == [s EXCEPT !.out[s.code] = s.chunk + 1, !.chunk = 0]

stuffByteFaulty(s, b) ==
    CASE s.chunk = 0 /\ b = 0 -> [s EXCEPT !.out = Append(@, 1)]
      [] s.chunk = 0 /\ b # 0 -> [out |-> s.out \o <<0, b>>, code |-> Len(s.out) + 1, chunk |-> 1]
      [] s.chunk # 0 /\ b = 0 -> Closed(s)
      [] s.chunk # 0 /\ b # 0 -> [s EXCEPT !.out = Append(@, b), !.chunk = @ + 1]
stuffByte(s, b) ==
    CASE s.chunk = 0 /\ b = 0 -> [s EXCEPT !.out = Append(@, 1)]
      [] s.chunk = 0 /\ b # 0 -> [out |-> s.out \o <<0, b>>, code |-> Len(s.out) + 1, chunk |-> 1]
      [] s.chunk # 0 /\ b = 0 -> Closed(s)
      [] s.chunk # 0 /\ b # 0 ->
             LET t == [s EXCEPT !.out = Append(@, b), !.chunk = @ + 1]
             IN  IF t.chunk = K - 1 THEN Closed(t) ELSE t

(* No code is appended to an input that ends with a full block. *)
stuff(p) ==
    LET s == FoldLeft(stuffByte, [out |-> <<>>, code |-> 1, chunk |-> 0], p)
    IN  IF s.chunk # 0 THEN Closed(s).out
        ELSE IF Last(p) = 0 THEN Append(s.out, 1) ELSE s.out

stuffAndDelim(p) == <<0>> \o stuff(p) \o <<0>>

(* A block is followed by a zero unless it is full or the last; the length *)
(* of a block is a byte, so that of code 0 wraps.  The fold adds the zero  *)
(* when the next block begins, and so begins itself as after a full one.   *)
unstuffByte(s, b) ==
    IF s.left > 0 THEN [s EXCEPT !.out = Append(@, b), !.left = @ - 1]
    ELSE [out  |-> IF s.code = K THEN s.out ELSE Append(s.out, 0),
          left |-> (b - 1) % (K + 1), code |-> b]

unstuffLoop(e) == FoldLeft(unstuffByte, [out |-> <<>>, left |-> 0, code |-> K], e)
unstuff(e) == LET s == unstuffLoop(e) IN IF s.left > 0 THEN <<>> ELSE s.out
=============================================================================
