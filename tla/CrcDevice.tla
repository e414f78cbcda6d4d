----------------------------- MODULE CrcDevice -----------------------------
(***************************************************************************)
(* crc::append and crc::check (src/common/include/spacket/crc.h) on the    *)
(* firmware: stm32::crc (lib/stm32/crc_v1/crc_device.cpp) on the CRC unit, *)
(* which takes words of four bytes and is one for all the threads.  One    *)
(* step per access of the unit's register DR.                              *)
(*                                                                         *)
(* A byte has ByteBits bits, 8 in the code, and a word four bytes; words   *)
(* and bytes are sequences of bits, highest first.                         *)
(*                                                                         *)
(* Operators named ...Faulty are wrong on purpose and used nowhere.        *)
(***************************************************************************)
EXTENDS Integers, Sequences, SequencesExt

CONSTANTS ByteBits,    \* positive
          Polynomial,  \* of the unit, a word
          Users,       \* the threads that append and check
          MaxSize      \* of a buffer, in bytes

WordBits == 4 * ByteBits

VARIABLES DR,
          at,      \* where each user is
          data,    \* its buffer
          pos,     \* how many bytes of it crc() has consumed
          crc, u2  \* its local variables

vars == <<DR, at, data, pos, crc, u2>>

Byte == [1 .. ByteBits -> {0, 1}]
Word == [1 .. WordBits -> {0, 1}]
Zeros(n) == [i \in 1 .. n |-> 0]
Ones == [i \in 1 .. WordBits |-> 1]

Xor(v, w) == [i \in DOMAIN v |-> (v[i] + w[i]) % 2]
shiftLeft(w, n) == SubSeq(w, n + 1, WordBits) \o Zeros(n)
(* LSR by 32, which C++ leaves undefined, gives 0. *)
shiftRightFaulty(w, n) == IF n = WordBits THEN w ELSE Zeros(n) \o SubSeq(w, 1, WordBits - n)
shiftRight(w, n) == Zeros(n) \o SubSeq(w, 1, WordBits - n)

(* The unit: a write to DR divides its old value, added to the new one.    *)
Divide(r) == IF Head(r) = 1 THEN Xor(shiftLeft(r, 1), Polynomial) ELSE shiftLeft(r, 1)
add(v) == DR' = FoldLeft(LAMBDA r, i : Divide(r), Xor(DR, v), [i \in 1 .. WordBits |-> i])

Bits(bytes) == FlattenSeq(bytes)

-----------------------------------------------------------------------------
Init == /\ DR = Ones
        /\ at = [u \in Users |-> "idle"]
        /\ data = [u \in Users |-> <<>>] /\ pos = [u \in Users |-> 0]
        /\ crc = [u \in Users |-> Ones] /\ u2 = [u \in Users |-> Ones]

Goto(u, place) == at' = [at EXCEPT ![u] = place]
Rest(u) == Len(data[u]) - pos[u]

(* append; it refuses an empty buffer and one without room.  The calls of  *)
(* crc() by append and by check are told apart by the size of the buffer   *)
(* only.                                                                   *)
Start(u, b) == /\ at[u] = "idle"
               /\ b # <<>> /\ MaxSize - Len(b) >= 4
               /\ data' = [data EXCEPT ![u] = b]
               /\ Goto(u, "append")
               /\ UNCHANGED <<DR, pos, crc, u2>>

reset(u) == /\ at[u] \in {"append", "check"}
            /\ DR' = Ones
            /\ Goto(u, at[u] \o " words")
            /\ pos' = [pos EXCEPT ![u] = 0]
            /\ UNCHANGED <<data, crc, u2>>

AddWord(u) == /\ at[u] \in {"append words", "check words"} /\ Rest(u) >= 4
              /\ add(Bits(SubSeq(data[u], pos[u] + 1, pos[u] + 4)))
              /\ pos' = [pos EXCEPT ![u] = @ + 4]
              /\ UNCHANGED <<at, data, crc, u2>>

Phase(u, from, to) == \/ at[u] = "append " \o from /\ Goto(u, "append " \o to)
                      \/ at[u] = "check " \o from /\ Goto(u, "check " \o to)

(* last(), and d, the remaining bytes as a number. *)
ReadCrc(u) == /\ Rest(u) < 4
              /\ Phase(u, "words", "crc")
              /\ LET n == ByteBits * Rest(u)
                     d == Zeros(WordBits - n) \o Bits(SubSeq(data[u], pos[u] + 1, Len(data[u])))
                 IN  u2' = [u2 EXCEPT ![u] = Xor(shiftRight(DR, WordBits - n), d)]
              /\ crc' = [crc EXCEPT ![u] = DR]
              /\ UNCHANGED <<DR, data, pos>>

AddCrc(u) == /\ Phase(u, "crc", "tail")
             /\ add(crc[u])
             /\ UNCHANGED <<data, pos, crc, u2>>

AddTail(u) == /\ Phase(u, "tail", "last")
              /\ add(u2[u])
              /\ UNCHANGED <<data, pos, crc, u2>>

ReadLast(u) == /\ Phase(u, "last", "done")
               /\ crc' = [crc EXCEPT ![u] = Xor(DR, shiftLeft(crc[u], ByteBits * Rest(u)))]
               /\ UNCHANGED <<DR, data, pos, u2>>

(* The rest of append: the CRC, highest byte first, follows the data. *)
ToByte(w, k) == SubSeq(w, ByteBits * (k - 1) + 1, ByteBits * k)
Appended(u) == /\ at[u] = "append done"
               /\ data' = [data EXCEPT ![u] = @ \o [k \in 1 .. 4 |-> ToByte(crc[u], k)]]
               /\ Goto(u, "check")
               /\ UNCHANGED <<DR, pos, crc, u2>>

(* The rest of check, and the end of the local variables. *)
Checked(u) == /\ at[u] = "check done"
              /\ data' = [data EXCEPT ![u] = IF crc[u] = Zeros(WordBits) THEN SubSeq(@, 1, Len(@) - 4) ELSE <<>>]
              /\ Goto(u, "idle")
              /\ pos' = [pos EXCEPT ![u] = 0]
              /\ crc' = [crc EXCEPT ![u] = Ones] /\ u2' = [u2 EXCEPT ![u] = Ones]
              /\ UNCHANGED DR

Calculate(u) == reset(u) \/ AddWord(u) \/ ReadCrc(u) \/ AddCrc(u) \/ AddTail(u) \/ ReadLast(u)
Next == \E u \in Users : \/ \E n \in 0 .. MaxSize - 4 : \E b \in [1 .. n -> Byte] : Start(u, b)
                         \/ Calculate(u) \/ Appended(u) \/ Checked(u)

Spec == Init /\ [][Next]_vars

-----------------------------------------------------------------------------
TypeOK == /\ DR \in Word
          /\ \A u \in Users : /\ crc[u] \in Word /\ u2[u] \in Word
                              /\ Len(data[u]) <= MaxSize /\ pos[u] \in 0 .. MaxSize

(* The reference: the remainder of the message, bit by bit, as the host    *)
(* calculates it.                                                          *)
Remainder(bytes) == FoldLeft(LAMBDA r, b : IF Head(r) # b THEN Xor(shiftLeft(r, 1), Polynomial)
                                           ELSE shiftLeft(r, 1), Ones, Bits(bytes))

(* For a buffer of any size, whole words or not, the unit's words and the  *)
(* correction for the last one to three bytes give the remainder that the  *)
(* host calculates (crc_device.cpp:14-40).                                 *)
RightCrc == \A u \in Users : at[u] \in {"append done", "check done"} => crc[u] = Remainder(data[u])

(* What append has made of a buffer, check takes (crc.h:7-34).             *)
PassesCheck == \A u \in Users : at[u] = "check done" => crc[u] = Zeros(WordBits)

(* "device.add(crc); // reset DR to 0" (crc_device.cpp:34): the register   *)
(* is 0 when the tail is added.                                            *)
ResetToZero == \A u \in Users : at[u] \in {"append tail", "check tail"} => DR = Zeros(WordBits)
=============================================================================
