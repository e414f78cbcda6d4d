-------------------------------- MODULE Ring --------------------------------
(***************************************************************************)
(* RingT (src/common/include/spacket/ring.h): a bounded queue in an array  *)
(* of Capacity + 1 optional elements, as operators on a record r.          *)
(*                                                                         *)
(* Operators named ...Faulty are wrong on purpose and used nowhere.        *)
(***************************************************************************)
EXTENDS Integers, Sequences

CONSTANTS Capacity, T,
          None   \* boost::none

ASSUME RingAssumption == Capacity \in Nat \ {0} /\ None \notin T

Index == 0 .. Capacity
RingT == [array : [Index -> T \union {None}], headIndex : Index, tailIndex : Index]

Empty == [array |-> [i \in Index |-> None], headIndex |-> 0, tailIndex |-> 0]

next(i) == (i + 1) % (Capacity + 1)

empty(r) == r.headIndex = r.tailIndex
full(r) == next(r.headIndex) = r.tailIndex
canPut(r) == ~full(r)

(* tail() of an empty ring is a FATAL_ERROR. *)
tail(r) == r.array[r.tailIndex]

(* A full ring stays as it is, and put returns false. *)
putFaulty(r, b) == [r EXCEPT !.array[r.headIndex] = b, !.headIndex = next(@)]
put(r, b) == IF full(r) THEN r
             ELSE [r EXCEPT !.array[r.headIndex] = b, !.headIndex = next(@)]

eraseTail(r) == IF empty(r) THEN r
                ELSE [r EXCEPT !.array[r.tailIndex] = None, !.tailIndex = next(@)]

-----------------------------------------------------------------------------
(* What it holds, oldest first. *)
Count(r) == IF r.tailIndex <= r.headIndex THEN r.headIndex - r.tailIndex
            ELSE r.headIndex - r.tailIndex + Capacity + 1
Ahead(i, k) == IF i + k <= Capacity THEN i + k ELSE i + k - Capacity - 1
Contents(r) == [k \in 1 .. Count(r) |-> r.array[Ahead(r.tailIndex, k - 1)]]

Holds(r, i) == IF r.tailIndex <= r.headIndex
               THEN r.tailIndex <= i /\ i < r.headIndex
               ELSE r.tailIndex <= i \/ i < r.headIndex
=============================================================================
