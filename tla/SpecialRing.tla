---------------------------- MODULE SpecialRing ----------------------------
(***************************************************************************)
(* SpecialRingT (spacket/special_ring.h): an array of Capacity + 1 slots   *)
(* and three indices.  Going around the array from fullIdx,                *)
(*   fullIdx .. pointIdx    elements the hardware has finished (get),      *)
(*   pointIdx .. emptyIdx   elements waiting for the hardware (point),     *)
(*   emptyIdx .. fullIdx    free slots (put), one of them never filled.    *)
(* The class is modelled by operators on a record r, so that a driver with *)
(* two rings can use them, and by the state machine of one ring below.     *)
(***************************************************************************)
EXTENDS Integers, Sequences

CONSTANTS
  T,         \* the element type
  Hole,      \* a slot that is empty or has been moved from
  Capacity

ASSUME CapacityAssumption == Capacity \in Nat \ {0}
ASSUME HoleAssumption == Hole \notin T

VARIABLE ring

Size  == Capacity + 1
Index == 0 .. Capacity

Empty ==
  [array |-> [i \in Index |-> Hole], emptyIdx |-> 0, fullIdx |-> 0, pointIdx |-> 0]

\* Operators named ...Faulty are wrong on purpose and used nowhere: each stands
\* before the definition it varies, for which it is substituted to see a property
\* violated.

next(i) == (i + 1) % Size

canGetFaulty(r) == r.fullIdx # r.emptyIdx

full(r)     == next(r.emptyIdx) = r.fullIdx
canPut(r)   == ~full(r)
canGet(r)   == r.fullIdx # r.pointIdx
hasPoint(r) == r.pointIdx # r.emptyIdx

point(r) == IF hasPoint(r) THEN r.array[r.pointIdx] ELSE Hole

\* put of a full ring returns false and leaves the element with the caller.
put(r, b) ==
  IF full(r)
  THEN r
  ELSE [r EXCEPT !.array[r.emptyIdx] = b, !.emptyIdx = next(r.emptyIdx)]

getFaulty(r) == [r EXCEPT !.fullIdx = next(r.fullIdx)]

\* The element get returns, and the ring it leaves; get of a ring with nothing
\* to get is a FATAL_ERROR, so canGet is the caller's obligation.
front(r) == r.array[r.fullIdx]
get(r)   == [r EXCEPT !.array[r.fullIdx] = Hole, !.fullIdx = next(r.fullIdx)]

advancePointFaulty(r) == [r EXCEPT !.pointIdx = next(r.pointIdx)]

advancePoint(r) ==
  IF hasPoint(r) THEN [r EXCEPT !.pointIdx = next(r.pointIdx)] ELSE r

-----------------------------------------------------------------------------
(* One ring, used in any legal order of calls. *)

Init == ring = Empty

Put(b)       == ring' = put(ring, b)
Get          == canGet(ring) /\ ring' = get(ring)
AdvancePoint == ring' = advancePoint(ring)

Next == (\E b \in T : Put(b)) \/ Get \/ AdvancePoint

Spec == Init /\ [][Next]_ring

-----------------------------------------------------------------------------
(* The ring seen as a staged queue. *)

\* The number of slots from index i forward to index j.
Distance(i, j) == IF i <= j THEN j - i ELSE j - i + Size

\* The index k slots after i, for k < Size.
Ahead(i, k) == IF i + k < Size THEN i + k ELSE i + k - Size

\* The contents of the slots from i up to but not including j.
Segment(r, i, j) ==
  [k \in 1 .. Distance(i, j) |-> r.array[Ahead(i, k - 1)]]

Ready(r)  == Segment(r, r.fullIdx, r.pointIdx)
Queued(r) == Segment(r, r.pointIdx, r.emptyIdx)

SQ == INSTANCE StagedQueue
        WITH Item <- T, queued <- Queued(ring), ready <- Ready(ring)

-----------------------------------------------------------------------------

\* The values of the class.
Ring == [array : [Index -> T \union {Hole}],
         emptyIdx : Index, fullIdx : Index, pointIdx : Index]

InOrder(r) ==
  Distance(r.fullIdx, r.pointIdx) + Distance(r.pointIdx, r.emptyIdx)
    = Distance(r.fullIdx, r.emptyIdx)

FilledExactly(r) ==
  \A i \in Index :
    r.array[i] # Hole <=> Distance(r.fullIdx, i) < Distance(r.fullIdx, r.emptyIdx)

WellFormed(r) == r \in Ring /\ InOrder(r) /\ FilledExactly(r)

TypeOK == ring \in Ring

\* The three indices keep their cyclic order: the hardware's point never leaves
\* the stretch between the consumer's index and the producer's, whichever of the
\* three has wrapped around the array (special_ring.h:29-61).
IndicesInOrder == InOrder(ring)

\* A slot holds an element exactly while it lies between fullIdx and emptyIdx:
\* put never overwrites an element nobody took, and point and get never reach a
\* slot that was moved from (special_ring.h:29-50).
SlotsFilledExactly == FilledExactly(ring)

\* SpecialRingT with its wrapping indices behaves as a bounded two-stage FIFO:
\* elements come out of get in the order of put, each after the hardware's point
\* passed it, and never more than Capacity are inside (special_ring.h:21-61).
ImplementsStagedQueue == SQ!Spec
=============================================================================
