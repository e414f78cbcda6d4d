------------------------- MODULE SpecialRing_proofs -------------------------
(***************************************************************************)
(* Proofs about SpecialRingT for every Capacity and every element type:    *)
(* the indices never overtake each other, and the ring implements a        *)
(* bounded two-stage FIFO.                                                 *)
(***************************************************************************)
EXTENDS SpecialRing, SequenceTheorems, TLAPS

(***************************************************************************)
(* next() without the remainder, the form in which the provers use it.     *)
(***************************************************************************)
LEMMA NextValue ==
  ASSUME NEW i \in Index
  PROVE  next(i) = IF i = Capacity THEN 0 ELSE i + 1
<1>1. CASE i = Capacity
  BY <1>1, CapacityAssumption, SMT DEF next, Size, Index
<1>2. CASE i # Capacity
  BY <1>2, CapacityAssumption, SMT DEF next, Size, Index
<1> QED BY <1>1, <1>2

\* next() stays in the array.
LEMMA NextIsIndex ==
  ASSUME NEW i \in Index
  PROVE  next(i) \in Index
BY NextValue, CapacityAssumption DEF Index

\* A distance is shorter than the array, and 0 only between equal indices.
LEMMA DistanceRange ==
  ASSUME NEW i \in Index, NEW j \in Index
  PROVE  /\ Distance(i, j) \in 0 .. Capacity
         /\ Distance(i, j) = 0 <=> i = j
BY CapacityAssumption DEF Distance, Index, Size

(***************************************************************************)
(* Moving the far end of a segment forward lengthens it by one, moving its *)
(* near end forward shortens it by one.                                    *)
(***************************************************************************)
LEMMA DistanceToNext ==
  ASSUME NEW i \in Index, NEW j \in Index, next(j) # i
  PROVE  Distance(i, next(j)) = Distance(i, j) + 1
BY NextValue, CapacityAssumption DEF Distance, Index, Size

\* The same for the near end.
LEMMA DistanceFromNext ==
  ASSUME NEW i \in Index, NEW j \in Index, i # j
  PROVE  Distance(next(i), j) = Distance(i, j) - 1
BY NextValue, CapacityAssumption DEF Distance, Index, Size

\* From the slot after i back to i it is the whole array but one.
LEMMA DistanceOnceAround ==
  ASSUME NEW i \in Index
  PROVE  Distance(next(i), i) = Capacity
BY NextValue, CapacityAssumption DEF Distance, Index, Size

\* The producer meets the consumer before it can meet the hardware.
LEMMA PointBehindProducer ==
  ASSUME NEW e \in Index, NEW f \in Index, NEW p \in Index,
         Distance(f, p) + Distance(p, e) = Distance(f, e),
         next(e) # f
  PROVE  next(e) # p
BY NextValue, CapacityAssumption DEF Distance, Index, Size

\* Ahead stays in the array.
LEMMA AheadIsIndex ==
  ASSUME NEW i \in Index, NEW k \in 0 .. Capacity
  PROVE  Ahead(i, k) \in Index
BY CapacityAssumption DEF Ahead, Index, Size

\* Starting one slot later saves one step.
LEMMA AheadOfNext ==
  ASSUME NEW i \in Index, NEW k \in 0 .. Capacity - 1
  PROVE  Ahead(next(i), k) = Ahead(i, k + 1)
BY NextValue, CapacityAssumption DEF Ahead, Index, Size

\* Ahead and Distance are inverse to each other.
LEMMA AheadByDistance ==
  ASSUME NEW i \in Index, NEW j \in Index
  PROVE  Ahead(i, Distance(i, j)) = j
BY CapacityAssumption DEF Ahead, Distance, Index, Size

\* The other way round.
LEMMA DistanceOfAhead ==
  ASSUME NEW i \in Index, NEW k \in 0 .. Capacity
  PROVE  Distance(i, Ahead(i, k)) = k
BY CapacityAssumption DEF Ahead, Distance, Index, Size

-----------------------------------------------------------------------------

(***************************************************************************)
(* What each call writes, field by field.                                  *)
(***************************************************************************)
LEMMA PutFields ==
  ASSUME NEW r \in Ring, NEW b \in T, ~full(r)
  PROVE  /\ put(r, b) \in Ring
         /\ put(r, b).array = [r.array EXCEPT ![r.emptyIdx] = b]
         /\ put(r, b).emptyIdx = next(r.emptyIdx)
         /\ put(r, b).fullIdx = r.fullIdx
         /\ put(r, b).pointIdx = r.pointIdx
<1>1. next(r.emptyIdx) \in Index
  BY NextIsIndex DEF Ring
<1> QED BY <1>1 DEF put, Ring

\* What get writes.
LEMMA GetFields ==
  ASSUME NEW r \in Ring
  PROVE  /\ get(r) \in Ring
         /\ get(r).array = [r.array EXCEPT ![r.fullIdx] = Hole]
         /\ get(r).emptyIdx = r.emptyIdx
         /\ get(r).fullIdx = next(r.fullIdx)
         /\ get(r).pointIdx = r.pointIdx
<1>1. next(r.fullIdx) \in Index
  BY NextIsIndex DEF Ring
<1> QED BY <1>1 DEF get, Ring

\* What advancePoint writes.
LEMMA AdvanceFields ==
  ASSUME NEW r \in Ring, hasPoint(r)
  PROVE  /\ advancePoint(r) \in Ring
         /\ advancePoint(r).array = r.array
         /\ advancePoint(r).emptyIdx = r.emptyIdx
         /\ advancePoint(r).fullIdx = r.fullIdx
         /\ advancePoint(r).pointIdx = next(r.pointIdx)
<1>1. next(r.pointIdx) \in Index
  BY NextIsIndex DEF Ring
<1> QED BY <1>1 DEF advancePoint, Ring

(***************************************************************************)
(* Every legal call keeps a ring well formed.                              *)
(***************************************************************************)
LEMMA PutWellFormed ==
  ASSUME NEW r, WellFormed(r), NEW b \in T
  PROVE  WellFormed(put(r, b))
<1>1. CASE full(r)
  BY <1>1 DEF put
<1>2. CASE ~full(r)
  <2> DEFINE q == put(r, b)
  <2>1. /\ r \in Ring
        /\ r.array \in [Index -> T \union {Hole}]
        /\ r.emptyIdx \in Index
        /\ r.fullIdx \in Index
        /\ r.pointIdx \in Index
    BY DEF WellFormed, Ring
  <2>2. /\ q \in Ring
        /\ q.array = [r.array EXCEPT ![r.emptyIdx] = b]
        /\ q.emptyIdx = next(r.emptyIdx)
        /\ q.fullIdx = r.fullIdx
        /\ q.pointIdx = r.pointIdx
    BY <1>2, <2>1, PutFields
  <2>3. Distance(q.fullIdx, q.emptyIdx) = Distance(r.fullIdx, r.emptyIdx) + 1
    BY <1>2, <2>1, <2>2, DistanceToNext DEF full
  <2>4. InOrder(r) /\ FilledExactly(r)
    BY DEF WellFormed
  <2>5. Distance(q.pointIdx, q.emptyIdx) = Distance(r.pointIdx, r.emptyIdx) + 1
    <3>1. next(r.emptyIdx) # r.pointIdx
      BY <1>2, <2>1, <2>4, PointBehindProducer DEF InOrder, full
    <3> QED BY <2>1, <2>2, <3>1, DistanceToNext
  <2>6. InOrder(q)
    BY <2>1, <2>2, <2>3, <2>4, <2>5, DistanceRange DEF InOrder
  <2>7. FilledExactly(q)
    <3> SUFFICES ASSUME NEW i \in Index
                 PROVE  q.array[i] # Hole
                          <=> Distance(q.fullIdx, i) < Distance(q.fullIdx, q.emptyIdx)
      BY DEF FilledExactly
    <3>1. CASE i = r.emptyIdx
      <4>1. q.array[i] # Hole
        BY <2>1, <2>2, <3>1, HoleAssumption
      <4> QED BY <2>1, <2>2, <2>3, <3>1, <4>1, DistanceRange
    <3>2. CASE i # r.emptyIdx
      <4>1. q.array[i] = r.array[i]
        BY <2>1, <2>2, <3>2
      <4>2. Distance(r.fullIdx, i) # Distance(r.fullIdx, r.emptyIdx)
        BY <2>1, <3>2, CapacityAssumption DEF Distance, Index, Size
      <4> QED BY <2>1, <2>2, <2>3, <2>4, <4>1, <4>2, DistanceRange DEF FilledExactly
    <3> QED BY <3>1, <3>2
  <2> QED BY <2>2, <2>6, <2>7 DEF WellFormed
<1> QED BY <1>1, <1>2

\* get keeps the ring well formed.
LEMMA GetWellFormed ==
  ASSUME NEW r, WellFormed(r), canGet(r)
  PROVE  WellFormed(get(r))
<1> DEFINE q == get(r)
<1>1. /\ r \in Ring
      /\ r.array \in [Index -> T \union {Hole}]
      /\ r.emptyIdx \in Index
      /\ r.fullIdx \in Index
      /\ r.pointIdx \in Index
  BY DEF WellFormed, Ring
<1>2. /\ q \in Ring
      /\ q.array = [r.array EXCEPT ![r.fullIdx] = Hole]
      /\ q.emptyIdx = r.emptyIdx
      /\ q.fullIdx = next(r.fullIdx)
      /\ q.pointIdx = r.pointIdx
  BY <1>1, GetFields
<1>3. InOrder(r) /\ FilledExactly(r)
  BY DEF WellFormed
<1>4. r.fullIdx # r.emptyIdx /\ r.fullIdx # r.pointIdx
  BY <1>1, <1>3, CapacityAssumption DEF canGet, InOrder, Distance, Index, Size
<1>5. /\ Distance(q.fullIdx, q.pointIdx) = Distance(r.fullIdx, r.pointIdx) - 1
      /\ Distance(q.fullIdx, q.emptyIdx) = Distance(r.fullIdx, r.emptyIdx) - 1
  BY <1>1, <1>2, <1>4, DistanceFromNext
<1>6. InOrder(q)
  BY <1>1, <1>2, <1>3, <1>5, DistanceRange DEF InOrder
<1>7. FilledExactly(q)
  <2> SUFFICES ASSUME NEW i \in Index
               PROVE  q.array[i] # Hole
                        <=> Distance(q.fullIdx, i) < Distance(q.fullIdx, q.emptyIdx)
    BY DEF FilledExactly
  <2>1. CASE i = r.fullIdx
    <3>1. q.array[i] = Hole
      BY <1>1, <1>2, <2>1
    <3>2. Distance(q.fullIdx, i) = Capacity
      BY <1>2, <2>1, DistanceOnceAround
    <3>3. Distance(q.fullIdx, q.emptyIdx) \in 0 .. Capacity
      BY <1>1, <1>2, NextIsIndex, DistanceRange
    <3> QED BY <3>1, <3>2, <3>3, CapacityAssumption
  <2>2. CASE i # r.fullIdx
    <3>1. q.array[i] = r.array[i]
      BY <1>1, <1>2, <2>2
    <3>2. Distance(q.fullIdx, i) = Distance(r.fullIdx, i) - 1
      BY <1>1, <1>2, <2>2, DistanceFromNext
    <3> QED BY <1>1, <1>2, <1>3, <1>5, <3>1, <3>2, DistanceRange DEF FilledExactly
  <2> QED BY <2>1, <2>2
<1> QED BY <1>2, <1>6, <1>7 DEF WellFormed

\* So does advancePoint.
LEMMA AdvanceWellFormed ==
  ASSUME NEW r, WellFormed(r)
  PROVE  WellFormed(advancePoint(r))
<1>1. CASE ~hasPoint(r)
  BY <1>1 DEF advancePoint
<1>2. CASE hasPoint(r)
  <2> DEFINE q == advancePoint(r)
  <2>1. /\ r \in Ring
        /\ r.emptyIdx \in Index
        /\ r.fullIdx \in Index
        /\ r.pointIdx \in Index
    BY DEF WellFormed, Ring
  <2>2. /\ q \in Ring
        /\ q.array = r.array
        /\ q.emptyIdx = r.emptyIdx
        /\ q.fullIdx = r.fullIdx
        /\ q.pointIdx = next(r.pointIdx)
    BY <1>2, <2>1, AdvanceFields
  <2>3. InOrder(r) /\ FilledExactly(r)
    BY DEF WellFormed
  <2>4. Distance(q.pointIdx, q.emptyIdx) = Distance(r.pointIdx, r.emptyIdx) - 1
    BY <1>2, <2>1, <2>2, DistanceFromNext DEF hasPoint
  <2>5. Distance(q.fullIdx, q.pointIdx) = Distance(r.fullIdx, r.pointIdx) + 1
    <3>1. next(r.pointIdx) # r.fullIdx
      BY <1>2, <2>1, <2>3, NextValue, CapacityAssumption
         DEF hasPoint, InOrder, Distance, Index, Size
    <3> QED BY <2>1, <2>2, <3>1, DistanceToNext
  <2>6. InOrder(q)
    BY <2>1, <2>2, <2>3, <2>4, <2>5, DistanceRange DEF InOrder
  <2> QED BY <2>2, <2>3, <2>6 DEF WellFormed, FilledExactly
<1> QED BY <1>1, <1>2

(***************************************************************************)
(* The invariant of the ring, by induction over its calls: the indices     *)
(* never overtake each other and no element is overwritten or read twice.  *)
(***************************************************************************)
THEOREM RingInvariant == Spec => [](TypeOK /\ IndicesInOrder /\ SlotsFilledExactly)
<1>1. Init => WellFormed(ring)
  BY CapacityAssumption
     DEF Init, WellFormed, Ring, InOrder, FilledExactly, Empty, Distance, Index, Size
<1>2. WellFormed(ring) /\ [Next]_ring => WellFormed(ring)'
  BY PutWellFormed, GetWellFormed, AdvanceWellFormed
     DEF Next, Put, Get, AdvancePoint
<1>3. WellFormed(ring) => TypeOK /\ IndicesInOrder /\ SlotsFilledExactly
  BY DEF WellFormed, TypeOK, IndicesInOrder, SlotsFilledExactly
<1> QED BY <1>1, <1>2, <1>3, PTL DEF Spec

-----------------------------------------------------------------------------

(***************************************************************************)
(* The segments of a ring as sequences: an element put at the far end is   *)
(* appended, taking the one at the near end leaves the tail.               *)
(***************************************************************************)
LEMMA SegmentIsSeq ==
  ASSUME NEW r \in Ring, NEW i \in Index, NEW j \in Index
  PROVE  /\ Segment(r, i, j) \in Seq(T \union {Hole})
         /\ Len(Segment(r, i, j)) = Distance(i, j)
         /\ \A k \in 1 .. Distance(i, j) : Segment(r, i, j)[k] = r.array[Ahead(i, k - 1)]
<1> DEFINE n == Distance(i, j)
           f == [k \in 1 .. n |-> r.array[Ahead(i, k - 1)]]
<1>1. n \in Nat
  BY DistanceRange, CapacityAssumption
<1>2. ASSUME NEW k \in 1 .. n PROVE r.array[Ahead(i, k - 1)] \in T \union {Hole}
  <2>1. k - 1 \in 0 .. Capacity
    BY DistanceRange, CapacityAssumption
  <2> QED BY <2>1, AheadIsIndex DEF Ring
<1>3. f \in [1 .. n -> T \union {Hole}]
  BY <1>2
<1>4. f \in Seq(T \union {Hole}) /\ Len(f) = n
  <2> HIDE DEF n, f
  <2> QED BY <1>1, <1>3
<1> QED BY <1>4 DEF Segment

\* A segment whose far end moves forward gains the slot there.
LEMMA SegmentExtended ==
  ASSUME NEW r \in Ring, NEW q \in Ring, NEW i \in Index, NEW j \in Index,
         next(j) # i,
         \A k \in Index : k # j => q.array[k] = r.array[k]
  PROVE  Segment(q, i, next(j)) = Append(Segment(r, i, j), q.array[j])
<1> DEFINE S == T \union {Hole}
           n == Distance(i, j)
           s == Segment(r, i, j)
           t == Segment(q, i, next(j))
<1>1. next(j) \in Index /\ Distance(i, next(j)) = n + 1 /\ n \in 0 .. Capacity
  BY NextIsIndex, DistanceToNext, DistanceRange
<1>2. /\ s \in Seq(S) /\ Len(s) = n
      /\ \A k \in 1 .. n : s[k] = r.array[Ahead(i, k - 1)]
  BY SegmentIsSeq
<1>3. /\ t \in Seq(S) /\ Len(t) = n + 1
      /\ \A k \in 1 .. n + 1 : t[k] = q.array[Ahead(i, k - 1)]
  BY <1>1, SegmentIsSeq
<1>4. q.array[j] \in S
  BY DEF Ring
<1>5. ASSUME NEW k \in 1 .. n PROVE t[k] = s[k]
  <2>1. k - 1 \in 0 .. Capacity /\ k - 1 # n
    BY <1>1, CapacityAssumption
  <2>2. Ahead(i, k - 1) \in Index /\ Ahead(i, k - 1) # j
    BY <2>1, AheadIsIndex, DistanceOfAhead
  <2> QED BY <1>1, <1>2, <1>3, <2>2
<1>6. t[n + 1] = q.array[j]
  BY <1>1, <1>3, AheadByDistance
<1> HIDE DEF S, n, s, t
<1>7. n \in Nat
  BY <1>1, CapacityAssumption
<1>8. /\ Append(s, q.array[j]) \in Seq(S) /\ Len(Append(s, q.array[j])) = n + 1
      /\ \A k \in 1 .. n : Append(s, q.array[j])[k] = s[k]
      /\ Append(s, q.array[j])[n + 1] = q.array[j]
  BY <1>2, <1>4, AppendProperties
<1>9. \A k \in 1 .. n + 1 : t[k] = Append(s, q.array[j])[k]
  BY <1>5, <1>6, <1>7, <1>8
<1>10. t = Append(s, q.array[j])
  BY <1>3, <1>8, <1>9, SeqEqual
<1> QED BY <1>10 DEF s, t

\* A segment whose near end moves forward loses its first element.
LEMMA SegmentShortened ==
  ASSUME NEW r \in Ring, NEW q \in Ring, NEW i \in Index, NEW j \in Index,
         i # j,
         \A k \in Index : k # i => q.array[k] = r.array[k]
  PROVE  /\ Segment(r, i, j) # << >>
         /\ Head(Segment(r, i, j)) = r.array[i]
         /\ Segment(q, next(i), j) = Tail(Segment(r, i, j))
<1> DEFINE S == T \union {Hole}
           n == Distance(i, j)
           s == Segment(r, i, j)
           t == Segment(q, next(i), j)
<1>1. /\ next(i) \in Index /\ Distance(next(i), j) = n - 1
      /\ n \in 1 .. Capacity
  BY NextIsIndex, DistanceFromNext, DistanceRange, CapacityAssumption
<1>2. /\ s \in Seq(S) /\ Len(s) = n
      /\ \A k \in 1 .. n : s[k] = r.array[Ahead(i, k - 1)]
  BY SegmentIsSeq
<1>3. /\ t \in Seq(S) /\ Len(t) = n - 1
      /\ \A k \in 1 .. n - 1 : t[k] = q.array[Ahead(next(i), k - 1)]
  BY <1>1, SegmentIsSeq
<1>4. s[1] = r.array[i]
  BY <1>1, <1>2, CapacityAssumption DEF Ahead, Index, Size
<1>5. ASSUME NEW k \in 1 .. n - 1 PROVE t[k] = s[k + 1]
  <2>1. k - 1 \in 0 .. Capacity - 1 /\ k \in 0 .. Capacity /\ (k + 1) - 1 = k
        /\ (k - 1) + 1 = k /\ k + 1 \in 1 .. n /\ k # 0
    BY <1>1, CapacityAssumption
  <2>2. Ahead(next(i), k - 1) = Ahead(i, k)
    BY <2>1, AheadOfNext
  <2>3. Ahead(i, k) \in Index
    BY <2>1, AheadIsIndex
  <2>4. Ahead(i, k) # i
    BY <2>1, CapacityAssumption DEF Ahead, Index, Size
  <2> QED BY <1>2, <1>3, <2>1, <2>2, <2>3, <2>4
<1> HIDE DEF S, n, s, t
<1>6. n \in Nat \ {0}
  BY <1>1, CapacityAssumption
<1>7. s # << >> /\ Head(s) = s[1]
  BY <1>2, <1>6, EmptySeq
<1>8. /\ Tail(s) \in Seq(S) /\ Len(Tail(s)) = n - 1
      /\ \A k \in 1 .. n - 1 : Tail(s)[k] = s[k + 1]
  BY <1>2, <1>7, HeadTailProperties
<1>9. t = Tail(s)
  BY <1>3, <1>5, <1>8, SeqEqual
<1> QED BY <1>4, <1>7, <1>9 DEF s, t

\* A write outside a segment does not change it.
LEMMA SegmentUntouched ==
  ASSUME NEW r \in Ring, NEW q \in Ring, NEW i \in Index, NEW j \in Index, NEW m \in Index,
         Distance(i, m) >= Distance(i, j),
         \A k \in Index : k # m => q.array[k] = r.array[k]
  PROVE  Segment(q, i, j) = Segment(r, i, j)
<1> DEFINE S == T \union {Hole}
           n == Distance(i, j)
           s == Segment(r, i, j)
           t == Segment(q, i, j)
<1>1. n \in 0 .. Capacity /\ n \in Nat
  BY DistanceRange, CapacityAssumption
<1>2. /\ s \in Seq(S) /\ Len(s) = n
      /\ \A k \in 1 .. n : s[k] = r.array[Ahead(i, k - 1)]
  BY SegmentIsSeq
<1>3. /\ t \in Seq(S) /\ Len(t) = n
      /\ \A k \in 1 .. n : t[k] = q.array[Ahead(i, k - 1)]
  BY SegmentIsSeq
<1>4. ASSUME NEW k \in 1 .. n PROVE t[k] = s[k]
  <2>1. k - 1 \in 0 .. Capacity /\ k - 1 < n
    BY <1>1, CapacityAssumption
  <2>2. Ahead(i, k - 1) \in Index /\ Ahead(i, k - 1) # m
    BY <1>1, <2>1, AheadIsIndex, DistanceOfAhead
  <2> QED BY <1>2, <1>3, <2>2
<1> HIDE DEF S, n, s, t
<1>5. s = t
  BY <1>2, <1>3, <1>4, SeqEqual
<1> QED BY <1>5 DEF s, t

-----------------------------------------------------------------------------

(***************************************************************************)
(* What each call does to the two stages of a well formed ring.            *)
(***************************************************************************)
LEMMA PutIsPut ==
  ASSUME NEW r, WellFormed(r), NEW b \in T, ~full(r)
  PROVE  /\ Len(Queued(r)) + Len(Ready(r)) < Capacity
         /\ Queued(put(r, b)) = Append(Queued(r), b)
         /\ Ready(put(r, b)) = Ready(r)
<1> DEFINE q == put(r, b)
<1>1. /\ r \in Ring
      /\ r.array \in [Index -> T \union {Hole}]
      /\ r.emptyIdx \in Index
      /\ r.fullIdx \in Index
      /\ r.pointIdx \in Index
  BY DEF WellFormed, Ring
<1>2. /\ q \in Ring
      /\ q.array = [r.array EXCEPT ![r.emptyIdx] = b]
      /\ q.emptyIdx = next(r.emptyIdx)
      /\ q.fullIdx = r.fullIdx
      /\ q.pointIdx = r.pointIdx
  BY <1>1, PutFields
<1>3. InOrder(r)
  BY DEF WellFormed
<1>4. Distance(r.fullIdx, r.emptyIdx) < Capacity
  BY <1>1, NextValue, CapacityAssumption DEF full, Distance, Index, Size
<1>5. next(r.emptyIdx) # r.pointIdx
  BY <1>1, <1>3, PointBehindProducer DEF InOrder, full
<1>6. Len(Queued(r)) + Len(Ready(r)) < Capacity
  <2>1. /\ Len(Queued(r)) = Distance(r.pointIdx, r.emptyIdx)
        /\ Len(Ready(r)) = Distance(r.fullIdx, r.pointIdx)
    BY <1>1, SegmentIsSeq DEF Queued, Ready
  <2> QED BY <1>1, <1>3, <1>4, <2>1, DistanceRange DEF InOrder
<1>7. Queued(q) = Append(Queued(r), b)
  <2>1. q.array[r.emptyIdx] = b /\ \A k \in Index : k # r.emptyIdx => q.array[k] = r.array[k]
    BY <1>1, <1>2
  <2> HIDE DEF q
  <2> QED BY <1>1, <1>2, <1>5, <2>1, SegmentExtended DEF Queued
<1>8. Ready(q) = Ready(r)
  <2>1. Distance(r.fullIdx, r.emptyIdx) >= Distance(r.fullIdx, r.pointIdx)
    BY <1>1, <1>3, DistanceRange, CapacityAssumption DEF InOrder
  <2>2. \A k \in Index : k # r.emptyIdx => q.array[k] = r.array[k]
    BY <1>1, <1>2
  <2> HIDE DEF q
  <2> QED BY <1>1, <1>2, <2>1, <2>2, SegmentUntouched DEF Ready
<1> QED BY <1>6, <1>7, <1>8

\* The same for get, a Get of the staged queue.
LEMMA GetIsGet ==
  ASSUME NEW r, WellFormed(r), canGet(r)
  PROVE  /\ Ready(r) # << >>
         /\ front(r) = Head(Ready(r))
         /\ Ready(get(r)) = Tail(Ready(r))
         /\ Queued(get(r)) = Queued(r)
<1> DEFINE q == get(r)
<1>1. /\ r \in Ring
      /\ r.array \in [Index -> T \union {Hole}]
      /\ r.emptyIdx \in Index
      /\ r.fullIdx \in Index
      /\ r.pointIdx \in Index
  BY DEF WellFormed, Ring
<1>2. /\ q \in Ring
      /\ q.array = [r.array EXCEPT ![r.fullIdx] = Hole]
      /\ q.emptyIdx = r.emptyIdx
      /\ q.fullIdx = next(r.fullIdx)
      /\ q.pointIdx = r.pointIdx
  BY <1>1, GetFields
<1>3. r.fullIdx # r.pointIdx /\ InOrder(r)
  BY DEF WellFormed, canGet
<1>4. \A k \in Index : k # r.fullIdx => q.array[k] = r.array[k]
  BY <1>1, <1>2
<1> HIDE DEF q
<1>5. /\ Ready(r) # << >>
      /\ front(r) = Head(Ready(r))
      /\ Ready(q) = Tail(Ready(r))
  BY <1>1, <1>2, <1>3, <1>4, SegmentShortened DEF Ready, front
<1>6. Queued(q) = Queued(r)
  <2>1. Distance(r.pointIdx, r.fullIdx) >= Distance(r.pointIdx, r.emptyIdx)
    BY <1>1, <1>3, CapacityAssumption DEF InOrder, Distance, Index, Size
  <2> QED BY <1>1, <1>2, <1>4, <2>1, SegmentUntouched DEF Queued
<1> QED BY <1>5, <1>6 DEF q

\* The same for advancePoint, a Finish.
LEMMA AdvanceIsFinish ==
  ASSUME NEW r, WellFormed(r), hasPoint(r)
  PROVE  /\ Queued(r) # << >>
         /\ point(r) = Head(Queued(r))
         /\ Queued(advancePoint(r)) = Tail(Queued(r))
         /\ Ready(advancePoint(r)) = Append(Ready(r), Head(Queued(r)))
<1> DEFINE q == advancePoint(r)
<1>1. /\ r \in Ring
      /\ r.emptyIdx \in Index
      /\ r.fullIdx \in Index
      /\ r.pointIdx \in Index
  BY DEF WellFormed, Ring
<1>2. /\ q \in Ring
      /\ q.array = r.array
      /\ q.emptyIdx = r.emptyIdx
      /\ q.fullIdx = r.fullIdx
      /\ q.pointIdx = next(r.pointIdx)
  BY <1>1, AdvanceFields
<1>3. r.pointIdx # r.emptyIdx /\ InOrder(r)
  BY DEF WellFormed, hasPoint
<1>4. next(r.pointIdx) # r.fullIdx
  BY <1>1, <1>3, NextValue, CapacityAssumption DEF InOrder, Distance, Index, Size
<1> HIDE DEF q
<1>5. /\ Queued(r) # << >>
      /\ Head(Queued(r)) = r.array[r.pointIdx]
      /\ Queued(q) = Tail(Queued(r))
  <2>1. \A k \in Index : k # r.pointIdx => q.array[k] = r.array[k]
    BY <1>2
  <2>2. /\ Segment(r, r.pointIdx, r.emptyIdx) # << >>
        /\ Head(Segment(r, r.pointIdx, r.emptyIdx)) = r.array[r.pointIdx]
        /\ Segment(q, next(r.pointIdx), r.emptyIdx) = Tail(Segment(r, r.pointIdx, r.emptyIdx))
    BY <1>1, <1>2, <1>3, <2>1, SegmentShortened
  <2> QED BY <1>2, <2>2 DEF Queued
<1>6. Ready(q) = Append(Ready(r), r.array[r.pointIdx])
  BY <1>1, <1>2, <1>4, SegmentExtended DEF Ready
<1>7. point(r) = r.array[r.pointIdx]
  BY DEF point
<1> QED BY <1>5, <1>6, <1>7 DEF q

(***************************************************************************)
(* The ring, for every capacity and element type, implements the bounded   *)
(* two-stage FIFO of StagedQueue.                                          *)
(***************************************************************************)
THEOREM RingRefinesStagedQueue == Spec => ImplementsStagedQueue
<1>1. Init => SQ!Init
  <2> SUFFICES ASSUME Init PROVE SQ!Init
    OBVIOUS
  <2>1. ring \in Ring /\ ring.fullIdx = 0 /\ ring.pointIdx = 0 /\ ring.emptyIdx = 0
    BY CapacityAssumption DEF Init, Empty, Ring, Index
  <2>2. 0 \in Index /\ Distance(0, 0) = 0
    BY CapacityAssumption DEF Index, Distance
  <2>3. /\ Segment(ring, 0, 0) \in Seq(T \union {Hole})
        /\ Len(Segment(ring, 0, 0)) = 0
    BY <2>1, <2>2, SegmentIsSeq
  <2>4. Segment(ring, 0, 0) = << >>
    BY <2>3, EmptySeq
  <2> QED BY <2>1, <2>4 DEF SQ!Init, Queued, Ready
<1>2. WellFormed(ring) /\ [Next]_ring => [SQ!Next]_<<Queued(ring), Ready(ring)>>
  <2> SUFFICES ASSUME WellFormed(ring), [Next]_ring
               PROVE  SQ!Next \/ UNCHANGED <<Queued(ring), Ready(ring)>>
    OBVIOUS
  <2>1. ASSUME NEW b \in T, Put(b)
        PROVE  SQ!Put(b) \/ UNCHANGED <<Queued(ring), Ready(ring)>>
    <3>1. CASE full(ring)
      BY <2>1, <3>1 DEF Put, put
    <3>2. CASE ~full(ring)
      BY <2>1, <3>2, PutIsPut DEF Put, SQ!Put
    <3> QED BY <3>1, <3>2
  <2>2. ASSUME Get PROVE SQ!Get
    BY <2>2, GetIsGet DEF Get, SQ!Get
  <2>3. ASSUME AdvancePoint
        PROVE  SQ!Finish \/ UNCHANGED <<Queued(ring), Ready(ring)>>
    <3>1. CASE hasPoint(ring)
      BY <2>3, <3>1, AdvanceIsFinish DEF AdvancePoint, SQ!Finish
    <3>2. CASE ~hasPoint(ring)
      BY <2>3, <3>2 DEF AdvancePoint, advancePoint
    <3> QED BY <3>1, <3>2
  <2>4. CASE UNCHANGED ring
    BY <2>4
  <2> QED BY <2>1, <2>2, <2>3, <2>4 DEF Next, SQ!Next
<1>3. WellFormed(ring) <=> TypeOK /\ IndicesInOrder /\ SlotsFilledExactly
  BY DEF WellFormed, TypeOK, IndicesInOrder, SlotsFilledExactly
<1> QED BY <1>1, <1>2, <1>3, RingInvariant, PTL DEF Spec, ImplementsStagedQueue, SQ!Spec
-----------------------------------------------------------------------------

(***************************************************************************)
(* What the driver of a ring relies on: a call moves one of the three      *)
(* indices and leaves the questions about the other two as they were.      *)
(***************************************************************************)
LEMMA PutSeen ==
  ASSUME NEW r, WellFormed(r), NEW b \in T, canPut(r)
  PROVE  /\ hasPoint(put(r, b))
         /\ hasPoint(r) => point(put(r, b)) = point(r)
         /\ canGet(put(r, b)) <=> canGet(r)
<1> DEFINE q == put(r, b)
<1>1. /\ r \in Ring
      /\ r.array \in [Index -> T \union {Hole}]
      /\ r.emptyIdx \in Index
      /\ r.fullIdx \in Index
      /\ r.pointIdx \in Index
      /\ InOrder(r)
      /\ next(r.emptyIdx) # r.fullIdx
  BY DEF WellFormed, Ring, canPut, full
<1>2. /\ q.array = [r.array EXCEPT ![r.emptyIdx] = b]
      /\ q.emptyIdx = next(r.emptyIdx)
      /\ q.fullIdx = r.fullIdx
      /\ q.pointIdx = r.pointIdx
  BY <1>1, PutFields DEF full
<1>3. next(r.emptyIdx) # r.pointIdx
  BY <1>1, PointBehindProducer DEF InOrder
<1> HIDE DEF q
<1>4. hasPoint(q) /\ (canGet(q) <=> canGet(r))
  BY <1>2, <1>3 DEF hasPoint, canGet
<1>5. hasPoint(r) => point(q) = point(r)
  BY <1>1, <1>2, <1>4 DEF hasPoint, point
<1> QED BY <1>4, <1>5 DEF q

\* Likewise for get.
LEMMA GetSeen ==
  ASSUME NEW r, WellFormed(r), canGet(r)
  PROVE  /\ front(r) \in T
         /\ hasPoint(get(r)) <=> hasPoint(r)
         /\ point(get(r)) = point(r)
         /\ canPut(get(r))
<1> DEFINE q == get(r)
<1>1. /\ r \in Ring
      /\ r.array \in [Index -> T \union {Hole}]
      /\ r.emptyIdx \in Index
      /\ r.fullIdx \in Index
      /\ r.pointIdx \in Index
      /\ InOrder(r)
      /\ FilledExactly(r)
      /\ r.fullIdx # r.pointIdx
  BY DEF WellFormed, Ring, canGet
<1>2. /\ q.array = [r.array EXCEPT ![r.fullIdx] = Hole]
      /\ q.emptyIdx = r.emptyIdx
      /\ q.fullIdx = next(r.fullIdx)
      /\ q.pointIdx = r.pointIdx
  BY <1>1, GetFields
<1>3. r.fullIdx # r.emptyIdx
  BY <1>1, CapacityAssumption DEF InOrder, Distance, Index, Size
<1>4. front(r) \in T
  <2>1. Distance(r.fullIdx, r.fullIdx) = 0 /\ Distance(r.fullIdx, r.emptyIdx) > 0
    BY <1>1, <1>3, DistanceRange
  <2>2. r.array[r.fullIdx] # Hole
    BY <1>1, <2>1 DEF FilledExactly
  <2> QED BY <1>1, <2>2 DEF front
<1>5. canPut(q)
  BY <1>1, <1>2, <1>3, NextValue, CapacityAssumption DEF canPut, full, Index
<1> HIDE DEF q
<1>6. (hasPoint(q) <=> hasPoint(r)) /\ point(q) = point(r)
  BY <1>1, <1>2 DEF hasPoint, point
<1> QED BY <1>4, <1>5, <1>6 DEF q

\* Likewise for advancePoint.
LEMMA AdvanceSeen ==
  ASSUME NEW r, WellFormed(r), hasPoint(r)
  PROVE  /\ point(r) \in T
         /\ canGet(advancePoint(r))
         /\ canPut(advancePoint(r)) <=> canPut(r)
<1> DEFINE q == advancePoint(r)
<1>1. /\ r \in Ring
      /\ r.array \in [Index -> T \union {Hole}]
      /\ r.emptyIdx \in Index
      /\ r.fullIdx \in Index
      /\ r.pointIdx \in Index
      /\ InOrder(r)
      /\ FilledExactly(r)
      /\ r.pointIdx # r.emptyIdx
  BY DEF WellFormed, Ring, hasPoint
<1>2. /\ q.emptyIdx = r.emptyIdx
      /\ q.fullIdx = r.fullIdx
      /\ q.pointIdx = next(r.pointIdx)
  BY <1>1, AdvanceFields
<1>3. next(r.pointIdx) # r.fullIdx
  BY <1>1, NextValue, CapacityAssumption DEF InOrder, Distance, Index, Size
<1>4. point(r) \in T
  <2>1. Distance(r.fullIdx, r.pointIdx) < Distance(r.fullIdx, r.emptyIdx)
    BY <1>1, DistanceRange, CapacityAssumption DEF InOrder
  <2>2. r.array[r.pointIdx] # Hole
    BY <1>1, <2>1 DEF FilledExactly
  <2> QED BY <1>1, <2>2 DEF point, hasPoint
<1> HIDE DEF q
<1>5. canGet(q) /\ (canPut(q) <=> canPut(r))
  BY <1>2, <1>3 DEF canGet, canPut, full
<1> QED BY <1>4, <1>5 DEF q

-----------------------------------------------------------------------------

(***************************************************************************)
(* Who is in the ring.                                                     *)
(***************************************************************************)
Contents(r) == {r.array[i] : i \in DOMAIN r.array} \ {Hole}

Distinct(r) ==
  \A i, j \in Index : r.array[i] = r.array[j] /\ r.array[i] # Hole => i = j

\* put adds the element, once.
LEMMA PutContents ==
  ASSUME NEW r, WellFormed(r), Distinct(r), NEW b \in T, canPut(r), b \notin Contents(r)
  PROVE  /\ Contents(put(r, b)) = Contents(r) \union {b}
         /\ Distinct(put(r, b))
<1> DEFINE q == put(r, b)
<1>1. /\ r \in Ring
      /\ r.array \in [Index -> T \union {Hole}]
      /\ r.emptyIdx \in Index
      /\ r.fullIdx \in Index
      /\ FilledExactly(r)
      /\ ~full(r)
  BY DEF WellFormed, Ring, canPut
<1>2. q.array = [r.array EXCEPT ![r.emptyIdx] = b]
  BY <1>1, PutFields
<1>3. r.array[r.emptyIdx] = Hole
  BY <1>1, DistanceRange DEF FilledExactly
<1> HIDE DEF q
<1>4. Contents(q) = Contents(r) \union {b}
  BY <1>1, <1>2, <1>3, HoleAssumption DEF Contents
<1>5. Distinct(q)
  BY <1>1, <1>2 DEF Distinct, Contents
<1> QED BY <1>4, <1>5 DEF q

\* get removes the element it returns.
LEMMA GetContents ==
  ASSUME NEW r, WellFormed(r), Distinct(r), canGet(r)
  PROVE  /\ front(r) \in Contents(r)
         /\ Contents(get(r)) = Contents(r) \ {front(r)}
         /\ Distinct(get(r))
<1> DEFINE q == get(r)
<1>1. /\ r \in Ring
      /\ r.array \in [Index -> T \union {Hole}]
      /\ r.fullIdx \in Index
  BY DEF WellFormed, Ring
<1>2. q.array = [r.array EXCEPT ![r.fullIdx] = Hole]
  BY <1>1, GetFields
<1>3. r.array[r.fullIdx] # Hole
  BY GetSeen, HoleAssumption DEF front
<1> HIDE DEF q
<1>4. front(r) \in Contents(r)
  BY <1>1, <1>3 DEF Contents, front
<1>5. Contents(q) = Contents(r) \ {front(r)}
  BY <1>1, <1>2, <1>3 DEF Contents, Distinct, front
<1>6. Distinct(q)
  BY <1>1, <1>2 DEF Distinct
<1> QED BY <1>4, <1>5, <1>6 DEF q

\* advancePoint neither adds nor removes anything.
LEMMA AdvanceContents ==
  ASSUME NEW r, WellFormed(r)
  PROVE  advancePoint(r).array = r.array
BY AdvanceFields DEF advancePoint, WellFormed

\* The buffer at the point is in the ring, and it is not one that get returns.
LEMMA PointContents ==
  ASSUME NEW r, WellFormed(r), Distinct(r), hasPoint(r)
  PROVE  /\ point(r) \in Contents(r)
         /\ canGet(r) => front(r) # point(r)
<1>1. /\ r.array \in [Index -> T \union {Hole}]
      /\ r.fullIdx \in Index
      /\ r.pointIdx \in Index
      /\ point(r) = r.array[r.pointIdx]
      /\ point(r) \in T
  BY AdvanceSeen DEF WellFormed, Ring, point
<1> QED BY <1>1, HoleAssumption DEF Contents, Distinct, front, canGet

\* What waits for get is in the ring, and is not what the hardware works on.
LEMMA ReadyContents ==
  ASSUME NEW r, WellFormed(r), Distinct(r), NEW k \in DOMAIN Ready(r)
  PROVE  /\ Ready(r)[k] \in Contents(r)
         /\ hasPoint(r) => Ready(r)[k] # point(r)
<1> DEFINE i == Ahead(r.fullIdx, k - 1)
<1>1. /\ r.array \in [Index -> T \union {Hole}]
      /\ r.emptyIdx \in Index
      /\ r.fullIdx \in Index
      /\ r.pointIdx \in Index
      /\ InOrder(r)
      /\ FilledExactly(r)
  BY DEF WellFormed, Ring
<1>2. k \in 1 .. Distance(r.fullIdx, r.pointIdx) /\ Ready(r)[k] = r.array[i]
  BY DEF Ready, Segment
<1>3. k - 1 \in 0 .. Capacity /\ k - 1 < Distance(r.fullIdx, r.pointIdx)
  BY <1>1, <1>2, DistanceRange, CapacityAssumption
<1>4. i \in Index /\ Distance(r.fullIdx, i) = k - 1
  BY <1>1, <1>3, AheadIsIndex, DistanceOfAhead
<1> HIDE DEF i
<1>5. Distance(r.fullIdx, i) < Distance(r.fullIdx, r.emptyIdx)
  BY <1>1, <1>3, <1>4, DistanceRange, CapacityAssumption DEF InOrder
<1>6. r.array[i] # Hole
  BY <1>1, <1>4, <1>5 DEF FilledExactly
<1>7. Ready(r)[k] \in Contents(r)
  BY <1>1, <1>2, <1>4, <1>6 DEF Contents
<1>8. i # r.pointIdx
  BY <1>3, <1>4
<1>9. hasPoint(r) => Ready(r)[k] # point(r)
  BY <1>1, <1>2, <1>4, <1>6, <1>8 DEF Distinct, point
<1> QED BY <1>7, <1>9
=============================================================================
