--------------------------- MODULE Modules_proofs ---------------------------
(***************************************************************************)
(* The modules of src/common that stand on their own, for every value of   *)
(* their constants.                                                        *)
(*                                                                         *)
(* Executor: the ring's slots in use are those between the two indices,    *)
(* the procedure that runs finds room for its successor, and the ring is a *)
(* bounded channel.                                                        *)
(*                                                                         *)
(* Ownership: Whole(h) says of a heap that its free list is linked, that a *)
(* block is listed or owned, and that its owner is one.  There is a lemma  *)
(* for each operation on a heap: it keeps a whole heap whole, and changes  *)
(* the owners only as it says.  What a statement does to the owners        *)
(* follows, and that it strands none.                                      *)
(*                                                                         *)
(* Uart: where the client is in stop() and what rests by then, every       *)
(* buffer in one place of five, and of the buffer that is being filled,    *)
(* that its bytes are the last ones that arrived.  That the queue of sent  *)
(* buffers never overflows is counted: its buffers are different ones, and *)
(* the one that has just been sent is not among them.                      *)
(***************************************************************************)
EXTENDS Executor, Ownership, Uart, SequenceTheorems, FiniteSetTheorems, TLAPS

\* next() without its remainder.
LEMMA NextValue ==
  ASSUME NEW i \in Index
  PROVE  /\ next(i) = IF i = Capacity THEN 0 ELSE i + 1
         /\ next(i) \in Index
<1>1. CASE i = Capacity
  BY <1>1, RingAssumption, SMT DEF next, Index
<1>2. CASE i # Capacity
  BY <1>2, RingAssumption, SMT DEF next, Index
<1> QED
  BY <1>1, <1>2

-----------------------------------------------------------------------------
\* What put writes into a ring with room.
LEMMA PutFields ==
  ASSUME NEW r \in RingT, NEW b \in T, canPut(r)
  PROVE  /\ put(r, b) \in RingT
         /\ put(r, b).array = [r.array EXCEPT ![r.headIndex] = b]
         /\ put(r, b).headIndex = next(r.headIndex)
         /\ put(r, b).tailIndex = r.tailIndex
<1>1. next(r.headIndex) \in Index
  BY NextValue DEF RingT
<1> QED
  BY <1>1 DEF put, canPut, RingT

\* What eraseTail writes into a ring that is not empty.
LEMMA EraseFields ==
  ASSUME NEW r \in RingT, ~empty(r)
  PROVE  /\ eraseTail(r) \in RingT
         /\ eraseTail(r).array = [r.array EXCEPT ![r.tailIndex] = None]
         /\ eraseTail(r).headIndex = r.headIndex
         /\ eraseTail(r).tailIndex = next(r.tailIndex)
<1>1. next(r.tailIndex) \in Index
  BY NextValue DEF RingT
<1> QED
  BY <1>1 DEF eraseTail, RingT

\* The slot that put fills is the one that begins to be held.
LEMMA PutHolds ==
  ASSUME NEW r \in RingT, NEW b \in T, canPut(r), NEW i \in Index
  PROVE  Holds(put(r, b), i) <=> Holds(r, i) \/ i = r.headIndex
<1>1. r.headIndex \in Index /\ r.tailIndex \in Index
  BY DEF RingT
<1>2. next(r.headIndex) # r.tailIndex
  BY DEF canPut, full
<1>3. Holds(put(r, b), i) <=> IF r.tailIndex <= next(r.headIndex)
                              THEN r.tailIndex <= i /\ i < next(r.headIndex)
                              ELSE r.tailIndex <= i \/ i < next(r.headIndex)
  BY PutFields DEF Holds
<1> QED
  BY <1>1, <1>2, <1>3, NextValue, RingAssumption DEF Holds, Index

\* The slot that eraseTail empties is the one that ends to be held.
LEMMA EraseHolds ==
  ASSUME NEW r \in RingT, ~empty(r), NEW i \in Index
  PROVE  Holds(eraseTail(r), i) <=> Holds(r, i) /\ i # r.tailIndex
<1>1. r.headIndex \in Index /\ r.tailIndex \in Index /\ r.headIndex # r.tailIndex
  BY DEF RingT, empty
<1>2. Holds(eraseTail(r), i) <=> IF next(r.tailIndex) <= r.headIndex
                                 THEN next(r.tailIndex) <= i /\ i < r.headIndex
                                 ELSE next(r.tailIndex) <= i \/ i < r.headIndex
  BY EraseFields DEF Holds
<1> QED
  BY <1>1, <1>2, NextValue, RingAssumption DEF Holds, Index

\* Append and Tail element by element.
LEMMA AppendAsFunction ==
  ASSUME NEW S, NEW q \in Seq(S), NEW e \in S
  PROVE  Append(q, e) = [k \in 1 .. Len(q) + 1 |-> IF k = Len(q) + 1 THEN e ELSE q[k]]
<1> DEFINE a == Append(q, e)
<1>1. a \in Seq(S) /\ Len(a) = Len(q) + 1 /\ Len(q) \in Nat
      /\ (\A i \in 1 .. Len(q) : a[i] = q[i]) /\ a[Len(q) + 1] = e
  BY AppendProperties
<1> HIDE DEF a
<1>2. a = [k \in 1 .. Len(q) + 1 |-> a[k]]
  BY <1>1
<1>3. \A k \in 1 .. Len(q) + 1 : a[k] = IF k = Len(q) + 1 THEN e ELSE q[k]
  BY <1>1
<1>4. a = [k \in 1 .. Len(q) + 1 |-> IF k = Len(q) + 1 THEN e ELSE q[k]]
  BY <1>2, <1>3, Zenon
<1> QED
  BY <1>4 DEF a

\* The tail of a sequence as a function: every element one place earlier.
LEMMA TailAsFunction ==
  ASSUME NEW S, NEW q \in Seq(S), q # <<>>
  PROVE  Tail(q) = [k \in 1 .. Len(q) - 1 |-> q[k + 1]]
<1> DEFINE u == Tail(q)
<1>1. u \in Seq(S) /\ Len(u) = Len(q) - 1
      /\ \A i \in 1 .. Len(u) : u[i] = q[i + 1]
  BY HeadTailProperties
<1> HIDE DEF u
<1>2. u = [k \in 1 .. Len(q) - 1 |-> u[k]]
  BY <1>1
<1>3. u = [k \in 1 .. Len(q) - 1 |-> q[k + 1]]
  BY <1>1, <1>2
<1> QED
  BY <1>3 DEF u

\* A put adds one element at the end.
LEMMA PutContents ==
  ASSUME NEW r \in RingT, NEW b \in T, canPut(r)
  PROVE  /\ Contents(put(r, b)) = Append(Contents(r), b)
         /\ Len(Contents(r)) < Capacity
<1> DEFINE s == put(r, b)
           h == r.headIndex
           t == r.tailIndex
<1>1. h \in Index /\ t \in Index /\ next(h) # t
  BY DEF RingT, canPut, full
<1>2. s.array = [r.array EXCEPT ![h] = b] /\ s.headIndex = next(h) /\ s.tailIndex = t
  BY PutFields
<1>3. Count(r) \in 0 .. Capacity - 1 /\ Count(s) = Count(r) + 1
  <2>1. Count(r) = IF t <= h THEN h - t ELSE h - t + Capacity + 1
    BY DEF Count
  <2>2. Count(s) = IF t <= next(h) THEN next(h) - t ELSE next(h) - t + Capacity + 1
    BY <1>2 DEF Count
  <2> QED
    BY <2>1, <2>2, <1>1, NextValue, RingAssumption DEF Index
<1>4. ASSUME NEW k \in 1 .. Count(r)
      PROVE  Ahead(t, k - 1) \in Index /\ Ahead(t, k - 1) # h
  <2>1. Count(r) = IF t <= h THEN h - t ELSE h - t + Capacity + 1
    BY DEF Count
  <2> QED
    BY <2>1, <1>1, <1>3, RingAssumption DEF Index, Ahead
<1>5. Ahead(t, Count(r)) = h
  <2>1. Count(r) = IF t <= h THEN h - t ELSE h - t + Capacity + 1
    BY DEF Count
  <2> QED
    BY <2>1, <1>1, RingAssumption DEF Index, Ahead
<1>6. r.array \in [Index -> T \union {None}]
  BY DEF RingT
<1>7. Contents(r) = [k \in 1 .. Count(r) |-> r.array[Ahead(t, k - 1)]]
  BY DEF Contents
<1>8. Contents(s) = [k \in 1 .. Count(r) + 1 |-> s.array[Ahead(t, k - 1)]]
  BY <1>2, <1>3 DEF Contents
<1>9. Contents(r) \in Seq(T \union {None}) /\ Len(Contents(r)) = Count(r)
  <2>1. \A k \in 1 .. Count(r) : r.array[Ahead(t, k - 1)] \in T \union {None}
    BY <1>4, <1>6
  <2> QED
    BY <2>1, <1>3, <1>7
<1>10. Append(Contents(r), b) =
         [k \in 1 .. Count(r) + 1 |-> IF k = Count(r) + 1 THEN b ELSE Contents(r)[k]]
  BY <1>9, AppendAsFunction
<1>11. ASSUME NEW k \in 1 .. Count(r) + 1
       PROVE  s.array[Ahead(t, k - 1)] = IF k = Count(r) + 1 THEN b ELSE Contents(r)[k]
  <2>1. CASE k = Count(r) + 1
    <3>1. Ahead(t, k - 1) = h
      BY <2>1, <1>3, <1>5
    <3> QED
      BY <3>1, <2>1, <1>1, <1>2, <1>6
  <2>2. CASE k # Count(r) + 1
    <3>1. k \in 1 .. Count(r)
      BY <2>2, <1>3
    <3>2. s.array[Ahead(t, k - 1)] = r.array[Ahead(t, k - 1)]
      BY <3>1, <1>2, <1>4, <1>6
    <3> QED
      BY <3>1, <3>2, <2>2, <1>7
  <2> QED
    BY <2>1, <2>2
<1>12. Contents(s) = Append(Contents(r), b)
  BY <1>8, <1>10, <1>11
<1>13. Count(r) < Capacity
  BY <1>3, RingAssumption
<1> QED
  BY <1>9, <1>12, <1>13

\* eraseTail takes the oldest element.
LEMMA EraseContents ==
  ASSUME NEW r \in RingT, ~empty(r)
  PROVE  /\ Contents(r) # <<>>
         /\ Head(Contents(r)) = tail(r)
         /\ Contents(eraseTail(r)) = Tail(Contents(r))
<1> DEFINE s == eraseTail(r)
           h == r.headIndex
           t == r.tailIndex
<1>1. h \in Index /\ t \in Index /\ h # t
  BY DEF RingT, empty
<1>2. s.array = [r.array EXCEPT ![t] = None] /\ s.headIndex = h /\ s.tailIndex = next(t)
  BY EraseFields
<1>3. Count(r) \in 1 .. Capacity /\ Count(s) = Count(r) - 1
  <2>1. Count(r) = IF t <= h THEN h - t ELSE h - t + Capacity + 1
    BY DEF Count
  <2>2. Count(s) = IF next(t) <= h THEN h - next(t) ELSE h - next(t) + Capacity + 1
    BY <1>2 DEF Count
  <2> QED
    BY <2>1, <2>2, <1>1, NextValue, RingAssumption DEF Index
<1>4. Ahead(t, 0) = t
  BY <1>1, RingAssumption DEF Index, Ahead
<1>5. ASSUME NEW k \in 0 .. Capacity - 1
      PROVE  Ahead(next(t), k) = Ahead(t, k + 1) /\ Ahead(t, k + 1) # t
  BY <1>1, NextValue, RingAssumption DEF Index, Ahead
<1>6. ASSUME NEW k \in 0 .. Capacity
      PROVE  Ahead(t, k) \in Index
  BY <1>1, RingAssumption DEF Index, Ahead
<1>7. r.array \in [Index -> T \union {None}]
  BY DEF RingT
<1>8. Contents(r) = [k \in 1 .. Count(r) |-> r.array[Ahead(t, k - 1)]]
  BY DEF Contents
<1>9. Contents(s) = [k \in 1 .. Count(r) - 1 |-> s.array[Ahead(next(t), k - 1)]]
  BY <1>2, <1>3 DEF Contents
<1>10. Contents(r) \in Seq(T \union {None}) /\ Len(Contents(r)) = Count(r)
  <2>1. \A k \in 1 .. Count(r) : k - 1 \in 0 .. Capacity
    BY <1>3, RingAssumption
  <2>2. \A k \in 1 .. Count(r) : r.array[Ahead(t, k - 1)] \in T \union {None}
    BY <2>1, <1>6, <1>7
  <2> QED
    BY <2>2, <1>3, <1>8
<1>11. Contents(r) # <<>> /\ Head(Contents(r)) = r.array[t]
  <2>1. Contents(r)[1] = r.array[t]
    BY <1>3, <1>4, <1>8
  <2> QED
    BY <2>1, <1>3, <1>10
<1>12. Tail(Contents(r)) = [k \in 1 .. Count(r) - 1 |-> Contents(r)[k + 1]]
  BY <1>10, <1>11, TailAsFunction
<1>13. ASSUME NEW k \in 1 .. Count(r) - 1
       PROVE  s.array[Ahead(next(t), k - 1)] = Contents(r)[k + 1]
  <2>1. k - 1 \in 0 .. Capacity - 1 /\ k + 1 \in 1 .. Count(r) /\ (k - 1) + 1 = k
        /\ (k + 1) - 1 = k /\ k \in 0 .. Capacity
    BY <1>3, RingAssumption
  <2>2. Ahead(next(t), k - 1) = Ahead(t, k) /\ Ahead(t, k) # t /\ Ahead(t, k) \in Index
    BY <2>1, <1>3, <1>5, <1>6
  <2>3. Contents(r)[k + 1] = r.array[Ahead(t, k)]
    BY <2>1, <1>8
  <2> QED
    BY <2>2, <2>3, <1>2, <1>7
<1>14. Contents(s) = Tail(Contents(r))
  BY <1>9, <1>12, <1>13
<1> QED
  BY <1>11, <1>14 DEF tail

-----------------------------------------------------------------------------
ExecutorInv == TypeOK /\ LiveExactly /\ RoomForNext

\* The ring starts empty.
LEMMA ExecutorStarts == Init => ExecutorInv
<1> SUFFICES ASSUME Init PROVE ExecutorInv
  OBVIOUS
<1>1. 0 \in Index /\ Empty \in RingT
  BY RingAssumption DEF Empty, RingT, Index
<1>2. \A i \in Index : ~Holds(Empty, i) /\ Empty.array[i] = None
  BY RingAssumption DEF Holds, Empty, Index
<1> QED
  BY <1>1, <1>2 DEF Init, ExecutorInv, TypeOK, LiveExactly, RoomForNext

\* A defer, whoever calls it, keeps the ring's slots in order.
LEMMA DeferKeeps ==
  ASSUME ExecutorInv, NEW p \in T, defer(p)
  PROVE  ring' \in RingT /\ LiveExactly'
<1>1. CASE ~canPut(ring)
  BY <1>1 DEF ExecutorInv, TypeOK, LiveExactly, defer, put, canPut
<1>2. CASE canPut(ring)
  <2>1. ring \in RingT /\ p # None
    BY RingAssumption DEF ExecutorInv, TypeOK
  <2>2. ring' = put(ring, p)
    BY DEF defer
  <2>3. ASSUME NEW i \in Index
        PROVE  ring'.array[i] # None <=> Holds(ring', i)
    <3>1. ring'.array = [ring.array EXCEPT ![ring.headIndex] = p]
          /\ ring.array \in [Index -> T \union {None}]
      BY <1>2, <2>1, <2>2, PutFields DEF RingT
    <3>2. Holds(ring', i) <=> Holds(ring, i) \/ i = ring.headIndex
      BY <1>2, <2>1, <2>2, PutHolds
    <3>3. ring.array[i] # None <=> Holds(ring, i)
      BY DEF ExecutorInv, LiveExactly
    <3> QED
      BY <2>1, <3>1, <3>2, <3>3
  <2> QED
    BY <1>2, <2>1, <2>2, <2>3, PutFields DEF LiveExactly
<1> QED
  BY <1>1, <1>2

\* Every step keeps the invariant.
LEMMA StepKeeps ==
  ASSUME ExecutorInv, [Next]_vars
  PROVE  ExecutorInv'
<1>1. CASE \E p \in T : Defer(p) \/ DeferNext(p)
  <2>1. PICK p \in T : Defer(p) \/ DeferNext(p)
    BY <1>1
  <2>2. ring' \in RingT /\ LiveExactly'
    BY <2>1, DeferKeeps DEF Defer, DeferNext
  <2> QED
    BY <2>1, <2>2 DEF ExecutorInv, TypeOK, RoomForNext, Defer, DeferNext
<1>2. CASE executeOne
  <2>1. ring \in RingT /\ ~empty(ring) /\ ring' = eraseTail(ring)
    BY <1>2 DEF ExecutorInv, TypeOK, executeOne
  <2>2. TypeOK'
    BY <1>2, <2>1, EraseFields DEF executeOne, TypeOK, tail, RingT
  <2>3. LiveExactly'
    <3>1. ASSUME NEW i \in Index
          PROVE  ring'.array[i] # None <=> Holds(ring', i)
      <4>1. ring'.array = [ring.array EXCEPT ![ring.tailIndex] = None]
            /\ ring.array \in [Index -> T \union {None}]
        BY <2>1, EraseFields DEF RingT
      <4>2. Holds(ring', i) <=> Holds(ring, i) /\ i # ring.tailIndex
        BY <2>1, EraseHolds
      <4>3. ring.array[i] # None <=> Holds(ring, i)
        BY DEF ExecutorInv, LiveExactly
      <4> QED
        BY <4>1, <4>2, <4>3
    <3> QED
      BY <3>1 DEF LiveExactly
  <2>4. RoomForNext'
    <3>1. next(ring.headIndex) # next(ring.tailIndex)
      BY <2>1, NextValue, RingAssumption DEF RingT, empty, Index
    <3> QED
      BY <2>1, <3>1, EraseFields DEF RoomForNext, canPut, full
  <2> QED
    BY <2>2, <2>3, <2>4 DEF ExecutorInv
<1>3. CASE Return
  BY <1>3 DEF Return, ExecutorInv, TypeOK, LiveExactly, RoomForNext
<1>4. CASE UNCHANGED vars
  BY <1>4 DEF vars, ExecutorInv, TypeOK, LiveExactly, RoomForNext
<1> QED
  BY <1>1, <1>2, <1>3, <1>4 DEF Next

(* In every reachable state the slots in use are exactly those between the *)
(* two indices, and the procedure that runs can defer another              *)
(* (ring.h:34-49, executor.h:24-27).                                       *)
THEOREM ExecutorInvariant == Spec => [](TypeOK /\ LiveExactly /\ RoomForNext)
<1>1. ExecutorInv /\ [Next]_vars => ExecutorInv'
  BY StepKeeps
<1> QED
  BY <1>1, ExecutorStarts, PTL DEF Spec, ExecutorInv

(* Every step of the executor is one of a bounded first-in first-out       *)
(* channel, or changes nothing that a client of it sees.                   *)
THEOREM ExecutorIsChannel == Spec => ImplementsChannel
<1>1. Init => FIFO!Init
  <2> SUFFICES ASSUME Init PROVE FIFO!Init
    OBVIOUS
  <2>1. Empty \in RingT /\ Count(Empty) = 0
    BY RingAssumption DEF Count, Empty, RingT, Index
  <2>2. Contents(ring) = <<>>
    BY <2>1 DEF Init, Contents
  <2> QED
    BY <2>2 DEF Init, FIFO!Init
<1>2. TypeOK /\ [Next]_vars => [FIFO!Next]_FIFO!vars
  <2> SUFFICES ASSUME TypeOK, Next
               PROVE  FIFO!Next \/ UNCHANGED FIFO!vars
    BY DEF vars, FIFO!vars
  <2>1. ASSUME NEW p \in T, defer(p), UNCHANGED running
        PROVE  FIFO!Next \/ UNCHANGED FIFO!vars
    <3>1. CASE canPut(ring)
      BY <2>1, <3>1, PutContents DEF defer, TypeOK, FIFO!Next, FIFO!Send
    <3>2. CASE ~canPut(ring)
      BY <2>1, <3>2 DEF defer, put, canPut, FIFO!vars
    <3> QED
      BY <3>1, <3>2
  <2>2. CASE executeOne
    <3>1. Contents(ring) # <<>> /\ Contents(ring') = Tail(Contents(ring))
          /\ running' = Head(Contents(ring))
      BY <2>2, EraseContents DEF executeOne, TypeOK
    <3>2. FIFO!Receive("executeOne")
      BY <3>1 DEF FIFO!Receive
    <3> QED
      BY <3>2 DEF FIFO!Next
  <2>3. CASE Return
    BY <2>3 DEF Return, FIFO!Next, FIFO!Ask
  <2> QED
    BY <2>1, <2>2, <2>3 DEF Next, Defer, DeferNext
<1> QED
  BY <1>1, <1>2, ExecutorInvariant, PTL DEF Spec, ImplementsChannel, FIFO!Spec

-----------------------------------------------------------------------------
Cell == Block \union {Null}
Heap == [head : Cell, next : [Block -> Cell], own : [Slot -> Cell], list : Seq(Block)]

(* The parts of FreeListWhole and Partition, of any heap. *)
Linked(h) ==
  /\ h.head = IF h.list = << >> THEN Null ELSE h.list[1]
  /\ \A i \in 1 .. Len(h.list) :
        h.next[h.list[i]] = IF i = Len(h.list) THEN Null ELSE h.list[i + 1]
  /\ \A i, j \in 1 .. Len(h.list) : h.list[i] = h.list[j] => i = j

Listed(h, b) == \E i \in 1 .. Len(h.list) : h.list[i] = b
Divided(h) == \A b \in Block : Listed(h, b) <=> ~ \E s \in Slot : h.own[s] = b
Single(h) == \A s, t \in Slot : h.own[s] = h.own[t] /\ h.own[s] # Null => s = t

Whole(h) == h \in Heap /\ Linked(h) /\ Divided(h) /\ Single(h)

\* Null is no block.
LEMMA NullApart == Null \notin Block
  BY DEF Null, Block

\* A list without its head.
LEMMA TailList ==
  ASSUME NEW S, NEW l \in Seq(S), l # << >>
  PROVE  /\ Tail(l) \in Seq(S) /\ Len(Tail(l)) = Len(l) - 1 /\ Len(l) \in Nat /\ Len(l) > 0
         /\ \A i \in 1 .. Len(l) - 1 : Tail(l)[i] = l[i + 1]
         /\ Tail(l) = << >> <=> Len(l) = 1
<1>1. /\ Tail(l) \in Seq(S) /\ Len(Tail(l)) = Len(l) - 1 /\ Len(l) \in Nat /\ Len(l) > 0
      /\ \A i \in 1 .. Len(l) - 1 : Tail(l)[i] = l[i + 1]
  OBVIOUS
<1>2. ASSUME NEW m \in Seq(S) PROVE m = << >> <=> Len(m) = 0
  OBVIOUS
<1>3. Tail(l) = << >> <=> Len(Tail(l)) = 0
  BY <1>1, <1>2
<1>4. Len(Tail(l)) = 0 <=> Len(l) = 1
  BY <1>1
<1> QED
  BY <1>1, <1>3, <1>4

\* A list with a new head.
LEMMA PushList ==
  ASSUME NEW S, NEW l \in Seq(S), NEW b \in S
  PROVE  /\ <<b>> \o l \in Seq(S) /\ Len(<<b>> \o l) = Len(l) + 1 /\ Len(l) \in Nat
         /\ (<<b>> \o l)[1] = b
         /\ \A i \in 1 .. Len(l) : (<<b>> \o l)[i + 1] = l[i]
  OBVIOUS

(* The head of the free list goes to a slot that had nothing; nobody       *)
(* pointed to it.                                                          *)
LEMMA NewWhole ==
  ASSUME NEW h, Whole(h), h.head # Null, NEW s \in Slot, h.own[s] = Null
  PROVE  /\ Whole(new(h, s))
         /\ new(h, s).own = [h.own EXCEPT ![s] = h.head]
         /\ h.head \in Block /\ \A t \in Slot : h.own[t] # h.head
<1> DEFINE l == h.list
           g == new(h, s)
<1>1. /\ h.head \in Block /\ h.next \in [Block -> Cell] /\ h.own \in [Slot -> Cell]
      /\ l \in Seq(Block) /\ l # << >> /\ h.head = l[1]
  BY DEF Whole, Heap, Linked, Cell
<1>2. /\ Tail(l) \in Seq(Block) /\ Len(Tail(l)) = Len(l) - 1 /\ Len(l) \in Nat /\ Len(l) > 0
      /\ \A i \in 1 .. Len(l) - 1 : Tail(l)[i] = l[i + 1]
  BY <1>1, TailList
<1>3. /\ g.head = h.next[h.head] /\ g.next = [h.next EXCEPT ![h.head] = Null]
      /\ g.own = [h.own EXCEPT ![s] = h.head] /\ g.list = Tail(l)
  BY DEF new
<1>4. \A t \in Slot : h.own[t] # h.head
  <2>1. Listed(h, h.head)
    BY <1>1, <1>2 DEF Listed
  <2> QED
    BY <1>1, <2>1 DEF Whole, Divided
<1>5. g \in Heap
  BY <1>1, <1>2 DEF new, Heap, Cell
<1>6. \A i \in 1 .. Len(l) : l[i] \in Block
  BY <1>1
<1>7. \A i, j \in 1 .. Len(l) : l[i] = l[j] => i = j
  BY DEF Whole, Linked
<1>8. \A i \in 1 .. Len(l) : h.next[l[i]] = IF i = Len(l) THEN Null ELSE l[i + 1]
  BY DEF Whole, Linked
<1>9. Linked(g)
  <2>1. g.head = IF g.list = << >> THEN Null ELSE g.list[1]
    <3>1. g.head = IF 1 = Len(l) THEN Null ELSE l[2]
      <4>1. 1 \in 1 .. Len(l) /\ 1 + 1 = 2
        BY <1>2
      <4> QED
        BY <1>1, <1>3, <1>8, <4>1
    <3>2. CASE Len(l) = 1
      <4>1. Tail(l) = << >>
        BY <1>1, <1>2, <3>2, TailList
      <4> QED
        BY <3>1, <3>2, <4>1, <1>3
    <3>3. CASE Len(l) # 1
      <4>1. ASSUME NEW n \in Nat, n > 0, n # 1 PROVE 1 \in 1 .. n - 1
        BY <4>1
      <4>2. 1 \in 1 .. Len(l) - 1
        BY <1>2, <3>3, <4>1
      <4>3. 1 + 1 = 2
        OBVIOUS
      <4>4. Tail(l) # << >> /\ Tail(l)[1] = l[2]
        BY <1>1, <1>2, <3>3, <4>2, <4>3, TailList
      <4> QED
        BY <3>1, <3>3, <4>4, <1>3
    <3> QED
      BY <3>2, <3>3
  <2>2. ASSUME NEW i \in 1 .. Len(g.list)
        PROVE  g.next[g.list[i]] = IF i = Len(g.list) THEN Null ELSE g.list[i + 1]
    <3>1. /\ i \in 1 .. Len(l) - 1 /\ i + 1 \in 1 .. Len(l) /\ 1 \in 1 .. Len(l)
          /\ g.list[i] = l[i + 1]
      BY <1>2, <1>3
    <3>2. l[i + 1] # h.head
      BY <1>1, <1>2, <1>7, <3>1
    <3>3. g.next[g.list[i]] = h.next[l[i + 1]]
      BY <1>1, <1>3, <1>6, <3>1, <3>2
    <3>4. h.next[l[i + 1]] = IF i + 1 = Len(l) THEN Null ELSE l[(i + 1) + 1]
      BY <1>8, <3>1
    <3>5. i + 1 # Len(l) => i + 1 \in 1 .. Len(l) - 1
      BY <1>2, <3>1
    <3>6. (i + 1 = Len(l)) <=> (i = Len(g.list))
      BY <1>2, <1>3, <3>1
    <3> QED
      BY <1>2, <1>3, <3>3, <3>4, <3>5, <3>6
  <2>3. ASSUME NEW i \in 1 .. Len(g.list), NEW j \in 1 .. Len(g.list), g.list[i] = g.list[j]
        PROVE  i = j
    <3>1. i + 1 \in 1 .. Len(l) /\ j + 1 \in 1 .. Len(l) /\ l[i + 1] = l[j + 1]
      BY <1>2, <1>3, <2>3
    <3> QED
      BY <1>7, <3>1
  <2> QED
    BY <2>1, <2>2, <2>3 DEF Linked
<1>10. ASSUME NEW b \in Block
       PROVE  Listed(g, b) <=> b # h.head /\ Listed(h, b)
  <2>1. ASSUME NEW i \in 1 .. Len(l), l[i] = b, b # h.head PROVE Listed(g, b)
    <3>1. i - 1 \in 1 .. Len(l) - 1 /\ Tail(l)[i - 1] = l[i]
      <4>1. i # 1
        BY <1>1, <2>1
      <4>2. i - 1 \in 1 .. Len(l) - 1 /\ (i - 1) + 1 = i
        BY <1>2, <4>1
      <4> QED
        BY <1>2, <4>2
    <3> QED
      BY <1>2, <1>3, <2>1, <3>1 DEF Listed
  <2>2. ASSUME NEW i \in 1 .. Len(g.list), g.list[i] = b PROVE b # h.head /\ Listed(h, b)
    <3>1. i + 1 \in 1 .. Len(l) /\ l[i + 1] = b /\ 1 \in 1 .. Len(l) /\ i + 1 # 1
      BY <1>2, <1>3, <2>2
    <3> QED
      BY <1>1, <1>7, <3>1 DEF Listed
  <2> QED
    BY <2>1, <2>2 DEF Listed
<1>11. Divided(g)
  <2> SUFFICES ASSUME NEW b \in Block
               PROVE  (\E t \in Slot : g.own[t] = b) <=> b = h.head \/ \E t \in Slot : h.own[t] = b
    BY <1>4, <1>10 DEF Whole, Divided
  <2> QED
    BY NullApart, <1>1, <1>3
<1>12. Single(g)
  BY <1>1, <1>3, <1>4 DEF Whole, Single
<1> QED
  BY <1>1, <1>3, <1>4, <1>5, <1>9, <1>11, <1>12 DEF Whole

\* A block comes back to the head of the list; it was not in it.
LEMMA DeallocateWhole ==
  ASSUME NEW h, Whole(h), NEW s \in Slot, h.own[s] # Null
  PROVE  /\ Whole(deallocate(h, s))
         /\ deallocate(h, s).own = [h.own EXCEPT ![s] = Null]
<1> DEFINE l == h.list
           a == h.own[s]
           g == deallocate(h, s)
<1>1. /\ h.head \in Cell /\ h.next \in [Block -> Cell] /\ h.own \in [Slot -> Cell]
      /\ l \in Seq(Block) /\ a \in Block
  BY DEF Whole, Heap, Cell
<1>2. /\ <<a>> \o l \in Seq(Block) /\ Len(<<a>> \o l) = Len(l) + 1 /\ Len(l) \in Nat
      /\ (<<a>> \o l)[1] = a
      /\ \A i \in 1 .. Len(l) : (<<a>> \o l)[i + 1] = l[i]
  BY <1>1, PushList
<1>3. /\ g.head = a /\ g.next = [h.next EXCEPT ![a] = h.head]
      /\ g.own = [h.own EXCEPT ![s] = Null] /\ g.list = <<a>> \o l
  BY DEF deallocate
<1>4. ~Listed(h, a)
  BY <1>1 DEF Whole, Divided
<1>5. g \in Heap
  BY <1>1, <1>2 DEF deallocate, Heap, Cell
<1>6. \A i \in 1 .. Len(l) : l[i] \in Block /\ l[i] # a
  BY <1>1, <1>4 DEF Listed
<1>7. /\ h.head = IF l = << >> THEN Null ELSE l[1]
      /\ \A i, j \in 1 .. Len(l) : l[i] = l[j] => i = j
      /\ \A i \in 1 .. Len(l) : h.next[l[i]] = IF i = Len(l) THEN Null ELSE l[i + 1]
  BY DEF Whole, Linked
<1>8. \A i \in 1 .. Len(g.list) :
         i = 1 \/ (i - 1 \in 1 .. Len(l) /\ g.list[i] = l[i - 1] /\ i # 1)
  <2> SUFFICES ASSUME NEW i \in 1 .. Len(g.list), i # 1
               PROVE  i - 1 \in 1 .. Len(l) /\ g.list[i] = l[i - 1]
    OBVIOUS
  <2>1. i - 1 \in 1 .. Len(l) /\ (i - 1) + 1 = i
    BY <1>2, <1>3
  <2> QED
    BY <1>2, <1>3, <2>1
<1>9. Linked(g)
  <2>1. g.head = IF g.list = << >> THEN Null ELSE g.list[1]
    BY <1>2, <1>3
  <2>2. ASSUME NEW i \in 1 .. Len(g.list)
        PROVE  g.next[g.list[i]] = IF i = Len(g.list) THEN Null ELSE g.list[i + 1]
    <3>1. CASE i = 1
      <4>1. g.next[g.list[i]] = h.head
        BY <1>1, <1>2, <1>3, <3>1
      <4>2. CASE l = << >>
        BY <1>2, <1>3, <1>7, <3>1, <4>1, <4>2
      <4>3. CASE l # << >>
        <5>1. 1 \in 1 .. Len(l) /\ g.list[i + 1] = l[1] /\ i # Len(g.list)
          <6>1. Len(l) # 0
            BY <1>1, <4>3
          <6>2. 1 \in 1 .. Len(l)
            BY <1>2, <6>1
          <6> QED
            BY <1>2, <1>3, <3>1, <6>2
        <5> QED
          BY <1>7, <4>1, <4>3, <5>1
      <4> QED
        BY <4>2, <4>3
    <3>2. CASE i # 1
      <4>1. i - 1 \in 1 .. Len(l) /\ g.list[i] = l[i - 1]
        BY <1>8, <3>2
      <4>2. g.next[g.list[i]] = h.next[l[i - 1]]
        BY <1>1, <1>3, <1>6, <4>1
      <4>3. h.next[l[i - 1]] = IF i - 1 = Len(l) THEN Null ELSE l[(i - 1) + 1]
        BY <1>7, <4>1
      <4>4. (i - 1 = Len(l)) <=> (i = Len(g.list))
        BY <1>2, <1>3, <4>1
      <4>5. i # Len(g.list) => i \in 1 .. Len(l) /\ (i - 1) + 1 = i
        BY <1>2, <1>3, <4>1
      <4> QED
        BY <1>2, <1>3, <4>2, <4>3, <4>4, <4>5
    <3> QED
      BY <3>1, <3>2
  <2>3. ASSUME NEW i \in 1 .. Len(g.list), NEW j \in 1 .. Len(g.list), g.list[i] = g.list[j]
        PROVE  i = j
    <3>1. CASE i = 1 /\ j # 1
      BY <1>2, <1>3, <1>6, <1>8, <2>3, <3>1
    <3>2. CASE i # 1 /\ j = 1
      BY <1>2, <1>3, <1>6, <1>8, <2>3, <3>2
    <3>3. CASE i # 1 /\ j # 1
      <4>1. /\ i - 1 \in 1 .. Len(l) /\ j - 1 \in 1 .. Len(l)
            /\ l[i - 1] = l[j - 1]
        BY <1>8, <2>3, <3>3
      <4>2. i - 1 = j - 1
        BY <1>7, <4>1
      <4> QED
        BY <1>2, <1>3, <4>2
    <3> QED
      BY <3>1, <3>2, <3>3
  <2> QED
    BY <2>1, <2>2, <2>3 DEF Linked
<1>10. ASSUME NEW b \in Block
       PROVE  Listed(g, b) <=> b = a \/ Listed(h, b)
  <2>1. ASSUME NEW i \in 1 .. Len(l), l[i] = b PROVE Listed(g, b)
    <3>1. i + 1 \in 1 .. Len(g.list) /\ g.list[i + 1] = b
      BY <1>2, <1>3, <2>1
    <3> QED
      BY <3>1 DEF Listed
  <2>2. Listed(g, a)
    <3>1. 1 \in 1 .. Len(g.list) /\ g.list[1] = a
      BY <1>2, <1>3
    <3> QED
      BY <3>1 DEF Listed
  <2>3. ASSUME NEW i \in 1 .. Len(g.list), g.list[i] = b PROVE b = a \/ Listed(h, b)
    BY <1>2, <1>3, <1>8, <2>3 DEF Listed
  <2> QED
    BY <2>1, <2>2, <2>3 DEF Listed
<1>11. Divided(g)
  BY NullApart, <1>1, <1>3, <1>10 DEF Whole, Divided, Single
<1>12. Single(g)
  BY <1>1, <1>3 DEF Whole, Single
<1> QED
  BY <1>3, <1>5, <1>9, <1>11, <1>12 DEF Whole

\* Dropping an empty slot does nothing.
LEMMA DropWhole ==
  ASSUME NEW h, Whole(h), NEW s \in Slot
  PROVE  Whole(drop(h, s)) /\ drop(h, s).own = [h.own EXCEPT ![s] = Null]
<1>1. CASE h.own[s] = Null
  <2>1. h.own = [h.own EXCEPT ![s] = Null]
    BY <1>1 DEF Whole, Heap
  <2> QED
    BY <1>1, <2>1 DEF drop
<1>2. CASE h.own[s] # Null
  BY <1>2, DeallocateWhole DEF drop
<1> QED
  BY <1>1, <1>2

\* A move into an empty slot.
LEMMA MoveWhole ==
  ASSUME NEW h, Whole(h), NEW s \in Slot, NEW t \in Slot, s # t, h.own[t] = Null
  PROVE  Whole(move(h, s, t)) /\ move(h, s, t).own = [h.own EXCEPT ![t] = h.own[s], ![s] = Null]
<1> DEFINE g == move(h, s, t)
<1>1. h \in Heap /\ h.own \in [Slot -> Cell]
  BY DEF Whole, Heap
<1>2. /\ g.head = h.head /\ g.next = h.next /\ g.list = h.list
      /\ g.own = [h.own EXCEPT ![t] = h.own[s], ![s] = Null]
  BY <1>1 DEF move, Heap
<1>3. g \in Heap
  BY <1>1 DEF move, Heap, Cell
<1>4. Linked(g)
  BY <1>2 DEF Whole, Linked
<1>5. Divided(g)
  <2> SUFFICES ASSUME NEW b \in Block
               PROVE  (\E u \in Slot : g.own[u] = b) <=> (\E u \in Slot : h.own[u] = b)
    BY <1>2 DEF Whole, Divided, Listed
  <2> QED
    BY NullApart, <1>1, <1>2
<1>6. Single(g)
  BY <1>1, <1>2 DEF Whole, Single
<1> QED
  BY <1>2, <1>3, <1>4, <1>5, <1>6 DEF Whole

\* A slot and the temporary change blocks.
LEMMA SwapWhole ==
  ASSUME NEW h, Whole(h), NEW r \in Slot, r # Temp
  PROVE  /\ Whole(swap(h, r))
         /\ swap(h, r).own = [h.own EXCEPT ![r] = h.own[Temp], ![Temp] = h.own[r]]
<1> DEFINE g == swap(h, r)
<1>1. h \in Heap /\ h.own \in [Slot -> Cell] /\ Temp \in Slot
  BY DEF Whole, Heap, Slot
<1>2. /\ g.head = h.head /\ g.next = h.next /\ g.list = h.list
      /\ g.own = [h.own EXCEPT ![r] = h.own[Temp], ![Temp] = h.own[r]]
  BY <1>1 DEF swap, Heap
<1>3. g \in Heap
  BY <1>1 DEF swap, Heap, Cell
<1>4. Linked(g)
  BY <1>2 DEF Whole, Linked
<1>5. Divided(g)
  <2> SUFFICES ASSUME NEW b \in Block
               PROVE  (\E u \in Slot : g.own[u] = b) <=> (\E u \in Slot : h.own[u] = b)
    BY <1>2 DEF Whole, Divided, Listed
  <2> QED
    BY <1>1, <1>2
<1>6. Single(g)
  BY <1>1, <1>2 DEF Whole, Single
<1> QED
  BY <1>2, <1>3, <1>4, <1>5, <1>6 DEF Whole

-----------------------------------------------------------------------------
\* A slot takes the block of the temporary and its own is dropped.
LEMMA AssignWhole ==
  ASSUME NEW h, Whole(h), NEW r \in Slot, r # Temp
  PROVE  /\ Whole(assign(h, r))
         /\ assign(h, r).own = [h.own EXCEPT ![r] = h.own[Temp], ![Temp] = Null]
<1>1. /\ Whole(swap(h, r)) /\ Temp \in Slot /\ h.own \in [Slot -> Cell]
      /\ swap(h, r).own = [h.own EXCEPT ![r] = h.own[Temp], ![Temp] = h.own[r]]
  BY SwapWhole DEF Slot, Whole, Heap
<1>2. /\ Whole(assign(h, r))
      /\ assign(h, r).own = [swap(h, r).own EXCEPT ![Temp] = Null]
  BY <1>1, DropWhole DEF assign
<1> QED
  BY <1>1, <1>2

\* A buffer is assigned another.
LEMMA MoveBufferWhole ==
  ASSUME NEW h, Whole(h), NEW v \in Slot, NEW w \in Slot, v # w
  PROVE  /\ Whole(moveBuffer(h, v, w))
         /\ moveBuffer(h, v, w).own = [h.own EXCEPT ![v] = h.own[w], ![w] = Null]
<1>1. /\ Whole(drop(h, v)) /\ h.own \in [Slot -> Cell]
      /\ drop(h, v).own = [h.own EXCEPT ![v] = Null]
  BY DropWhole DEF Whole, Heap
<1>2. drop(h, v).own[v] = Null
  BY <1>1
<1>3. /\ Whole(moveBuffer(h, v, w))
      /\ moveBuffer(h, v, w).own
           = [drop(h, v).own EXCEPT ![v] = drop(h, v).own[w], ![w] = Null]
  BY <1>1, <1>2, MoveWhole DEF moveBuffer
<1> QED
  BY <1>1, <1>3

\* A result is assigned another, or itself, through the temporary.
LEMMA MoveResultWhole ==
  ASSUME NEW h, Whole(h), h.own[Temp] = Null,
         NEW r \in Slot, r # Temp, NEW s \in Slot, s # Temp
  PROVE  /\ Whole(moveResult(h, r, s))
         /\ moveResult(h, r, s).own = [h.own EXCEPT ![s] = Null, ![r] = h.own[s]]
<1> DEFINE g == move(h, s, Temp)
<1>1. /\ Whole(g) /\ Temp \in Slot /\ h.own \in [Slot -> Cell]
      /\ g.own = [h.own EXCEPT ![Temp] = h.own[s], ![s] = Null]
  <2>1. Temp \in Slot /\ h.own \in [Slot -> Cell]
    BY DEF Slot, Whole, Heap
  <2> QED
    BY <2>1, MoveWhole
<1>2. /\ Whole(moveResult(h, r, s))
      /\ moveResult(h, r, s).own = [g.own EXCEPT ![r] = g.own[Temp], ![Temp] = Null]
  BY <1>1, AssignWhole DEF moveResult
<1> QED
  BY <1>1, <1>2

\* A function and what its closure has captured.
LEMMA DropFunctionWhole ==
  ASSUME NEW h, Whole(h), NEW f \in Fun
  PROVE  /\ Whole(dropFunction(h, f))
         /\ h.own[f] # Null => /\ h.own[f] \in Block
                               /\ dropFunction(h, f).own
                                    = [h.own EXCEPT ![h.own[f]] = Null, ![f] = Null]
         /\ h.own[f] = Null => dropFunction(h, f) = h
<1>1. h.own \in [Slot -> Cell] /\ f \in Slot
  BY DEF Whole, Heap, Slot
<1>2. CASE h.own[f] = Null
  BY <1>2 DEF dropFunction
<1>3. CASE h.own[f] # Null
  <2> DEFINE b == h.own[f]
             g == drop(h, b)
  <2>1. b \in Block /\ b \in Slot /\ b # f
    BY <1>1, <1>3, SlotAssumption DEF Cell, Slot
  <2>2. Whole(g) /\ g.own = [h.own EXCEPT ![b] = Null]
    BY <2>1, DropWhole
  <2>3. Whole(drop(g, f)) /\ drop(g, f).own = [g.own EXCEPT ![f] = Null]
    BY <1>1, <2>2, DropWhole
  <2>4. dropFunction(h, f) = drop(g, f)
    BY <1>3 DEF dropFunction
  <2> QED
    BY <1>3, <2>1, <2>2, <2>3, <2>4
<1> QED
  BY <1>2, <1>3

\* A function is assigned another one.
LEMMA MoveFunctionWhole ==
  ASSUME NEW h, Whole(h), NEW f \in Fun, NEW g \in Fun \union {Temp}, f # g
  PROVE  LET d == dropFunction(h, f)
         IN  /\ Whole(moveFunction(h, f, g))
             /\ moveFunction(h, f, g).own = [d.own EXCEPT ![f] = d.own[g], ![g] = Null]
             /\ d.own[g] = h.own[g] /\ d.own[f] = Null
<1> DEFINE d == dropFunction(h, f)
<1>1. f \in Slot /\ g \in Slot /\ g \notin Block /\ h.own \in [Slot -> Cell] /\ f \notin Block
  BY SlotAssumption DEF Slot, Whole, Heap
<1>2. Whole(d) /\ d.own[f] = Null /\ d.own[g] = h.own[g]
  <2>1. CASE h.own[f] = Null
    BY <2>1, DropFunctionWhole
  <2>2. CASE h.own[f] # Null
    <3>1. /\ h.own[f] \in Block /\ Whole(d)
          /\ d.own = [h.own EXCEPT ![h.own[f]] = Null, ![f] = Null]
      BY <2>2, DropFunctionWhole
    <3> QED
      BY <1>1, <3>1
  <2> QED
    BY <2>1, <2>2
<1>3. /\ Whole(move(d, g, f))
      /\ move(d, g, f).own = [d.own EXCEPT ![f] = d.own[g], ![g] = Null]
  BY <1>1, <1>2, MoveWhole
<1> QED
  BY <1>2, <1>3 DEF moveFunction

-----------------------------------------------------------------------------
(* The inductive invariant is what the run checks, and that a heap is a    *)
(* record of four fields.                                                  *)
PoolInv == /\ Whole(heap)
        /\ ok \in [Res -> BOOLEAN]
        /\ size \in [Block -> 0 .. maxSize]
        /\ NothingStranded

\* At first all blocks are listed, from the last to the first.
LEMMA PoolStarts == PoolInit => PoolInv
<1> SUFFICES ASSUME PoolInit PROVE PoolInv
  OBVIOUS
<1>1. /\ heap.head = NUM_OBJECTS /\ heap.next = [b \in Block |-> b - 1]
      /\ heap.own = [s \in Slot |-> Null] /\ NUM_OBJECTS \in Nat
      /\ heap.list = [i \in 1 .. NUM_OBJECTS |-> NUM_OBJECTS + 1 - i]
  BY SlotAssumption DEF PoolInit
<1>2. heap.list \in Seq(Block) /\ Len(heap.list) = NUM_OBJECTS
  <2>1. \A i \in 1 .. NUM_OBJECTS : NUM_OBJECTS + 1 - i \in Block
    BY <1>1 DEF Block
  <2> QED
    BY <1>1, <2>1
<1>3. heap \in Heap
  <2>1. /\ [b \in Block |-> b - 1] \in [Block -> Cell] /\ NUM_OBJECTS \in Cell
        /\ [s \in Slot |-> Null] \in [Slot -> Cell]
    BY <1>1 DEF Cell, Block, Null
  <2> QED
    BY <1>1, <1>2, <2>1 DEF PoolInit, Heap
<1>4. Linked(heap)
  <2>1. heap.head = IF heap.list = << >> THEN Null ELSE heap.list[1]
    BY <1>1, <1>2 DEF Null
  <2>2. \A i \in 1 .. NUM_OBJECTS :
           heap.next[heap.list[i]] = IF i = NUM_OBJECTS THEN Null ELSE heap.list[i + 1]
    <3> SUFFICES ASSUME NEW i \in 1 .. NUM_OBJECTS
                 PROVE  heap.next[heap.list[i]]
                          = IF i = NUM_OBJECTS THEN Null ELSE heap.list[i + 1]
      OBVIOUS
    <3>1. heap.list[i] = NUM_OBJECTS + 1 - i /\ NUM_OBJECTS + 1 - i \in Block
      BY <1>1 DEF Block
    <3>2. heap.next[heap.list[i]] = NUM_OBJECTS - i
      BY <1>1, <3>1
    <3>3. i # NUM_OBJECTS => heap.list[i + 1] = NUM_OBJECTS - i
      BY <1>1
    <3> QED
      BY <1>1, <3>2, <3>3 DEF Null
  <2>3. \A i, j \in 1 .. NUM_OBJECTS : heap.list[i] = heap.list[j] => i = j
    BY <1>1
  <2> QED
    BY <1>2, <2>1, <2>2, <2>3 DEF Linked
<1>5. ASSUME NEW b \in Block PROVE Listed(heap, b)
  <2>1. /\ NUM_OBJECTS + 1 - b \in 1 .. NUM_OBJECTS
        /\ NUM_OBJECTS + 1 - (NUM_OBJECTS + 1 - b) = b
    BY <1>1 DEF Block
  <2>2. heap.list[NUM_OBJECTS + 1 - b] = b
    BY <1>1, <2>1
  <2> QED
    BY <1>2, <2>1, <2>2 DEF Listed
<1>6. Divided(heap) /\ Single(heap)
  BY NullApart, <1>1, <1>5 DEF Divided, Single
<1>7. ok \in [Res -> BOOLEAN] /\ size \in [Block -> 0 .. maxSize]
  BY SlotAssumption DEF PoolInit
<1>8. NothingStranded
  BY <1>1 DEF NothingStranded, Slot
<1> QED
  BY <1>3, <1>4, <1>6, <1>7, <1>8 DEF PoolInv, Whole

\* Creating a buffer into a result.
LEMMA MakeKeeps ==
  ASSUME PoolInv, NEW r \in Res, NEW n \in Nat, Make(r, n)
  PROVE  PoolInv'
<1>1. /\ r \in Slot /\ Temp \in Slot /\ r # Temp
      /\ r \notin Fun \union Block /\ Temp \notin Fun \union Block
      /\ heap.own \in [Slot -> Cell] /\ heap.own[Temp] = Null
      /\ Fun \subseteq Slot /\ Block \subseteq Slot
      /\ Res \subseteq Slot
  BY SlotAssumption DEF PoolInv, Whole, Heap, Slot, NothingStranded
<1>2. CASE n <= maxSize /\ CanAllocate
  <2> DEFINE h == new(heap, Temp)
  <2>1. /\ Whole(h) /\ h.own = [heap.own EXCEPT ![Temp] = heap.head]
        /\ heap.head \in Block
    BY <1>1, <1>2, NewWhole DEF PoolInv, CanAllocate
  <2>2. /\ Whole(heap') /\ heap'.own = [h.own EXCEPT ![r] = h.own[Temp], ![Temp] = Null]
    BY <1>1, <1>2, <2>1, AssignWhole DEF Make
  <2>3. heap'.own = [heap.own EXCEPT ![r] = heap.head]
    BY <1>1, <2>1, <2>2
  <2>4. /\ size' \in [Block -> 0 .. maxSize] /\ ok' \in [Res -> BOOLEAN]
        /\ ok' = [ok EXCEPT ![r] = TRUE]
    <3>1. size' = [size EXCEPT ![heap.head] = n] /\ ok' = [ok EXCEPT ![r] = TRUE]
      BY <1>2 DEF Make
    <3>2. n \in 0 .. maxSize
      BY <1>2, SlotAssumption
    <3> QED
      BY <2>1, <3>1, <3>2 DEF PoolInv
  <2>5. NothingStranded'
    BY <1>1, <2>3, <2>4 DEF PoolInv, NothingStranded
  <2> QED
    BY <2>2, <2>4, <2>5 DEF PoolInv
<1>3. CASE ~(n <= maxSize /\ CanAllocate)
  <2>1. Whole(heap') /\ heap'.own = [heap.own EXCEPT ![r] = Null]
    BY <1>1, <1>3, DropWhole DEF Make, PoolInv
  <2>2. size' = size /\ ok' = [ok EXCEPT ![r] = FALSE]
    BY <1>3 DEF Make
  <2>3. NothingStranded'
    BY <1>1, <2>1, <2>2 DEF PoolInv, NothingStranded
  <2> QED
    BY <2>1, <2>2, <2>3 DEF PoolInv
<1> QED
  BY <1>2, <1>3

\* The other statements with buffers and results.
LEMMA StatementKeeps ==
  ASSUME PoolInv, NEW r \in Res, NEW v \in Var, Statement(r, v)
  PROVE  PoolInv'
<1>1. /\ r \in Slot /\ v \in Slot /\ Temp \in Slot /\ r # Temp /\ v # Temp /\ r # v
      /\ {r, v, Temp} \intersect (Fun \union Block) = {}
      /\ heap.own \in [Slot -> Cell] /\ heap.own[Temp] = Null
      /\ Fun \subseteq Slot /\ Block \subseteq Slot /\ Res \subseteq Slot
      /\ Whole(heap) /\ v \notin Res
  BY SlotAssumption DEF PoolInv, Whole, Heap, Slot, NothingStranded
<1>2. ASSUME NEW m, NEW n, m \in Nat, n \in Nat
      PROVE  lesser(m, n) \in Nat /\ lesser(m, n) <= m /\ lesser(m, n) <= n
  BY <1>2 DEF lesser
<1>3. ASSUME NEW n \in 0 .. maxSize + 1, Create(r, n) PROVE PoolInv'
  BY <1>3, MakeKeeps, SlotAssumption DEF Create
<1>4. ASSUME NEW n \in 0 .. maxSize + 1, Prefix(r, v, n) PROVE PoolInv'
  <2>1. heap.own[v] \in Block
    BY <1>1, <1>4 DEF Prefix, Cell
  <2>2. size[heap.own[v]] \in Nat
    BY <2>1, SlotAssumption DEF PoolInv
  <2>3. lesser(n, size[heap.own[v]]) \in Nat
    BY <1>2, <2>2
  <2> QED
    BY <1>4, <2>3, MakeKeeps DEF Prefix
<1>5. ASSUME NEW n \in 0 .. maxSize + 1, Resize(v, n) PROVE PoolInv'
  <2>1. lesser(n, maxSize) \in 0 .. maxSize
    BY <1>2, SlotAssumption
  <2>2. size' \in [Block -> 0 .. maxSize]
    BY <1>5, <2>1 DEF Resize, PoolInv
  <2> QED
    BY <1>5, <2>2 DEF Resize, PoolInv, NothingStranded
<1>6. CASE Take(v, r)
  <2>1. Whole(heap') /\ heap'.own = [heap.own EXCEPT ![v] = heap.own[r], ![r] = Null]
    BY <1>1, <1>6, MoveBufferWhole DEF Take
  <2> QED
    BY <1>1, <1>6, <2>1 DEF Take, PoolInv, NothingStranded
<1>7. CASE Succeed(r, v)
  <2>1. Whole(heap') /\ heap'.own = [heap.own EXCEPT ![v] = Null, ![r] = heap.own[v]]
    BY <1>1, <1>7, MoveResultWhole DEF Succeed
  <2> QED
    BY <1>1, <1>7, <2>1 DEF Succeed, PoolInv, NothingStranded
<1>8. CASE Fail(r)
  <2>1. Whole(heap') /\ heap'.own = [heap.own EXCEPT ![r] = Null]
    BY <1>1, <1>8, DropWhole DEF Fail
  <2> QED
    BY <1>1, <1>8, <2>1 DEF Fail, PoolInv, NothingStranded
<1>9. CASE Release(v)
  <2>1. Whole(heap') /\ heap'.own = [heap.own EXCEPT ![v] = Null]
    BY <1>1, <1>9, DeallocateWhole DEF Release
  <2> QED
    BY <1>1, <1>9, <2>1 DEF Release, PoolInv, NothingStranded
<1> QED
  BY <1>3, <1>4, <1>5, <1>6, <1>7, <1>8, <1>9 DEF Statement

\* A result is assigned to another or to itself.
LEMMA MoveResultKeeps ==
  ASSUME PoolInv, NEW r \in Res, NEW s \in Res, MoveResult(r, s)
  PROVE  PoolInv'
<1>1. /\ r \in Slot /\ s \in Slot /\ Temp \in Slot /\ r # Temp /\ s # Temp
      /\ {r, s, Temp} \intersect (Fun \union Block) = {}
      /\ heap.own \in [Slot -> Cell] /\ heap.own[Temp] = Null
      /\ Fun \subseteq Slot /\ Block \subseteq Slot /\ Res \subseteq Slot /\ Whole(heap)
  BY SlotAssumption DEF PoolInv, Whole, Heap, Slot, NothingStranded
<1>2. Whole(heap') /\ heap'.own = [heap.own EXCEPT ![s] = Null, ![r] = heap.own[s]]
  BY <1>1, MoveResultWhole DEF MoveResult
<1>3. ok' = [ok EXCEPT ![s] = FALSE, ![r] = ok[s]] /\ ok' \in [Res -> BOOLEAN] /\ size' = size
  BY DEF MoveResult, PoolInv
<1>4. NothingStranded'
  <2>1. ASSUME NEW t \in Res, ~ok'[t] PROVE heap'.own[t] = Null
    BY <1>1, <1>2, <1>3, <2>1 DEF PoolInv, NothingStranded
  <2>2. \A b \in Block : heap'.own[b] # Null => \E f \in Fun : heap'.own[f] = b
    BY <1>1, <1>2 DEF PoolInv, NothingStranded
  <2> QED
    BY <1>1, <1>2, <2>1, <2>2 DEF NothingStranded
<1> QED
  BY <1>2, <1>3, <1>4 DEF PoolInv

\* So is a buffer.
LEMMA MoveBufferKeeps ==
  ASSUME PoolInv, NEW v \in Var, NEW w \in Var, MoveBuffer(v, w)
  PROVE  PoolInv'
<1>1. /\ v \in Slot /\ w \in Slot /\ Temp \in Slot /\ v # Temp /\ w # Temp
      /\ {v, w} \intersect (Fun \union Block \union Res) = {}
      /\ heap.own \in [Slot -> Cell]
      /\ Fun \subseteq Slot /\ Block \subseteq Slot /\ Res \subseteq Slot
      /\ Whole(heap)
  BY SlotAssumption DEF PoolInv, Whole, Heap, Slot
<1>2. CASE v = w
  <2>1. Whole(heap') /\ heap'.own = [heap.own EXCEPT ![v] = Null]
    BY <1>1, <1>2, DropWhole DEF MoveBuffer
  <2> QED
    BY <1>1, <2>1 DEF MoveBuffer, PoolInv, NothingStranded
<1>3. CASE v # w
  <2>1. Whole(heap') /\ heap'.own = [heap.own EXCEPT ![v] = heap.own[w], ![w] = Null]
    BY <1>1, <1>3, MoveBufferWhole DEF MoveBuffer
  <2> QED
    BY <1>1, <2>1 DEF MoveBuffer, PoolInv, NothingStranded
<1> QED
  BY <1>2, <1>3

\* A closure takes the buffer into the function's block, or dies with it.
LEMMA CreateFunctionKeeps ==
  ASSUME PoolInv, NEW f \in Fun, NEW v \in Var, CreateFunction(f, v)
  PROVE  PoolInv'
<1>1. /\ f \in Slot /\ v \in Slot /\ Temp \in Slot /\ f # v /\ f # Temp /\ v # Temp
      /\ {f, v, Temp} \intersect (Block \union Res) = {} /\ {v, Temp} \intersect Fun = {}
      /\ heap.own \in [Slot -> Cell]
      /\ Fun \subseteq Slot /\ Block \subseteq Slot /\ Res \subseteq Slot
      /\ heap.own[Temp] = Null /\ Whole(heap) /\ ok' = ok /\ size' = size
      /\ Fun \intersect (Block \union Res) = {} /\ Res \intersect Block = {}
  BY SlotAssumption DEF PoolInv, Whole, Heap, Slot, NothingStranded, CreateFunction
<1>2. CASE ~CanAllocate
  <2>1. Whole(heap') /\ heap'.own = [heap.own EXCEPT ![v] = Null]
    BY <1>1, <1>2, DropWhole DEF CreateFunction
  <2> QED
    BY <1>1, <2>1 DEF PoolInv, NothingStranded
<1>3. CASE CanAllocate
  <2> DEFINE c == heap.head
             h == new(heap, Temp)
             m == move(h, v, c)
             d == dropFunction(m, f)
  <2>1. /\ Whole(h) /\ h.own = [heap.own EXCEPT ![Temp] = c] /\ c \in Block
        /\ \A t \in Slot : heap.own[t] # c
    BY <1>1, <1>3, NewWhole DEF CanAllocate
  <2>2. heap.own[c] = Null
    BY <1>1, <2>1 DEF PoolInv, NothingStranded
  <2>3. Whole(m) /\ m.own = [h.own EXCEPT ![c] = h.own[v], ![v] = Null]
    <3>1. c \in Slot /\ v # c /\ h.own[c] = Null
      BY <1>1, <2>1, <2>2
    <3> QED
      BY <1>1, <2>1, <3>1, MoveWhole
  <2>4. m.own = [heap.own EXCEPT ![Temp] = c, ![c] = heap.own[v], ![v] = Null]
    BY <1>1, <2>1, <2>3
  <2>5. m.own[f] = heap.own[f] /\ m.own \in [Slot -> Cell]
    BY <1>1, <2>1, <2>3, <2>4 DEF Whole, Heap
  <2>6. /\ Whole(heap') /\ heap'.own = [d.own EXCEPT ![f] = d.own[Temp], ![Temp] = Null]
        /\ d.own[Temp] = c /\ d.own[f] = Null /\ heap' = moveFunction(m, f, Temp)
    BY <1>1, <1>3, <2>1, <2>3, <2>4, MoveFunctionWhole, SMTT(30) DEF CreateFunction
  <2>7. /\ heap.own[f] # Null => /\ heap.own[f] \in Block
                                 /\ d.own = [m.own EXCEPT ![heap.own[f]] = Null, ![f] = Null]
        /\ heap.own[f] = Null => d = m
    <3>1. Whole(m)
      BY <2>3
    <3>2. /\ m.own[f] # Null => /\ m.own[f] \in Block
                                /\ d.own = [m.own EXCEPT ![m.own[f]] = Null, ![f] = Null]
          /\ m.own[f] = Null => d = m
      <4> HIDE DEF m
      <4> QED
        BY <3>1, DropFunctionWhole
    <3>3. m.own[f] = heap.own[f]
      BY <2>5
    <3> HIDE DEF m
    <3> QED
      BY <3>2, <3>3
  <2>8. heap.own[f] # c
    BY <1>1, <2>1
  <2>9. NothingStranded'
    <3>1. CASE heap.own[f] = Null
      <4>1. heap'.own = [m.own EXCEPT ![f] = c, ![Temp] = Null]
        BY <2>6, <2>7, <3>1
      <4>2. \A b \in Block : heap'.own[b] # Null => \E k \in Fun : heap'.own[k] = b
        BY <1>1, <2>1, <2>4, <3>1, <4>1 DEF PoolInv, NothingStranded
      <4> QED
        BY <1>1, <2>1, <2>4, <4>1, <4>2 DEF PoolInv, NothingStranded
    <3>2. CASE heap.own[f] # Null
      <4>1. /\ heap'.own = [m.own EXCEPT ![heap.own[f]] = Null, ![f] = c, ![Temp] = Null]
            /\ heap.own[f] \in Block
        BY <1>1, <2>5, <2>6, <2>7, <3>2
      <4>2. \A b \in Block : heap'.own[b] # Null => \E k \in Fun : heap'.own[k] = b
        BY <1>1, <2>1, <2>4, <2>8, <3>2, <4>1 DEF PoolInv, NothingStranded
      <4> QED
        BY <1>1, <2>1, <2>4, <4>1, <4>2 DEF PoolInv, NothingStranded
    <3> QED
      BY <3>1, <3>2
  <2> QED
    BY <1>1, <2>6, <2>9 DEF PoolInv
<1> QED
  BY <1>2, <1>3

\* The capture of a function goes to the buffer of its caller.
LEMMA CallKeeps ==
  ASSUME PoolInv, NEW f \in Fun, NEW v \in Var, Call(f, v)
  PROVE  PoolInv'
<1>1. /\ heap.own[f] \in Block /\ heap.own[f] \in Slot /\ v \in Slot /\ v # heap.own[f]
      /\ Temp \in Slot /\ v # Temp /\ Temp \notin Block /\ v \notin Fun \union Res \union Block
      /\ Fun \intersect Block = {} /\ Res \intersect Block = {}
      /\ heap.own \in [Slot -> Cell]
      /\ Fun \subseteq Slot /\ Block \subseteq Slot /\ Res \subseteq Slot
      /\ Whole(heap) /\ ok' = ok /\ size' = size
  BY SlotAssumption DEF PoolInv, Whole, Heap, Cell, Slot, Call
<1>2. /\ Whole(heap')
      /\ heap'.own = [heap.own EXCEPT ![v] = heap.own[heap.own[f]], ![heap.own[f]] = Null]
  BY <1>1, MoveBufferWhole DEF Call
<1> QED
  BY <1>1, <1>2 DEF PoolInv, NothingStranded

\* A function goes to another with its block, and the capture stays in that.
LEMMA MoveFunctionKeeps ==
  ASSUME PoolInv, NEW f \in Fun, NEW g \in Fun, MoveFunction(f, g)
  PROVE  PoolInv'
<1>1. /\ f \in Slot /\ g \in Slot /\ Temp \in Slot /\ Temp \notin Fun \union Block
      /\ Fun \intersect Block = {} /\ Res \intersect Block = {} /\ Fun \intersect Res = {}
      /\ heap.own \in [Slot -> Cell]
      /\ Fun \subseteq Slot /\ Block \subseteq Slot /\ Res \subseteq Slot
      /\ Temp \notin Res
      /\ Whole(heap) /\ ok' = ok /\ size' = size
  BY SlotAssumption DEF PoolInv, Whole, Heap, Slot, MoveFunction
<1> DEFINE d == dropFunction(heap, f)
<1>2. /\ Whole(d)
      /\ heap.own[f] # Null => /\ heap.own[f] \in Block
                               /\ d.own = [heap.own EXCEPT ![heap.own[f]] = Null, ![f] = Null]
      /\ heap.own[f] = Null => d = heap
  BY <1>1, DropFunctionWhole
<1>3. \A s, t \in Slot : heap.own[s] = heap.own[t] /\ heap.own[s] # Null => s = t
  BY <1>1 DEF Whole, Single
<1>4. /\ \A b \in Block : d.own[b] # Null => \E k \in Fun : d.own[k] = b
      /\ \A r \in Res : d.own[r] = heap.own[r]
      /\ d.own[Temp] = Null /\ d.own[f] = Null
  <2>1. CASE heap.own[f] = Null
    BY <1>2, <2>1 DEF PoolInv, NothingStranded
  <2>2. CASE heap.own[f] # Null
    <3>1. ASSUME NEW b \in Block, d.own[b] # Null PROVE \E k \in Fun : d.own[k] = b
      <4>1. b # heap.own[f] /\ heap.own[b] # Null
        BY <1>1, <1>2, <2>2, <3>1
      <4>2. PICK k \in Fun : heap.own[k] = b
        BY <4>1 DEF PoolInv, NothingStranded
      <4>3. d.own[k] = b
        BY <1>1, <1>2, <2>2, <4>1, <4>2
      <4> QED
        BY <4>3
    <3> QED
      BY <1>1, <1>2, <2>2, <3>1 DEF PoolInv, NothingStranded
  <2> QED
    BY <2>1, <2>2
<1>5. CASE f = g
  BY <1>1, <1>2, <1>4, <1>5 DEF MoveFunction, PoolInv, NothingStranded
<1>6. CASE f # g
  <2>1. Whole(heap') /\ heap'.own = [d.own EXCEPT ![f] = d.own[g], ![g] = Null]
    BY <1>1, <1>6, MoveFunctionWhole DEF MoveFunction
  <2>2. d.own \in [Slot -> Cell]
    BY <1>2 DEF Whole, Heap
  <2>3. ASSUME NEW b \in Block, heap'.own[b] # Null PROVE \E k \in Fun : heap'.own[k] = b
    <3>1. PICK k \in Fun : d.own[k] = b
      BY <1>1, <1>4, <2>1, <2>2, <2>3
    <3>2. CASE k = g
      BY <1>1, <1>6, <2>1, <2>2, <3>1, <3>2
    <3>3. CASE k # g /\ k # f
      BY <1>1, <1>6, <2>1, <2>2, <3>1, <3>3
    <3>4. k # f
      BY NullApart, <1>4, <3>1
    <3> QED
      BY <3>2, <3>3, <3>4
  <2> QED
    BY <1>1, <1>4, <2>1, <2>2, <2>3 DEF PoolInv, NothingStranded
<1> QED
  BY <1>5, <1>6

(* PoolInv holds in every reachable state. *)
LEMMA PoolInvariance == PoolSpec => []PoolInv
<1>1. PoolInv /\ [PoolNext]_poolVars => PoolInv'
  <2> SUFFICES ASSUME PoolInv, [PoolNext]_poolVars PROVE PoolInv'
    OBVIOUS
  <2>1. CASE PoolNext
    BY <2>1, StatementKeeps, MoveResultKeeps, MoveBufferKeeps, CreateFunctionKeeps, CallKeeps,
       MoveFunctionKeeps DEF PoolNext
  <2>2. CASE UNCHANGED poolVars
    BY <2>2 DEF poolVars, PoolInv, NothingStranded
  <2> QED
    BY <2>1, <2>2
<1> QED
  BY <1>1, PoolStarts, PTL DEF PoolSpec

(* After any sequence of moves, failures and destructions every block of   *)
(* the pool is free or has one owner, the free list is whole, and nothing  *)
(* is held by what nobody would destroy (static_pool_allocator.h:23-65,    *)
(* buffer.h, result.h, deferred_proc.h).                                   *)
THEOREM BlocksHaveOneOwner == PoolSpec => []OwnersKnown
<1>1. PoolInv => OwnersKnown
  <2> SUFFICES ASSUME PoolInv PROVE OwnersKnown
    OBVIOUS
  <2>1. PoolTypeOK
    BY DEF PoolInv, Whole, Heap, Cell, PoolTypeOK
  <2>2. FreeListWhole
    BY DEF PoolInv, Whole, Linked, FreeListWhole
  <2>3. Partition
    BY DEF PoolInv, Whole, Divided, Single, Listed, Partition, Free, Owned
  <2> QED
    BY <2>1, <2>2, <2>3 DEF PoolInv, OwnersKnown
<1> QED
  BY <1>1, PoolInvariance, PTL

-----------------------------------------------------------------------------
Apart(s, t) == ToSet(s) \cap ToSet(t) = {}

OnePlace ==
  /\ IsInjective(rxRing) /\ IsInjective(txRing) /\ IsInjective(rxDone) /\ IsInjective(txDone)
  /\ Apart(rxRing, txRing) /\ Apart(rxRing, rxDone) /\ Apart(rxRing, txDone)
  /\ Apart(txRing, rxDone) /\ Apart(txRing, txDone) /\ Apart(rxDone, txDone)
  /\ held = Buffer \ (ToSet(rxRing) \union ToSet(txRing) \union ToSet(rxDone) \union ToSet(txDone))

Control ==
  /\ pc \in {"stopped", "started", "lockRx", "drainRx", "lockTx", "drainTx"}
  /\ locked => pc = "drainRx"
  /\ pc # "started" => rx = Idle
  /\ pc \in {"lockTx", "drainTx", "stopped"} => tx = Idle /\ rxRing = <<>>
  /\ pc = "stopped" => txRing = <<>>

Past(d) == Run(d) /\ \A i \in DOMAIN d : d[i] < arrived
Before(d, e) == Last(d) < Head(e)

(* What is received now is the last that arrived, until the buffer is full. *)
Receiving(d) ==
  d # <<>> => /\ Past(d)
              /\ Len(d) < MaxSize => Last(d) = arrived - 1
              /\ \A k \in DOMAIN rxDone : Before(data[rxDone[k]], d)

Delivered ==
  /\ \A k \in DOMAIN rxDone : Past(data[rxDone[k]])
  /\ \A k, l \in DOMAIN rxDone : k < l => Before(data[rxDone[k]], data[rxDone[l]])

Order == Delivered /\ (rx # Idle => Receiving(data[rx.dma]))

UartInv == UartTypeOK /\ OnePlace /\ Control /\ DmaAtTail /\ NoFault /\ Order

-----------------------------------------------------------------------------
(* Sequences without repetition. *)

\* What Tail does, place by place.
LEMMA TailFacts ==
  ASSUME NEW S, NEW s \in Seq(S), s # <<>>
  PROVE  /\ Tail(s) \in Seq(S) /\ Len(Tail(s)) = Len(s) - 1 /\ Len(s) \in Nat \ {0}
         /\ Head(s) = s[1] /\ Head(s) \in S /\ Head(s) \in ToSet(s)
         /\ \A i \in DOMAIN Tail(s) : i + 1 \in DOMAIN s /\ Tail(s)[i] = s[i + 1]
<1>1. Len(s) \in Nat \ {0} /\ 1 \in DOMAIN s /\ Head(s) = s[1]
  OBVIOUS
<1> QED
  BY <1>1 DEF ToSet

\* The tail has everything but the head.
LEMMA TailOnce ==
  ASSUME NEW S, NEW s \in Seq(S), s # <<>>, IsInjective(s)
  PROVE  IsInjective(Tail(s)) /\ ToSet(Tail(s)) = ToSet(s) \ {Head(s)}
<1>1. IsInjective(Tail(s))
  BY TailFacts DEF IsInjective
<1>2. ASSUME NEW i \in DOMAIN Tail(s) PROVE Tail(s)[i] \in ToSet(s) \ {Head(s)}
  <2>1. i + 1 \in DOMAIN s /\ Tail(s)[i] = s[i + 1] /\ i + 1 # 1 /\ 1 \in DOMAIN s /\ Head(s) = s[1]
    BY TailFacts
  <2> QED
    BY <2>1 DEF ToSet, IsInjective
<1>3. ASSUME NEW i \in DOMAIN s, s[i] # Head(s) PROVE s[i] \in ToSet(Tail(s))
  <2>1. i - 1 \in DOMAIN Tail(s) /\ Tail(s)[i - 1] = s[i]
    BY <1>3, TailFacts
  <2> QED
    BY <2>1 DEF ToSet
<1> QED
  BY <1>1, <1>2, <1>3 DEF ToSet

\* What Append does, place by place.
LEMMA AppendFacts ==
  ASSUME NEW S, NEW s \in Seq(S), NEW e \in S
  PROVE  LET t == Append(s, e)
         IN  /\ t \in Seq(S) /\ t # <<>> /\ Len(s) \in Nat /\ Len(t) = Len(s) + 1
             /\ DOMAIN s = 1 .. Len(s) /\ DOMAIN t = 1 .. Len(s) + 1
             /\ t[Len(s) + 1] = e /\ \A i \in 1 .. Len(s) : t[i] = s[i]
             /\ Head(t) = t[1]
  OBVIOUS

\* An element that is new is added once.
LEMMA AppendOnce ==
  ASSUME NEW S, NEW s \in Seq(S), NEW e \in S, IsInjective(s), e \notin ToSet(s)
  PROVE  /\ Append(s, e) \in Seq(S) /\ Append(s, e) # <<>> /\ Len(Append(s, e)) = Len(s) + 1
         /\ Head(Append(s, e)) = IF s = <<>> THEN e ELSE Head(s)
         /\ IsInjective(Append(s, e)) /\ ToSet(Append(s, e)) = ToSet(s) \union {e}
<1> DEFINE t == Append(s, e)
<1>1. /\ t \in Seq(S) /\ t # <<>> /\ DOMAIN t = 1 .. Len(s) + 1 /\ DOMAIN s = 1 .. Len(s)
      /\ Len(t) = Len(s) + 1 /\ Len(s) \in Nat /\ Head(t) = t[1]
      /\ t[Len(s) + 1] = e /\ \A i \in 1 .. Len(s) : t[i] = s[i]
  BY AppendFacts
<1> HIDE DEF t
<1>2. Head(t) = IF s = <<>> THEN e ELSE Head(s)
  BY <1>1
<1>3. IsInjective(t)
  BY <1>1 DEF IsInjective, ToSet
<1>4. ToSet(t) = ToSet(s) \union {e}
  BY <1>1 DEF ToSet
<1> QED
  BY <1>1, <1>2, <1>3, <1>4 DEF t

\* Two of them that are apart make one.
LEMMA ConcatOnce ==
  ASSUME NEW S, NEW s \in Seq(S), NEW t \in Seq(S), IsInjective(s), IsInjective(t), Apart(s, t)
  PROVE  /\ s \o t \in Seq(S) /\ IsInjective(s \o t)
         /\ ToSet(s \o t) = ToSet(s) \union ToSet(t)
<1> DEFINE u == s \o t
<1>1. /\ u \in Seq(S) /\ DOMAIN u = 1 .. Len(s) + Len(t) /\ Len(s) \in Nat /\ Len(t) \in Nat
      /\ DOMAIN s = 1 .. Len(s) /\ DOMAIN t = 1 .. Len(t)
      /\ \A i \in 1 .. Len(s) : u[i] = s[i]
      /\ \A i \in 1 .. Len(t) : u[Len(s) + i] = t[i]
  OBVIOUS
<1> HIDE DEF u
<1>2. ASSUME NEW i \in DOMAIN u
      PROVE  \/ i \in DOMAIN s /\ u[i] = s[i]
             \/ i - Len(s) \in DOMAIN t /\ u[i] = t[i - Len(s)]
  <2>1. CASE i <= Len(s)
    BY <1>1, <2>1
  <2>2. CASE i > Len(s)
    <3>1. i - Len(s) \in 1 .. Len(t) /\ Len(s) + (i - Len(s)) = i
      BY <1>1, <2>2
    <3> QED
      BY <1>1, <3>1
  <2> QED
    BY <1>1, <2>1, <2>2
<1>3. IsInjective(u)
  <2> SUFFICES ASSUME NEW i \in DOMAIN u, NEW j \in DOMAIN u, u[i] = u[j] PROVE i = j
    BY DEF IsInjective
  <2>1. i \in Int /\ j \in Int /\ Len(s) \in Int
    BY <1>1
  <2>2. ASSUME NEW k \in DOMAIN s, NEW l \in DOMAIN t PROVE s[k] # t[l]
    BY DEF Apart, ToSet
  <2>3. CASE i \in DOMAIN s /\ u[i] = s[i]
    <3>1. j \in DOMAIN s /\ u[j] = s[j]
      BY <1>2, <2>2, <2>3
    <3> QED
      BY <2>3, <3>1 DEF IsInjective
  <2>4. CASE i - Len(s) \in DOMAIN t /\ u[i] = t[i - Len(s)]
    <3>1. j - Len(s) \in DOMAIN t /\ u[j] = t[j - Len(s)]
      BY <1>2, <2>2, <2>4
    <3>2. i - Len(s) = j - Len(s)
      BY <2>4, <3>1 DEF IsInjective
    <3> QED
      BY <2>1, <3>2
  <2> QED
    BY <1>2, <2>3, <2>4
<1>4. ToSet(u) = ToSet(s) \union ToSet(t)
  <2>1. ToSet(u) \subseteq ToSet(s) \union ToSet(t)
    BY <1>2 DEF ToSet
  <2>2. ToSet(s) \subseteq ToSet(u)
    BY <1>1 DEF ToSet
  <2>3. ASSUME NEW i \in DOMAIN t PROVE t[i] \in ToSet(u)
    <3>1. Len(s) + i \in DOMAIN u /\ u[Len(s) + i] = t[i]
      BY <1>1
    <3> QED
      BY <3>1 DEF ToSet
  <2> QED
    BY <2>1, <2>2, <2>3 DEF ToSet
<1> QED
  BY <1>1, <1>3, <1>4 DEF u

\* As many different buffers as there are places, at most.
LEMMA OnceCounts ==
  ASSUME NEW S, IsFiniteSet(S), NEW s \in Seq(S), IsInjective(s), NEW e \in S, e \notin ToSet(s)
  PROVE  Len(s) < Cardinality(S)
<1>1. IsFiniteSet(S \ {e}) /\ Cardinality(S \ {e}) = Cardinality(S) - 1
  BY FS_RemoveElement
<1>2. Cardinality(S) \in Nat /\ Cardinality(S \ {e}) \in Nat
  BY <1>1, FS_CardinalityType
<1>3. Len(s) \in Nat /\ DOMAIN s = 1 .. Len(s)
  OBVIOUS
<1>4. IsFiniteSet(1 .. Len(s)) /\ Cardinality(1 .. Len(s)) = Len(s)
  BY <1>3, FS_Interval
<1>5. s \in Injection(1 .. Len(s), S \ {e})
  BY <1>3 DEF Injection, ToSet, IsInjective
<1>6. Cardinality(1 .. Len(s)) <= Cardinality(S \ {e})
  BY <1>1, <1>4, <1>5, FS_Injection
<1> QED
  BY <1>1, <1>2, <1>3, <1>4, <1>6

-----------------------------------------------------------------------------
(* The types, member by member. *)
LEMMA Members ==
  ASSUME UartTypeOK
  PROVE  /\ rxRing \in Seq(Buffer) /\ txRing \in Seq(Buffer)
         /\ rxDone \in Seq(Buffer) /\ txDone \in Seq(Buffer)
         /\ rx = Idle \/ (rx = [state |-> "ACTIVE", dma |-> rx.dma] /\ rx.dma \in Buffer)
         /\ tx = Idle \/ (tx = [state |-> "ACTIVE", dma |-> tx.dma] /\ tx.dma \in Buffer)
         /\ locked \in BOOLEAN /\ disarmed \in BOOLEAN /\ fault \in BOOLEAN
<1>1. \A s \in {Idle} \union [state : {"ACTIVE"}, dma : Buffer] :
          s = Idle \/ (s = [state |-> "ACTIVE", dma |-> s.dma] /\ s.dma \in Buffer)
  <2>1. ASSUME NEW s \in [state : {"ACTIVE"}, dma : Buffer]
        PROVE  s = [state |-> "ACTIVE", dma |-> s.dma] /\ s.dma \in Buffer
    OBVIOUS
  <2> QED
    BY <2>1
<1> QED
  BY <1>1 DEF UartTypeOK

\* Rest and work of the HAL are told apart.
LEMMA States ==
  /\ Idle.state = "IDLE"
  /\ \A b : LET s == [state |-> "ACTIVE", dma |-> b]
            IN  s # Idle /\ s.state = "ACTIVE" /\ s.dma = b
<1>1. Idle.state = "IDLE"
  BY DEF Idle
<1>2. \A b : [state |-> "ACTIVE", dma |-> b].state = "ACTIVE"
  OBVIOUS
<1> QED
  BY <1>1, <1>2

(* The steps that move no buffer, and those that move one, with where they *)
(* take it and where they bring it.                                        *)
Handed(queue, done) == /\ queue # <<>>
                       /\ queue' = Tail(queue) /\ done' = Append(done, Head(queue))
                       /\ UNCHANGED held
Requested(b, queue) == b \in held /\ held' = held \ {b} /\ queue' = Append(queue, b)
Returned(s) == s # <<>> /\ s' = Tail(s) /\ held' = held \union {Head(s)}

Moves == \/ UNCHANGED rings
         \/ Handed(rxRing, rxDone) /\ UNCHANGED <<txRing, txDone>>
         \/ Handed(txRing, txDone) /\ UNCHANGED <<rxRing, rxDone>>
         \/ \E b \in Buffer : Requested(b, rxRing) /\ UNCHANGED <<txRing, rxDone, txDone>>
         \/ \E b \in Buffer : Requested(b, txRing) /\ UNCHANGED <<rxRing, rxDone, txDone>>
         \/ Returned(rxRing) /\ UNCHANGED <<txRing, rxDone, txDone>>
         \/ Returned(txRing) /\ UNCHANGED <<rxRing, rxDone, txDone>>
         \/ Returned(rxDone) /\ UNCHANGED <<rxRing, txRing, txDone>>
         \/ Returned(txDone) /\ UNCHANGED <<rxRing, txRing, rxDone>>

\* Every step is one of these moves.
LEMMA StepsMove == UartNext => Moves
<1>1. rxFinishI => Moves
  BY DEF rxFinishI, Moves, Handed, rings
<1> QED
  BY <1>1 DEF UartNext, RxByte, rxEndI, rxIdleI, rxErrorI, txFinishI, rxRequestPut, txRequestPut,
              TakeReceived, TakeSent, start, stop, Stopping, LockRx, DrainRx, StopSend, LockTx,
              DrainTx, Stopped, Moves, Handed, Requested, Returned, rings

\* Wherever it goes, a buffer is in one place.
LEMMA OnePlaceKept ==
  ASSUME UartTypeOK, OnePlace, Moves
  PROVE  OnePlace'
<1>1. /\ rxRing \in Seq(Buffer) /\ txRing \in Seq(Buffer)
      /\ rxDone \in Seq(Buffer) /\ txDone \in Seq(Buffer)
  BY Members
<1>2. \A s \in Seq(Buffer) : ToSet(s) \subseteq Buffer
  BY DEF ToSet
<1>3. CASE UNCHANGED rings
  BY <1>3 DEF OnePlace, Apart, rings
<1>4. CASE Handed(rxRing, rxDone) /\ UNCHANGED <<txRing, txDone>>
  <2>1. Head(rxRing) \in ToSet(rxRing) /\ Head(rxRing) \in Buffer
    BY <1>1, <1>4, TailFacts DEF Handed
  <2>2. IsInjective(rxRing') /\ ToSet(rxRing') = ToSet(rxRing) \ {Head(rxRing)}
    BY <1>1, <1>4, TailOnce DEF Handed, OnePlace
  <2>3. IsInjective(rxDone') /\ ToSet(rxDone') = ToSet(rxDone) \union {Head(rxRing)}
    BY <1>1, <1>4, <2>1, AppendOnce DEF Handed, OnePlace, Apart
  <2> QED
    BY <1>4, <2>1, <2>2, <2>3 DEF Handed, OnePlace, Apart
<1>5. CASE Handed(txRing, txDone) /\ UNCHANGED <<rxRing, rxDone>>
  <2>1. Head(txRing) \in ToSet(txRing) /\ Head(txRing) \in Buffer
    BY <1>1, <1>5, TailFacts DEF Handed
  <2>2. IsInjective(txRing') /\ ToSet(txRing') = ToSet(txRing) \ {Head(txRing)}
    BY <1>1, <1>5, TailOnce DEF Handed, OnePlace
  <2>3. IsInjective(txDone') /\ ToSet(txDone') = ToSet(txDone) \union {Head(txRing)}
    BY <1>1, <1>5, <2>1, AppendOnce DEF Handed, OnePlace, Apart
  <2> QED
    BY <1>5, <2>1, <2>2, <2>3 DEF Handed, OnePlace, Apart
<1>6. ASSUME NEW b \in Buffer, Requested(b, rxRing), UNCHANGED <<txRing, rxDone, txDone>>
      PROVE  OnePlace'
  <2>1. IsInjective(rxRing') /\ ToSet(rxRing') = ToSet(rxRing) \union {b}
    BY <1>1, <1>6, AppendOnce DEF Requested, OnePlace
  <2> QED
    BY <1>6, <2>1 DEF Requested, OnePlace, Apart
<1>7. ASSUME NEW b \in Buffer, Requested(b, txRing), UNCHANGED <<rxRing, rxDone, txDone>>
      PROVE  OnePlace'
  <2>1. IsInjective(txRing') /\ ToSet(txRing') = ToSet(txRing) \union {b}
    BY <1>1, <1>7, AppendOnce DEF Requested, OnePlace
  <2> QED
    BY <1>7, <2>1 DEF Requested, OnePlace, Apart
<1>8. CASE Returned(rxRing) /\ UNCHANGED <<txRing, rxDone, txDone>>
  <2>1. Head(rxRing) \in ToSet(rxRing) /\ Head(rxRing) \in Buffer
    BY <1>1, <1>8, TailFacts DEF Returned
  <2>2. IsInjective(rxRing') /\ ToSet(rxRing') = ToSet(rxRing) \ {Head(rxRing)}
    BY <1>1, <1>8, TailOnce DEF Returned, OnePlace
  <2> QED
    BY <1>8, <2>1, <2>2 DEF Returned, OnePlace, Apart
<1>9. CASE Returned(txRing) /\ UNCHANGED <<rxRing, rxDone, txDone>>
  <2>1. Head(txRing) \in ToSet(txRing) /\ Head(txRing) \in Buffer
    BY <1>1, <1>9, TailFacts DEF Returned
  <2>2. IsInjective(txRing') /\ ToSet(txRing') = ToSet(txRing) \ {Head(txRing)}
    BY <1>1, <1>9, TailOnce DEF Returned, OnePlace
  <2> QED
    BY <1>9, <2>1, <2>2 DEF Returned, OnePlace, Apart
<1>10. CASE Returned(rxDone) /\ UNCHANGED <<rxRing, txRing, txDone>>
  <2>1. Head(rxDone) \in ToSet(rxDone) /\ Head(rxDone) \in Buffer
    BY <1>1, <1>10, TailFacts DEF Returned
  <2>2. IsInjective(rxDone') /\ ToSet(rxDone') = ToSet(rxDone) \ {Head(rxDone)}
    BY <1>1, <1>10, TailOnce DEF Returned, OnePlace
  <2> QED
    BY <1>10, <2>1, <2>2 DEF Returned, OnePlace, Apart
<1>11. CASE Returned(txDone) /\ UNCHANGED <<rxRing, txRing, rxDone>>
  <2>1. Head(txDone) \in ToSet(txDone) /\ Head(txDone) \in Buffer
    BY <1>1, <1>11, TailFacts DEF Returned
  <2>2. IsInjective(txDone') /\ ToSet(txDone') = ToSet(txDone) \ {Head(txDone)}
    BY <1>1, <1>11, TailOnce DEF Returned, OnePlace
  <2> QED
    BY <1>11, <2>1, <2>2 DEF Returned, OnePlace, Apart
<1> QED
  BY <1>3, <1>4, <1>5, <1>6, <1>7, <1>8, <1>9, <1>10, <1>11 DEF Moves

-----------------------------------------------------------------------------
(* What stays with the client, the lock and the DMA.                       *)

\* At rest or at work.
LEMMA RxState ==
  ASSUME UartTypeOK
  PROVE  /\ rx = Idle <=> rx.state = "IDLE"
         /\ tx = Idle <=> tx.state = "IDLE"
         /\ rx # Idle => rx.state = "ACTIVE" /\ rx.dma \in Buffer
         /\ tx # Idle => tx.state = "ACTIVE" /\ tx.dma \in Buffer
  BY Members, States

\* An interrupt handler of reception comes only while the client works with the
\* driver; it starts the next buffer, or rests when there is none.
LEMMA RxFinishes ==
  ASSUME UartTypeOK, Control, DmaAtTail, rxFinishI
  PROVE  /\ UNCHANGED <<tx, txRing, txDone, held, arrived, client>>
         /\ \/ UNCHANGED <<rxRing, rxDone, rx, data, fault>>
            \/ /\ pc = "started" /\ rx # Idle /\ rxRing # <<>> /\ rx.dma = Head(rxRing)
               /\ \/ StartReceive(Head(rxRing)) /\ UNCHANGED <<rxRing, rxDone, fault>>
                  \/ /\ Len(data[rx.dma]) # 0
                     /\ Len(rxDone) # RxDoneCapacity /\ fault' = FALSE
                     /\ rxDone' = Append(rxDone, Head(rxRing))
                     /\ rxRing' = Tail(rxRing)
                     /\ rxNext(Tail(rxRing))
  BY RxState DEF rxFinishI, rxKeeps, rings, client, Control, DmaAtTail

\* The lock is the client's while it drains, and what stop() has stopped stays so.
LEMMA ControlKept ==
  ASSUME UartTypeOK, Control, DmaAtTail, UartNext
  PROVE  Control'
<1> USE DEF Control, Goto, client
<1>1. CASE rxFinishI
  <2>1. pc' = pc /\ locked' = locked /\ tx' = tx /\ txRing' = txRing
    BY <1>1, RxFinishes
  <2>2. pc = "started" \/ (rx' = rx /\ rxRing' = rxRing)
    BY <1>1, RxFinishes
  <2> QED
    BY <2>1, <2>2
<1>2. CASE RxByte
  BY <1>2 DEF RxByte, rings
<1>3. CASE txFinishI
  <2>1. pc \notin {"lockTx", "drainTx", "stopped"}
    BY <1>3, RxState DEF txFinishI
  <2> QED
    BY <1>3, <2>1 DEF txFinishI
<1>4. ASSUME NEW b \in Buffer, rxRequestPut(b) \/ txRequestPut(b)
      PROVE  Control'
  BY <1>4 DEF rxRequestPut, txRequestPut
<1>5. CASE TakeReceived \/ TakeSent
  BY <1>5 DEF TakeReceived, TakeSent
<1>6. CASE start \/ stop
  BY <1>6 DEF start, stop, StopReceive, rings
<1>7. CASE LockRx \/ DrainRx
  BY <1>7 DEF LockRx, DrainRx, rings
<1>8. CASE StopSend \/ LockTx \/ DrainTx
  BY <1>8 DEF StopSend, LockTx, DrainTx, rings
<1>9. CASE Stopped
  BY <1>9 DEF Stopped, rings
<1> QED
  BY <1>1, <1>2, <1>3, <1>4, <1>5, <1>6, <1>7, <1>8, <1>9
     DEF UartNext, Stopping, rxEndI, rxIdleI, rxErrorI

\* The DMA follows the tail of its ring.
LEMMA DmaKept ==
  ASSUME UartTypeOK, OnePlace, Control, DmaAtTail, UartNext
  PROVE  DmaAtTail'
<1> USE DEF DmaAtTail, Goto, client
<1>1. CASE rxFinishI
  BY <1>1, RxFinishes, States DEF StartReceive, rxNext, StopReceive
<1>2. CASE RxByte
  BY <1>2 DEF RxByte, rings
<1>3. CASE txFinishI
  BY <1>3, RxState, States DEF txFinishI, txNext, StartSend
<1>4. ASSUME NEW b \in Buffer, rxRequestPut(b) \/ txRequestPut(b)
      PROVE  DmaAtTail'
  <2>1. b \notin ToSet(rxRing) /\ b \notin ToSet(txRing)
    BY <1>4 DEF rxRequestPut, txRequestPut, OnePlace
  <2>2. ASSUME NEW s \in {rxRing, txRing}
        PROVE  Append(s, b) # <<>> /\ Head(Append(s, b)) = IF s = <<>> THEN b ELSE Head(s)
    BY <2>1, Members, AppendOnce, SMTT(30) DEF OnePlace
  <2>3. CASE rxRequestPut(b)
    BY <2>2, <2>3, States DEF rxRequestPut, StartReceive
  <2>4. CASE txRequestPut(b)
    BY <2>2, <2>4, States DEF txRequestPut, StartSend
  <2> QED
    BY <1>4, <2>3, <2>4
<1>5. CASE TakeReceived \/ TakeSent
  BY <1>5 DEF TakeReceived, TakeSent
<1>6. CASE start \/ stop
  BY <1>6 DEF start, stop, StopReceive, rings, Control
<1>7. CASE Stopping
  BY <1>7 DEF Stopping, LockRx, DrainRx, StopSend, LockTx, DrainTx, Stopped, rings, Control
<1> QED
  BY <1>1, <1>2, <1>3, <1>4, <1>5, <1>6, <1>7 DEF UartNext, rxEndI, rxIdleI, rxErrorI

\* No handler halts.
LEMMA FaultKept ==
  ASSUME UartTypeOK, OnePlace, Control, DmaAtTail, NoFault, UartNext
  PROVE  NoFault'
<1>1. CASE rxFinishI
  BY <1>1, RxFinishes DEF NoFault
<1>2. CASE txFinishI
  <2>1. txRing # <<>>
    BY <1>2 DEF txFinishI
  <2>2. Head(txRing) \in Buffer /\ Head(txRing) \notin ToSet(txDone)
    BY <2>1, Members, TailFacts DEF OnePlace, Apart
  <2>3. Len(txDone) < Cardinality(Buffer)
    BY <2>2, Members, OnceCounts, UartAssumption DEF OnePlace
  <2>4. Len(txDone) # TxDoneCapacity
    BY <2>3, Members, FS_CardinalityType, UartAssumption
  <2> QED
    BY <1>2, <2>4 DEF txFinishI, NoFault
<1>3. CASE ~rxFinishI /\ ~txFinishI
  BY <1>3 DEF UartNext, RxByte, rxEndI, rxIdleI, rxErrorI, rxRequestPut, txRequestPut,
              TakeReceived, TakeSent, start, stop, Stopping, LockRx, DrainRx, StopSend, LockTx,
              DrainTx, Stopped, NoFault
<1> QED
  BY <1>1, <1>2, <1>3

-----------------------------------------------------------------------------
(* What the client is given.                                               *)

\* A run of bytes of which the last has just arrived goes on with the next.
LEMMA RunGrows ==
  ASSUME NEW d \in Seq(Int), NEW n \in Int, d # <<>> => Run(d) /\ Last(d) = n - 1
  PROVE  LET e == Append(d, n)
         IN  /\ Run(e) /\ Last(e) = n /\ Head(e) = IF d = <<>> THEN n ELSE Head(d)
             /\ \A i \in DOMAIN e : e[i] = n \/ (i \in DOMAIN d /\ e[i] = d[i])
<1> DEFINE e == Append(d, n)
<1>1. /\ DOMAIN d = 1 .. Len(d) /\ Len(d) \in Nat /\ DOMAIN e = 1 .. Len(d) + 1
      /\ Len(e) = Len(d) + 1 /\ e # <<>> /\ e[Len(d) + 1] = n
      /\ Head(e) = e[1] /\ \A i \in 1 .. Len(d) : e[i] = d[i]
  BY AppendFacts
<1> HIDE DEF e
<1>2. CASE d = <<>>
  <2>1. Len(d) = 0
    BY <1>2
  <2> QED
    BY <1>1, <1>2, <2>1 DEF Run, Last
<1>3. CASE d # <<>>
  <2>1. Len(d) \in 1 .. Len(d) /\ Head(d) = d[1] /\ Head(d) \in Int
    BY <1>3
  <2>2. Head(e) = Head(d)
    BY <1>1, <2>1
  <2>3. n = Head(d) + Len(d)
    BY <1>1, <1>3, <2>1 DEF Run, Last
  <2>4. ASSUME NEW i \in DOMAIN e
        PROVE  e[i] = Head(e) + i - 1 /\ (e[i] = n \/ (i \in DOMAIN d /\ e[i] = d[i]))
    <3>1. CASE i \in 1 .. Len(d)
      BY <1>1, <1>3, <2>2, <3>1 DEF Run
    <3>2. CASE i = Len(d) + 1
      BY <1>1, <2>1, <2>2, <2>3, <3>2
    <3> QED
      BY <1>1, <3>1, <3>2
  <2> QED
    BY <1>1, <1>3, <2>2, <2>4 DEF Run, Last
<1> QED
  BY <1>2, <1>3 DEF e

\* Of what was delivered, nothing changes that is written elsewhere.
LEMMA DeliveredStays ==
  ASSUME Delivered, rxDone' = rxDone, arrived \in Int,
         arrived' = arrived \/ arrived' = arrived + 1, data \in [Buffer -> Seq(Int)],
         \A k \in DOMAIN rxDone : data'[rxDone[k]] = data[rxDone[k]] /\ rxDone[k] \in Buffer
  PROVE  Delivered'
<1>1. ASSUME NEW k \in DOMAIN rxDone PROVE Past(data[rxDone[k]])'
  <2> DEFINE d == data[rxDone[k]]
  <2>1. d \in Seq(Int) /\ d' = d /\ Past(d)
    BY DEF Delivered
  <2>2. \A i \in DOMAIN d : d[i] \in Int /\ d[i] < arrived
    BY <2>1 DEF Past
  <2> QED
    BY <2>1, <2>2 DEF Past, Run
<1> QED
  BY <1>1 DEF Delivered, Before

\* What is received joins what was delivered, or is lost; the order stays.
LEMMA OrderKept ==
  ASSUME UartTypeOK, OnePlace, Control, DmaAtTail, Order, UartNext
  PROVE  Order'
<1> DEFINE d == data[rx.dma]
<1>1. /\ rxRing \in Seq(Buffer) /\ rxDone \in Seq(Buffer) /\ arrived \in Nat
      /\ data \in [Buffer -> Seq(Int)] /\ MaxSize \in Nat
      /\ rx # Idle => /\ rx.dma \in Buffer /\ rx.state = "ACTIVE" /\ d \in Seq(Int)
                      /\ rxRing # <<>> /\ rx.dma = Head(rxRing) /\ Len(d) <= MaxSize
      /\ rx = Idle => rx.state = "IDLE"
  <2>1. data \in [Buffer -> Seq(Int)]
    <3>1. \A s \in Seq(0 .. MaxBytes) : s \in Seq(Int)
      BY UartAssumption
    <3> QED
      BY <3>1 DEF UartTypeOK
  <2> QED
    BY <2>1, Members, RxState, UartAssumption DEF UartTypeOK, DmaAtTail
<1>2. \A k \in DOMAIN rxDone : rxDone[k] \in ToSet(rxDone) /\ rxDone[k] \in Buffer
  BY <1>1 DEF ToSet
<1>3. rxRing # <<>> => Head(rxRing) \in ToSet(rxRing) /\ Head(rxRing) \in Buffer
  BY <1>1, TailFacts
<1>4. rx # Idle => \A k \in DOMAIN rxDone : rxDone[k] # rx.dma
  BY <1>1, <1>2, <1>3 DEF OnePlace, Apart
<1>5. CASE /\ UNCHANGED <<rxDone, data, arrived>> /\ (rx' = rx \/ rx' = Idle)
  <2>1. Delivered'
    BY <1>1, <1>2, <1>5, DeliveredStays DEF Order
  <2> QED
    BY <1>5, <2>1 DEF Order, Receiving, Past, Before
<1>6. CASE RxByte
  <2>1. rxDone' = rxDone /\ rx' = rx /\ arrived' = arrived + 1
    BY <1>6 DEF RxByte, rings
  <2>2. CASE rx = Idle
    <3>1. data' = data
      BY <1>1, <1>6, <2>2 DEF RxByte
    <3> QED
      BY <1>1, <1>2, <2>1, <2>2, <3>1, DeliveredStays DEF Order
  <2>3. CASE rx # Idle /\ Filled
    <3>1. data' = data
      BY <1>6, <2>3 DEF RxByte
    <3>2. Delivered'
      BY <1>1, <1>2, <2>1, <3>1, DeliveredStays DEF Order
    <3>3. Receiving(d)'
      <4>1. \A i \in DOMAIN d : d[i] \in Int
        BY <1>1, <2>3
      <4> QED
        BY <1>1, <2>1, <2>3, <3>1, <4>1 DEF Order, Receiving, Past, Before, Run, Filled
    <3> QED
      BY <3>2, <3>3 DEF Order
  <2>4. CASE rx # Idle /\ ~Filled
    <3>1. data' = [data EXCEPT ![rx.dma] = Append(d, arrived)] /\ Len(d) < MaxSize
      BY <1>1, <1>6, <2>4 DEF RxByte, Filled
    <3>2. Delivered'
      BY <1>1, <1>2, <1>4, <2>1, <2>4, <3>1, DeliveredStays DEF Order
    <3>3. d' = Append(d, arrived)
      BY <1>1, <2>1, <2>4, <3>1
    <3>4. d # <<>> => /\ Run(d) /\ Last(d) = arrived - 1 /\ \A i \in DOMAIN d : d[i] < arrived
                      /\ \A k \in DOMAIN rxDone : Before(data[rxDone[k]], d)
      BY <2>4, <3>1 DEF Order, Receiving, Past
    <3>5. /\ Run(d') /\ Last(d') = arrived
          /\ Head(d') = IF d = <<>> THEN arrived ELSE Head(d)
          /\ \A i \in DOMAIN d' : d'[i] = arrived \/ (i \in DOMAIN d /\ d'[i] = d[i])
      BY <1>1, <2>4, <3>3, <3>4, RunGrows
    <3>6. Past(d)'
      <4>1. \A i \in DOMAIN d : d[i] \in Int
        BY <1>1, <2>4
      <4>2. ASSUME NEW i \in DOMAIN d PROVE d[i] < arrived
        <5>1. d # <<>>
          BY <1>1, <2>4
        <5> QED
          BY <3>4, <5>1
      <4>3. ASSUME NEW i \in DOMAIN d' PROVE d'[i] < arrived + 1
        <5>1. CASE d'[i] = arrived
          BY <1>1, <5>1
        <5>2. CASE i \in DOMAIN d /\ d'[i] = d[i]
          BY <1>1, <4>1, <4>2, <5>2
        <5> QED
          BY <3>5, <5>1, <5>2
      <4> QED
        BY <2>1, <3>5, <4>3 DEF Past, Run
    <3>7. ASSUME NEW k \in DOMAIN rxDone PROVE Last(data'[rxDone[k]]) < Head(d')
      <4>1. data'[rxDone[k]] = data[rxDone[k]]
        BY <1>1, <1>2, <1>4, <2>4, <3>1
      <4>2. Last(data[rxDone[k]]) < arrived
        <5> DEFINE e == data[rxDone[k]]
        <5>1. e \in Seq(Int) /\ e # <<>> /\ \A i \in DOMAIN e : e[i] < arrived
          BY <1>1, <1>2 DEF Order, Delivered, Past, Run
        <5>2. Len(e) \in DOMAIN e
          BY <5>1
        <5> QED
          BY <5>1, <5>2 DEF Last
      <4> QED
        BY <3>4, <3>5, <4>1, <4>2 DEF Before
    <3>8. Receiving(d)'
      BY <1>1, <2>1, <3>5, <3>6, <3>7 DEF Receiving, Before
    <3> QED
      BY <3>2, <3>8 DEF Order
  <2> QED
    BY <2>2, <2>3, <2>4
<1>7. CASE rxFinishI
  <2>1. arrived' = arrived
    BY <1>7, RxFinishes
  <2>2. CASE UNCHANGED <<rxRing, rxDone, rx, data, fault>>
    BY <1>5, <2>1, <2>2
  <2>3. CASE rx # Idle /\ rxRing # <<>> /\ StartReceive(Head(rxRing)) /\ UNCHANGED rxDone
    <3>1. data' = [data EXCEPT ![rx.dma] = <<>>] /\ rx'.dma = rx.dma
      BY <1>1, <2>3, States DEF StartReceive
    <3>2. Delivered'
      BY <1>1, <1>2, <1>4, <2>1, <2>3, <3>1, DeliveredStays DEF Order
    <3> QED
      BY <1>1, <2>3, <3>1, <3>2 DEF Order, Receiving
  <2>4. CASE /\ rx # Idle /\ rxRing # <<>> /\ Len(d) # 0
             /\ rxDone' = Append(rxDone, Head(rxRing)) /\ rxNext(Tail(rxRing))
    <3>1. d # <<>> /\ Past(d) /\ \A k \in DOMAIN rxDone : Before(data[rxDone[k]], d)
      BY <1>1, <2>4 DEF Order, Receiving
    <3>2. /\ DOMAIN rxDone = 1 .. Len(rxDone) /\ DOMAIN rxDone' = 1 .. Len(rxDone) + 1
          /\ rxDone'[Len(rxDone) + 1] = rx.dma /\ Len(rxDone) \in Nat
          /\ \A k \in DOMAIN rxDone : rxDone'[k] = rxDone[k]
      BY <1>1, <2>4, AppendFacts
    <3>3. /\ \A b \in ToSet(rxDone) \union {rx.dma} : data'[b] = data[b]
          /\ rx' # Idle => data'[rx'.dma] = <<>>
      <4>1. CASE Tail(rxRing) = <<>>
        BY <2>4, <4>1 DEF rxNext, StopReceive
      <4>2. CASE Tail(rxRing) # <<>>
        <5> DEFINE b == Head(Tail(rxRing))
        <5>1. b \in ToSet(Tail(rxRing)) /\ b \in Buffer
          BY <1>1, <2>4, <4>2, TailFacts
        <5>2. b \in ToSet(rxRing) \ {rx.dma}
          BY <1>1, <2>4, <5>1, TailOnce DEF OnePlace
        <5>3. b \notin ToSet(rxDone)
          BY <5>2 DEF OnePlace, Apart
        <5>4. data' = [data EXCEPT ![b] = <<>>] /\ rx'.dma = b
          BY <2>4, <4>2, States DEF rxNext, StartReceive
        <5>5. ToSet(rxDone) \union {rx.dma} \subseteq Buffer
          BY <1>1, <1>2, <2>4 DEF ToSet
        <5> QED
          BY <1>1, <5>1, <5>2, <5>3, <5>4, <5>5
      <4> QED
        BY <4>1, <4>2
    <3>4. \A k \in DOMAIN rxDone' :
             \/ k = Len(rxDone) + 1 /\ data'[rxDone'[k]] = d
             \/ k \in DOMAIN rxDone /\ data'[rxDone'[k]] = data[rxDone[k]]
      BY <1>2, <3>2, <3>3
    <3>5. \A k \in DOMAIN rxDone' : Past(data'[rxDone'[k]])
      BY <3>1, <3>4 DEF Order, Delivered
    <3>6. ASSUME NEW k \in DOMAIN rxDone', NEW l \in DOMAIN rxDone', k < l
          PROVE  Before(data'[rxDone'[k]], data'[rxDone'[l]])
      <4>1. k \in DOMAIN rxDone /\ data'[rxDone'[k]] = data[rxDone[k]]
        BY <3>2, <3>4, <3>6
      <4> QED
        BY <3>1, <3>4, <3>6, <4>1 DEF Order, Delivered
    <3>7. Delivered'
      BY <2>1, <3>5, <3>6 DEF Delivered, Past, Before
    <3> QED
      BY <3>3, <3>7 DEF Order, Receiving
  <2> QED
    BY <1>7, <2>2, <2>3, <2>4, RxFinishes
<1>8. ASSUME NEW b \in Buffer, rxRequestPut(b) PROVE Order'
  <2>1. /\ b \notin ToSet(rxDone) /\ rxDone' = rxDone /\ arrived' = arrived
    BY <1>8 DEF rxRequestPut, OnePlace
  <2>2. CASE rxRing = <<>>
    <3>1. data' = [data EXCEPT ![b] = <<>>] /\ rx'.dma = b
      BY <1>8, <2>2, States DEF rxRequestPut, StartReceive
    <3>2. Delivered'
      BY <1>1, <1>2, <2>1, <3>1, DeliveredStays DEF Order
    <3> QED
      BY <1>1, <3>1, <3>2 DEF Order, Receiving
  <2>3. CASE rxRing # <<>>
    BY <1>5, <1>8, <2>1, <2>3 DEF rxRequestPut
  <2> QED
    BY <2>2, <2>3
<1>9. CASE TakeReceived
  <2>1. /\ rxDone # <<>> /\ rxDone' = Tail(rxDone) /\ arrived' = arrived /\ rx' = rx
        /\ data' = [data EXCEPT ![Head(rxDone)] = <<>>]
    BY <1>9 DEF TakeReceived
  <2>2. /\ \A k \in DOMAIN rxDone' : k + 1 \in DOMAIN rxDone /\ rxDone'[k] = rxDone[k + 1]
        /\ Head(rxDone) = rxDone[1] /\ Len(rxDone) \in Nat \ {0}
        /\ Len(rxDone') = Len(rxDone) - 1 /\ rxDone' \in Seq(Buffer)
    BY <1>1, <2>1, TailFacts
  <2>3. ASSUME NEW k \in DOMAIN rxDone' PROVE rxDone'[k] # Head(rxDone) /\ k \in Nat
    <3>1. k \in Nat /\ k + 1 # 1 /\ k + 1 \in DOMAIN rxDone /\ 1 \in DOMAIN rxDone
      BY <1>1, <2>2, SMTT(30)
    <3> QED
      BY <2>2, <3>1 DEF OnePlace, IsInjective
  <2>4. \A k \in DOMAIN rxDone' : data'[rxDone'[k]] = data[rxDone[k + 1]]
    BY <1>1, <1>2, <2>1, <2>2, <2>3
  <2>5. Delivered'
    BY <2>1, <2>2, <2>3, <2>4 DEF Order, Delivered, Past, Before
  <2>6. rx # Idle => data'[rx.dma] = d
    BY <1>1, <1>4, <2>1, <2>2
  <2> QED
    BY <2>1, <2>2, <2>4, <2>5, <2>6 DEF Order, Receiving, Past, Before
<1>10. CASE txFinishI \/ TakeSent \/ start \/ stop \/ \E b \in Buffer : txRequestPut(b)
  BY <1>5, <1>10 DEF txFinishI, TakeSent, start, stop, StopReceive, txRequestPut, rings
<1>11. CASE Stopping
  BY <1>5, <1>11 DEF Stopping, LockRx, DrainRx, StopSend, LockTx, DrainTx, Stopped, rings
<1> QED
  BY <1>6, <1>7, <1>8, <1>9, <1>10, <1>11 DEF UartNext, rxEndI, rxIdleI, rxErrorI

-----------------------------------------------------------------------------
(* The types. *)
LEMMA TypesKept ==
  ASSUME UartTypeOK, Control, DmaAtTail, UartNext
  PROVE  UartTypeOK'
<1> USE DEF UartTypeOK
<1>1. /\ rxRing \in Seq(Buffer) /\ txRing \in Seq(Buffer)
      /\ rxDone \in Seq(Buffer) /\ txDone \in Seq(Buffer)
      /\ \A s \in Seq(Buffer) : s # <<>> => Head(s) \in Buffer /\ Tail(s) \in Seq(Buffer)
                                            /\ Len(Tail(s)) = Len(s) - 1
      /\ \A s \in Seq(Buffer), b \in Buffer :
            Append(s, b) \in Seq(Buffer) /\ Len(Append(s, b)) = Len(s) + 1
      /\ \A s \in Seq(Buffer) : Len(s) \in Nat
  BY Members, TailFacts, AppendFacts
<1>2. /\ RxRingCapacity \in Nat \ {0} /\ TxRingCapacity \in Nat \ {0}
      /\ RxDoneCapacity \in Nat \ {0} /\ MaxSize \in Nat \ {0} /\ MaxBytes \in Nat
  BY UartAssumption
<1> DEFINE Hal == {Idle} \union [state : {"ACTIVE"}, dma : Buffer]
           Filling(f) == /\ f \in [Buffer -> Seq(0 .. MaxBytes)]
                         /\ \A b \in Buffer : Len(f[b]) <= MaxSize
<1>3. \A b \in Buffer : [state |-> "ACTIVE", dma |-> b] \in Hal
  OBVIOUS
<1>4. Idle \in Hal
  OBVIOUS
<1>5. \A b \in Buffer : Filling([data EXCEPT ![b] = <<>>])
  <2>1. <<>> \in Seq(0 .. MaxBytes) /\ Len(<<>>) = 0
    OBVIOUS
  <2> QED
    BY <1>2, <2>1
<1> HIDE DEF Filling, Hal
<1>6. UartTypeOK' <=> /\ {rxRing', txRing', rxDone', txDone'} \subseteq Seq(Buffer)
                      /\ Len(rxRing') <= RxRingCapacity /\ Len(txRing') <= TxRingCapacity
                      /\ Len(rxDone') <= RxDoneCapacity
                      /\ held' \subseteq Buffer
                      /\ rx' \in Hal /\ tx' \in Hal /\ Filling(data')
                      /\ arrived' \in 0 .. MaxBytes
                      /\ locked' \in BOOLEAN /\ disarmed' \in BOOLEAN /\ fault' \in BOOLEAN
  BY DEF Filling, Hal
<1>7. rx \in Hal /\ tx \in Hal /\ Filling(data)
  BY DEF Filling, Hal
<1> USE DEF Goto, client, rings
<1>8. CASE rxFinishI
  <2>1. CASE UNCHANGED <<rxRing, rxDone, rx, data, fault>>
    BY <1>6, <1>7, <1>8, <2>1, RxFinishes
  <2>2. CASE rxRing # <<>> /\ StartReceive(Head(rxRing)) /\ UNCHANGED <<rxRing, rxDone, fault>>
    BY <1>1, <1>3, <1>5, <1>6, <1>7, <1>8, <2>2, RxFinishes DEF StartReceive
  <2>3. CASE /\ rxRing # <<>> /\ Len(rxDone) # RxDoneCapacity /\ fault' = FALSE
             /\ rxDone' = Append(rxDone, Head(rxRing)) /\ rxRing' = Tail(rxRing)
             /\ rxNext(Tail(rxRing))
    <3>1. rx' \in Hal /\ Filling(data')
      BY <1>1, <1>3, <1>4, <1>5, <1>7, <2>3, SMTT(30) DEF rxNext, StartReceive, StopReceive
    <3>2. rxDone' \in Seq(Buffer) /\ Len(rxDone') <= RxDoneCapacity
      BY <1>1, <1>2, <2>3
    <3>3. rxRing' \in Seq(Buffer) /\ Len(rxRing') <= RxRingCapacity
      BY <1>1, <1>2, <2>3
    <3> QED
      BY <1>6, <1>7, <1>8, <2>3, <3>1, <3>2, <3>3, RxFinishes
  <2> QED
    BY <1>8, <2>1, <2>2, <2>3, RxFinishes
<1>9. CASE RxByte
  <2>1. Filling(data')
    <3>1. CASE rx.state = "ACTIVE" /\ ~Filled
      <4>1. rx.dma \in Buffer /\ Len(data[rx.dma]) < MaxSize /\ arrived \in 0 .. MaxBytes
        BY <1>2, <3>1, RxState DEF Filled
      <4>2. /\ Append(data[rx.dma], arrived) \in Seq(0 .. MaxBytes)
            /\ Len(Append(data[rx.dma], arrived)) <= MaxSize
        BY <1>2, <4>1, AppendFacts
      <4> QED
        BY <1>7, <1>9, <3>1, <4>1, <4>2 DEF RxByte, Filling
    <3>2. CASE ~(rx.state = "ACTIVE" /\ ~Filled)
      BY <1>7, <1>9, <3>2 DEF RxByte
    <3> QED
      BY <3>1, <3>2
  <2> QED
    BY <1>2, <1>6, <1>7, <1>9, <2>1 DEF RxByte
<1>10. CASE txFinishI
  <2>1. tx' \in Hal
    BY <1>1, <1>3, <1>4, <1>10 DEF txFinishI, txNext, StartSend
  <2> QED
    BY <1>1, <1>2, <1>6, <1>7, <1>10, <2>1 DEF txFinishI
<1>11. ASSUME NEW b \in Buffer, rxRequestPut(b) PROVE UartTypeOK'
  <2>1. rx' \in Hal /\ Filling(data')
    BY <1>3, <1>5, <1>7, <1>11 DEF rxRequestPut, StartReceive
  <2> QED
    BY <1>1, <1>2, <1>6, <1>7, <1>11, <2>1 DEF rxRequestPut
<1>12. ASSUME NEW b \in Buffer, txRequestPut(b) PROVE UartTypeOK'
  <2>1. tx' \in Hal
    BY <1>3, <1>7, <1>12 DEF txRequestPut, StartSend
  <2> QED
    BY <1>1, <1>2, <1>6, <1>7, <1>12, <2>1 DEF txRequestPut
<1>13. CASE TakeReceived
  <2>1. Tail(rxDone) \in Seq(Buffer) /\ Len(Tail(rxDone)) <= Len(rxDone) /\ Head(rxDone) \in Buffer
    BY <1>1, <1>13 DEF TakeReceived
  <2>2. held' \subseteq Buffer
    BY <2>1, <1>13 DEF TakeReceived
  <2>3. Filling(data')
    BY <1>5, <2>1, <1>13 DEF TakeReceived
  <2> QED
    BY <1>1, <1>2, <1>6, <1>7, <1>13, <2>1, <2>2, <2>3 DEF TakeReceived
<1>14. CASE TakeSent
  <2>1. Tail(txDone) \in Seq(Buffer) /\ Len(Tail(txDone)) <= Len(txDone) /\ Head(txDone) \in Buffer
    BY <1>1, <1>14 DEF TakeSent
  <2>2. held' \subseteq Buffer
    BY <2>1, <1>14 DEF TakeSent
  <2> QED
    BY <1>1, <1>2, <1>6, <1>7, <1>14, <2>1, <2>2 DEF TakeSent
<1>15. CASE start \/ stop
  BY <1>4, <1>6, <1>7, <1>15 DEF start, stop, StopReceive
<1>16. CASE LockRx \/ StopSend \/ LockTx \/ Stopped
  BY <1>4, <1>6, <1>7, <1>16 DEF LockRx, StopSend, LockTx, Stopped
<1>17. CASE DrainRx
  <2>1. Tail(rxRing) \in Seq(Buffer) /\ Len(Tail(rxRing)) <= Len(rxRing) /\ Head(rxRing) \in Buffer
    BY <1>1, <1>17 DEF DrainRx
  <2>2. held' \subseteq Buffer
    BY <2>1, <1>17 DEF DrainRx
  <2>3. rxRing' \in Seq(Buffer) /\ Len(rxRing') <= RxRingCapacity
    BY <1>1, <1>2, <2>1, <1>17 DEF DrainRx
  <2>4. locked' = FALSE /\ disarmed' = TRUE
    BY <1>17 DEF DrainRx
  <2> QED
    BY <1>1, <1>6, <1>7, <1>17, <2>2, <2>3, <2>4 DEF DrainRx, UartTypeOK
<1>18. CASE DrainTx
  <2>1. Tail(txRing) \in Seq(Buffer) /\ Len(Tail(txRing)) <= Len(txRing) /\ Head(txRing) \in Buffer
    BY <1>1, <1>18 DEF DrainTx
  <2>2. held' \subseteq Buffer
    BY <2>1, <1>18 DEF DrainTx
  <2>3. txRing' \in Seq(Buffer) /\ Len(txRing') <= TxRingCapacity
    BY <1>1, <1>2, <2>1, <1>18 DEF DrainTx
  <2>4. locked' = FALSE /\ disarmed' = TRUE
    BY <1>18 DEF DrainTx
  <2> QED
    BY <1>1, <1>6, <1>7, <1>18, <2>2, <2>3, <2>4 DEF DrainTx, UartTypeOK
<1> QED
  BY <1>8, <1>9, <1>10, <1>11, <1>12, <1>13, <1>14, <1>15, <1>16,
     <1>17, <1>18 DEF UartNext, Stopping, rxEndI, rxIdleI, rxErrorI

-----------------------------------------------------------------------------
\* The driver has no buffer at first.
LEMMA UartStarts == UartInit => UartInv
<1> SUFFICES ASSUME UartInit PROVE UartInv
  OBVIOUS
<1>1. IsInjective(<<>>) /\ ToSet(<<>>) = {}
  BY DEF IsInjective, ToSet
<1>2. /\ <<>> \in Seq(Buffer) /\ <<>> \in Seq(0 .. MaxBytes) /\ Len(<<>>) = 0
      /\ 0 \in 0 .. MaxBytes
  BY UartAssumption
<1>3. UartTypeOK
  <2>1. data \in [Buffer -> Seq(0 .. MaxBytes)] /\ \A b \in Buffer : data[b] = <<>>
    BY <1>2 DEF UartInit
  <2>2. /\ 0 <= RxRingCapacity /\ 0 <= TxRingCapacity /\ 0 <= RxDoneCapacity /\ 0 <= MaxSize
    BY UartAssumption
  <2> QED
    BY <1>2, <2>1, <2>2 DEF UartInit, UartTypeOK
<1>4. OnePlace
  BY <1>1 DEF UartInit, OnePlace, Apart
<1>5. Control /\ DmaAtTail /\ NoFault
  BY DEF UartInit, Control, DmaAtTail, NoFault
<1>6. Order
  BY DEF UartInit, Order, Delivered
<1> QED
  BY <1>3, <1>4, <1>5, <1>6 DEF UartInv

\* UartInv holds in every reachable state.
LEMMA UartInvariance == UartSpec => []UartInv
<1>1. UartInv /\ [UartNext]_uartVars => UartInv'
  <2> SUFFICES ASSUME UartInv, [UartNext]_uartVars PROVE UartInv'
    OBVIOUS
  <2>1. CASE UartNext
    BY <2>1, TypesKept, StepsMove, OnePlaceKept, ControlKept, DmaKept, FaultKept, OrderKept
       DEF UartInv
  <2>2. CASE UNCHANGED uartVars
    <3>1. UartTypeOK' /\ OnePlace'
      BY <2>2 DEF UartInv, uartVars, rings, client, UartTypeOK, OnePlace, Apart
    <3>2. Control' /\ DmaAtTail' /\ NoFault'
      BY <2>2 DEF UartInv, uartVars, rings, client, Control, DmaAtTail, NoFault
    <3>3. Order'
      BY <2>2 DEF UartInv, uartVars, rings, client, Order, Delivered, Receiving, Past, Before
    <3> QED
      BY <3>1, <3>2, <3>3 DEF UartInv
  <2> QED
    BY <2>1, <2>2
<1> QED
  BY <1>1, UartStarts, PTL DEF UartSpec

\* What is in one of four places is once in all of them.
LEMMA OnceEverywhere ==
  ASSUME UartTypeOK, OnePlace
  PROVE  BuffersConserved
<1> DEFINE a == rxRing \o txRing
           b == a \o rxDone
<1>1. a \in Seq(Buffer) /\ IsInjective(a) /\ ToSet(a) = ToSet(rxRing) \union ToSet(txRing)
  BY Members, ConcatOnce DEF OnePlace
<1> HIDE DEF a
<1>2. b \in Seq(Buffer) /\ IsInjective(b) /\ ToSet(b) = ToSet(a) \union ToSet(rxDone)
  <2>1. Apart(a, rxDone)
    BY <1>1 DEF OnePlace, Apart
  <2> QED
    BY <1>1, <2>1, Members, ConcatOnce DEF OnePlace
<1> HIDE DEF b
<1>3. /\ IsInjective(b \o txDone)
      /\ ToSet(b \o txDone) = ToSet(b) \union ToSet(txDone)
  <2>1. Apart(b, txDone)
    BY <1>1, <1>2 DEF OnePlace, Apart
  <2> QED
    BY <1>2, <2>1, Members, ConcatOnce DEF OnePlace
<1>4. Everywhere = b \o txDone
  BY DEF Everywhere, a, b
<1> QED
  BY <1>1, <1>2, <1>3, <1>4 DEF BuffersConserved, OnePlace

(* No buffer of the driver is lost or in two places, the DMA works on the  *)
(* tail of its ring, no handler halts on a full completion queue, what the *)
(* client is given are runs of bytes in their order, and stop() leaves the *)
(* driver idle, empty and unlocked, whatever it interrupts                 *)
(* (uart.h:141-279).                                                       *)
THEOREM OldDriverSafe == UartSpec => []UartSafe
<1>1. UartInv => UartSafe
  <2> SUFFICES ASSUME UartInv PROVE UartSafe
    OBVIOUS
  <2>1. UartTypeOK /\ DmaAtTail /\ NoFault /\ BuffersConserved
    BY OnceEverywhere DEF UartInv
  <2>2. RunsInOrder
    BY DEF UartInv, Order, Delivered, Past, Before, RunsInOrder
  <2>3. StopsClean
    BY DEF UartInv, Control, StopsClean
  <2> QED
    BY <2>1, <2>2, <2>3 DEF UartSafe
<1> QED
  BY <1>1, UartInvariance, PTL
=============================================================================
