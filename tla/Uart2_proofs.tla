---------------------------- MODULE Uart2_proofs ----------------------------
(***************************************************************************)
(* Proofs about the driver Uart2T, for any buffers, any capacities of its  *)
(* rings and any size of a buffer.                                         *)
(*                                                                         *)
(* The inductive invariant has three parts.  Control says who may do what  *)
(* at each place of the thread, and is inductive by itself; Ownership says *)
(* where each buffer is and needs Control; Sizes counts the bytes and      *)
(* needs both, because a buffer with two owners could change its size      *)
(* while it waits for rx().                                                *)
(***************************************************************************)
EXTENDS Uart2, TLAPS

(***************************************************************************)
(* The lemmas of SpecialRing_proofs, for the two rings of the driver.      *)
(* They are the same lemmas twice, once for each capacity.                 *)
(***************************************************************************)
RxLemmas == INSTANCE SpecialRing_proofs
  WITH T <- Buffer, Hole <- NoBuffer, Capacity <- RX_CAPACITY, ring <- rxRing

\* The operators of both instances are the same.
LEMMA RxSame ==
  ASSUME NEW r, NEW b
  PROVE  /\ RxLemmas!WellFormed(r) <=> Rx!WellFormed(r)
         /\ RxLemmas!canPut(r) <=> Rx!canPut(r)
         /\ RxLemmas!canGet(r) <=> Rx!canGet(r)
         /\ RxLemmas!hasPoint(r) <=> Rx!hasPoint(r)
         /\ RxLemmas!point(r) = Rx!point(r)
         /\ RxLemmas!front(r) = Rx!front(r)
         /\ RxLemmas!put(r, b) = Rx!put(r, b)
         /\ RxLemmas!get(r) = Rx!get(r)
         /\ RxLemmas!advancePoint(r) = Rx!advancePoint(r)
         /\ RxLemmas!Ready(r) = Rx!Ready(r)
         /\ RxLemmas!Queued(r) = Rx!Queued(r)
         /\ RxLemmas!Contents(r) = RingBuffers(r)
<1>1. RxLemmas!WellFormed(r) <=> Rx!WellFormed(r)
  BY DEF RxLemmas!WellFormed, Rx!WellFormed, RxLemmas!Ring, Rx!Ring,
         RxLemmas!InOrder, Rx!InOrder, RxLemmas!FilledExactly, Rx!FilledExactly,
         RxLemmas!Distance, Rx!Distance, RxLemmas!Index, Rx!Index, RxLemmas!Size, Rx!Size
<1>2. /\ RxLemmas!canPut(r) <=> Rx!canPut(r)
      /\ RxLemmas!canGet(r) <=> Rx!canGet(r)
      /\ RxLemmas!hasPoint(r) <=> Rx!hasPoint(r)
      /\ RxLemmas!point(r) = Rx!point(r)
      /\ RxLemmas!front(r) = Rx!front(r)
  BY DEF RxLemmas!canPut, Rx!canPut, RxLemmas!full, Rx!full, RxLemmas!next, Rx!next,
         RxLemmas!Size, Rx!Size, RxLemmas!canGet, Rx!canGet,
         RxLemmas!hasPoint, Rx!hasPoint, RxLemmas!point, Rx!point,
         RxLemmas!front, Rx!front
<1>3. RxLemmas!put(r, b) = Rx!put(r, b)
  BY DEF RxLemmas!put, Rx!put, RxLemmas!full, Rx!full, RxLemmas!next, Rx!next,
         RxLemmas!Size, Rx!Size
<1>4. RxLemmas!get(r) = Rx!get(r)
  BY DEF RxLemmas!get, Rx!get, RxLemmas!next, Rx!next, RxLemmas!Size, Rx!Size
<1>5. RxLemmas!advancePoint(r) = Rx!advancePoint(r)
  BY DEF RxLemmas!advancePoint, Rx!advancePoint, RxLemmas!hasPoint, Rx!hasPoint,
         RxLemmas!next, Rx!next, RxLemmas!Size, Rx!Size
<1>6. /\ RxLemmas!Ready(r) = Rx!Ready(r)
      /\ RxLemmas!Queued(r) = Rx!Queued(r)
  BY DEF RxLemmas!Ready, Rx!Ready, RxLemmas!Queued, Rx!Queued, RxLemmas!Segment, Rx!Segment,
         RxLemmas!Distance, Rx!Distance, RxLemmas!Ahead, Rx!Ahead, RxLemmas!Size, Rx!Size
<1>7. RxLemmas!Contents(r) = RingBuffers(r)
  BY DEF RxLemmas!Contents, RingBuffers
<1> QED BY <1>1, <1>2, <1>3, <1>4, <1>5, <1>6, <1>7

\* put, to the driver.
LEMMA RxPut ==
  ASSUME NEW r, Rx!WellFormed(r), NEW b \in Buffer, Rx!canPut(r)
  PROVE  /\ Rx!WellFormed(Rx!put(r, b))
         /\ Rx!hasPoint(Rx!put(r, b))
         /\ Rx!hasPoint(r) => Rx!point(Rx!put(r, b)) = Rx!point(r)
         /\ Rx!canGet(Rx!put(r, b)) <=> Rx!canGet(r)
<1> DEFINE q == Rx!put(r, b)
<1>1. RxLemmas!WellFormed(r) /\ RxLemmas!canPut(r) /\ RxLemmas!put(r, b) = q
  BY RxSame
<1>2. RxLemmas!WellFormed(q)
  BY <1>1, RxLemmas!PutWellFormed, ConstantsAssumption
<1>3. /\ RxLemmas!hasPoint(q)
      /\ RxLemmas!hasPoint(r) => RxLemmas!point(q) = RxLemmas!point(r)
      /\ RxLemmas!canGet(q) <=> RxLemmas!canGet(r)
  BY <1>1, RxLemmas!PutSeen, ConstantsAssumption
<1> HIDE DEF q
<1>4. /\ Rx!WellFormed(q)
      /\ Rx!hasPoint(q)
      /\ Rx!hasPoint(r) => Rx!point(q) = Rx!point(r)
      /\ Rx!canGet(q) <=> Rx!canGet(r)
  BY <1>2, <1>3, RxSame
<1> QED BY <1>4 DEF q

\* get, to the driver.
LEMMA RxGet ==
  ASSUME NEW r, Rx!WellFormed(r), Rx!canGet(r)
  PROVE  /\ Rx!WellFormed(Rx!get(r))
         /\ Rx!front(r) \in Buffer
         /\ Rx!hasPoint(Rx!get(r)) <=> Rx!hasPoint(r)
         /\ Rx!point(Rx!get(r)) = Rx!point(r)
         /\ Rx!canPut(Rx!get(r))
<1> DEFINE q == Rx!get(r)
<1>1. RxLemmas!WellFormed(r) /\ RxLemmas!canGet(r) /\ RxLemmas!get(r) = q
  BY RxSame
<1>2. RxLemmas!WellFormed(q)
  BY <1>1, RxLemmas!GetWellFormed, ConstantsAssumption
<1>3. /\ RxLemmas!front(r) \in Buffer
      /\ RxLemmas!hasPoint(q) <=> RxLemmas!hasPoint(r)
      /\ RxLemmas!point(q) = RxLemmas!point(r)
      /\ RxLemmas!canPut(q)
  BY <1>1, RxLemmas!GetSeen, ConstantsAssumption
<1> HIDE DEF q
<1>4. /\ Rx!WellFormed(q)
      /\ Rx!front(r) \in Buffer
      /\ Rx!hasPoint(q) <=> Rx!hasPoint(r)
      /\ Rx!point(q) = Rx!point(r)
      /\ Rx!canPut(q)
  BY <1>2, <1>3, RxSame
<1> QED BY <1>4 DEF q

\* advancePoint, to the driver.
LEMMA RxAdvance ==
  ASSUME NEW r, Rx!WellFormed(r), Rx!hasPoint(r)
  PROVE  /\ Rx!WellFormed(Rx!advancePoint(r))
         /\ Rx!point(r) \in Buffer
         /\ Rx!canGet(Rx!advancePoint(r))
         /\ Rx!canPut(Rx!advancePoint(r)) <=> Rx!canPut(r)
<1> DEFINE q == Rx!advancePoint(r)
<1>1. RxLemmas!WellFormed(r) /\ RxLemmas!hasPoint(r) /\ RxLemmas!advancePoint(r) = q
  BY RxSame
<1>2. RxLemmas!WellFormed(q)
  BY <1>1, RxLemmas!AdvanceWellFormed, ConstantsAssumption
<1>3. /\ RxLemmas!point(r) \in Buffer
      /\ RxLemmas!canGet(q)
      /\ RxLemmas!canPut(q) <=> RxLemmas!canPut(r)
  BY <1>1, RxLemmas!AdvanceSeen, ConstantsAssumption
<1> HIDE DEF q
<1>4. /\ Rx!WellFormed(q)
      /\ Rx!point(r) \in Buffer
      /\ Rx!canGet(q)
      /\ Rx!canPut(q) <=> Rx!canPut(r)
  BY <1>2, <1>3, RxSame
<1> QED BY <1>4 DEF q

\* Whose buffers are in the ring, and in what order, before and after a put.
LEMMA RxPutMoves ==
  ASSUME NEW r, Rx!WellFormed(r), RxLemmas!Distinct(r), NEW b \in Buffer, Rx!canPut(r),
         b \notin RingBuffers(r)
  PROVE  /\ RingBuffers(Rx!put(r, b)) = RingBuffers(r) \union {b}
         /\ RxLemmas!Distinct(Rx!put(r, b))
         /\ Len(Rx!Queued(r)) + Len(Rx!Ready(r)) < RX_CAPACITY
         /\ Rx!Queued(Rx!put(r, b)) = Append(Rx!Queued(r), b)
         /\ Rx!Ready(Rx!put(r, b)) = Rx!Ready(r)
<1> DEFINE q == Rx!put(r, b)
<1>1. /\ RxLemmas!WellFormed(r)
      /\ RxLemmas!canPut(r)
      /\ RxLemmas!put(r, b) = q
      /\ b \notin RxLemmas!Contents(r)
  BY RxSame
<1>2. ~RxLemmas!full(r)
  BY <1>1 DEF RxLemmas!canPut
<1> HIDE DEF q
<1>3. /\ RxLemmas!Contents(q) = RxLemmas!Contents(r) \union {b}
      /\ RxLemmas!Distinct(q)
  BY <1>1, RxLemmas!PutContents, ConstantsAssumption
<1>4. /\ Len(RxLemmas!Queued(r)) + Len(RxLemmas!Ready(r)) < RX_CAPACITY
      /\ RxLemmas!Queued(q) = Append(RxLemmas!Queued(r), b)
      /\ RxLemmas!Ready(q) = RxLemmas!Ready(r)
  BY <1>1, <1>2, RxLemmas!PutIsPut, ConstantsAssumption
<1>5. /\ RingBuffers(q) = RingBuffers(r) \union {b}
      /\ Len(Rx!Queued(r)) + Len(Rx!Ready(r)) < RX_CAPACITY
      /\ Rx!Queued(q) = Append(Rx!Queued(r), b)
      /\ Rx!Ready(q) = Rx!Ready(r)
  BY <1>3, <1>4, RxSame
<1> QED BY <1>3, <1>5 DEF q

\* The same for a get.
LEMMA RxGetMoves ==
  ASSUME NEW r, Rx!WellFormed(r), RxLemmas!Distinct(r), Rx!canGet(r)
  PROVE  /\ Rx!front(r) \in RingBuffers(r)
         /\ RingBuffers(Rx!get(r)) = RingBuffers(r) \ {Rx!front(r)}
         /\ RxLemmas!Distinct(Rx!get(r))
         /\ Rx!Ready(r) # << >>
         /\ Rx!Ready(Rx!get(r)) = Tail(Rx!Ready(r))
         /\ Rx!Queued(Rx!get(r)) = Rx!Queued(r)
<1> DEFINE q == Rx!get(r)
<1>1. /\ RxLemmas!WellFormed(r)
      /\ RxLemmas!canGet(r)
      /\ RxLemmas!get(r) = q
  BY RxSame
<1> HIDE DEF q
<1>2. /\ RxLemmas!front(r) \in RxLemmas!Contents(r)
      /\ RxLemmas!Contents(q) = RxLemmas!Contents(r) \ {RxLemmas!front(r)}
      /\ RxLemmas!Distinct(q)
  BY <1>1, RxLemmas!GetContents, ConstantsAssumption
<1>3. /\ RxLemmas!Ready(r) # << >>
      /\ RxLemmas!Ready(q) = Tail(RxLemmas!Ready(r))
      /\ RxLemmas!Queued(q) = RxLemmas!Queued(r)
  BY <1>1, RxLemmas!GetIsGet, ConstantsAssumption
<1>4. /\ Rx!front(r) \in RingBuffers(r)
      /\ RingBuffers(q) = RingBuffers(r) \ {Rx!front(r)}
      /\ Rx!Ready(r) # << >>
      /\ Rx!Ready(q) = Tail(Rx!Ready(r))
      /\ Rx!Queued(q) = Rx!Queued(r)
  BY <1>2, <1>3, RxSame
<1> QED BY <1>2, <1>4 DEF q

\* The same for an advancePoint.
LEMMA RxAdvanceMoves ==
  ASSUME NEW r, Rx!WellFormed(r), RxLemmas!Distinct(r), Rx!hasPoint(r)
  PROVE  /\ RingBuffers(Rx!advancePoint(r)) = RingBuffers(r)
         /\ RxLemmas!Distinct(Rx!advancePoint(r))
         /\ Rx!Queued(r) # << >>
         /\ Rx!Queued(Rx!advancePoint(r)) = Tail(Rx!Queued(r))
         /\ Rx!Ready(Rx!advancePoint(r)) = Append(Rx!Ready(r), Head(Rx!Queued(r)))
         /\ Rx!point(r) = Head(Rx!Queued(r))
<1> DEFINE q == Rx!advancePoint(r)
<1>1. /\ RxLemmas!WellFormed(r)
      /\ RxLemmas!hasPoint(r)
      /\ RxLemmas!advancePoint(r) = q
  BY RxSame
<1> HIDE DEF q
<1>2. q.array = r.array
  BY <1>1, RxLemmas!AdvanceContents, ConstantsAssumption
<1>3. RingBuffers(q) = RingBuffers(r) /\ RxLemmas!Distinct(q)
  BY <1>2 DEF RingBuffers, RxLemmas!Distinct
<1>4. /\ RxLemmas!Queued(r) # << >>
      /\ RxLemmas!Queued(q) = Tail(RxLemmas!Queued(r))
      /\ RxLemmas!Ready(q) = Append(RxLemmas!Ready(r), Head(RxLemmas!Queued(r)))
      /\ RxLemmas!point(r) = Head(RxLemmas!Queued(r))
  BY <1>1, RxLemmas!AdvanceIsFinish, ConstantsAssumption
<1>5. /\ Rx!Queued(r) # << >>
      /\ Rx!Queued(q) = Tail(Rx!Queued(r))
      /\ Rx!Ready(q) = Append(Rx!Ready(r), Head(Rx!Queued(r)))
      /\ Rx!point(r) = Head(Rx!Queued(r))
  BY <1>4, RxSame
<1> QED BY <1>3, <1>5 DEF q

\* The stages of a ring as sequences; a buffer that waits for get is in the
\* ring and not at its point.
LEMMA RxStages ==
  ASSUME NEW r, Rx!WellFormed(r)
  PROVE  /\ Rx!Ready(r) \in Seq(Buffer \union {NoBuffer})
         /\ Rx!Queued(r) \in Seq(Buffer \union {NoBuffer})
         /\ RxLemmas!Distinct(r) /\ Rx!hasPoint(r) => Rx!point(r) \in RingBuffers(r)
         /\ RxLemmas!Distinct(r) =>
              \A k \in DOMAIN Rx!Ready(r) :
                /\ Rx!Ready(r)[k] \in RingBuffers(r)
                /\ Rx!hasPoint(r) => Rx!Ready(r)[k] # Rx!point(r)
<1>1. RxLemmas!WellFormed(r)
  BY RxSame
<1>2. /\ r \in RxLemmas!Ring
      /\ r.emptyIdx \in RxLemmas!Index
      /\ r.fullIdx \in RxLemmas!Index
      /\ r.pointIdx \in RxLemmas!Index
  BY <1>1 DEF RxLemmas!WellFormed, RxLemmas!Ring
<1>3. /\ RxLemmas!Ready(r) \in Seq(Buffer \union {NoBuffer})
      /\ RxLemmas!Queued(r) \in Seq(Buffer \union {NoBuffer})
  BY <1>2, RxLemmas!SegmentIsSeq, ConstantsAssumption DEF RxLemmas!Ready, RxLemmas!Queued
<1>4. ASSUME RxLemmas!Distinct(r), NEW k \in DOMAIN RxLemmas!Ready(r)
      PROVE  /\ RxLemmas!Ready(r)[k] \in RxLemmas!Contents(r)
             /\ RxLemmas!hasPoint(r) => RxLemmas!Ready(r)[k] # RxLemmas!point(r)
  BY <1>1, <1>4, RxLemmas!ReadyContents, ConstantsAssumption
<1>5. RxLemmas!Distinct(r) /\ RxLemmas!hasPoint(r) => RxLemmas!point(r) \in RxLemmas!Contents(r)
  BY <1>1, RxLemmas!PointContents, ConstantsAssumption
<1> QED BY <1>3, <1>4, <1>5, RxSame

TxLemmas == INSTANCE SpecialRing_proofs
  WITH T <- Buffer, Hole <- NoBuffer, Capacity <- TX_CAPACITY, ring <- txRing

\* The operators of both instances are the same.
LEMMA TxSame ==
  ASSUME NEW r, NEW b
  PROVE  /\ TxLemmas!WellFormed(r) <=> Tx!WellFormed(r)
         /\ TxLemmas!canPut(r) <=> Tx!canPut(r)
         /\ TxLemmas!canGet(r) <=> Tx!canGet(r)
         /\ TxLemmas!hasPoint(r) <=> Tx!hasPoint(r)
         /\ TxLemmas!point(r) = Tx!point(r)
         /\ TxLemmas!front(r) = Tx!front(r)
         /\ TxLemmas!put(r, b) = Tx!put(r, b)
         /\ TxLemmas!get(r) = Tx!get(r)
         /\ TxLemmas!advancePoint(r) = Tx!advancePoint(r)
         /\ TxLemmas!Ready(r) = Tx!Ready(r)
         /\ TxLemmas!Queued(r) = Tx!Queued(r)
         /\ TxLemmas!Contents(r) = RingBuffers(r)
<1>1. TxLemmas!WellFormed(r) <=> Tx!WellFormed(r)
  BY DEF TxLemmas!WellFormed, Tx!WellFormed, TxLemmas!Ring, Tx!Ring,
         TxLemmas!InOrder, Tx!InOrder, TxLemmas!FilledExactly, Tx!FilledExactly,
         TxLemmas!Distance, Tx!Distance, TxLemmas!Index, Tx!Index, TxLemmas!Size, Tx!Size
<1>2. /\ TxLemmas!canPut(r) <=> Tx!canPut(r)
      /\ TxLemmas!canGet(r) <=> Tx!canGet(r)
      /\ TxLemmas!hasPoint(r) <=> Tx!hasPoint(r)
      /\ TxLemmas!point(r) = Tx!point(r)
      /\ TxLemmas!front(r) = Tx!front(r)
  BY DEF TxLemmas!canPut, Tx!canPut, TxLemmas!full, Tx!full, TxLemmas!next, Tx!next,
         TxLemmas!Size, Tx!Size, TxLemmas!canGet, Tx!canGet,
         TxLemmas!hasPoint, Tx!hasPoint, TxLemmas!point, Tx!point,
         TxLemmas!front, Tx!front
<1>3. TxLemmas!put(r, b) = Tx!put(r, b)
  BY DEF TxLemmas!put, Tx!put, TxLemmas!full, Tx!full, TxLemmas!next, Tx!next,
         TxLemmas!Size, Tx!Size
<1>4. TxLemmas!get(r) = Tx!get(r)
  BY DEF TxLemmas!get, Tx!get, TxLemmas!next, Tx!next, TxLemmas!Size, Tx!Size
<1>5. TxLemmas!advancePoint(r) = Tx!advancePoint(r)
  BY DEF TxLemmas!advancePoint, Tx!advancePoint, TxLemmas!hasPoint, Tx!hasPoint,
         TxLemmas!next, Tx!next, TxLemmas!Size, Tx!Size
<1>6. /\ TxLemmas!Ready(r) = Tx!Ready(r)
      /\ TxLemmas!Queued(r) = Tx!Queued(r)
  BY DEF TxLemmas!Ready, Tx!Ready, TxLemmas!Queued, Tx!Queued, TxLemmas!Segment, Tx!Segment,
         TxLemmas!Distance, Tx!Distance, TxLemmas!Ahead, Tx!Ahead, TxLemmas!Size, Tx!Size
<1>7. TxLemmas!Contents(r) = RingBuffers(r)
  BY DEF TxLemmas!Contents, RingBuffers
<1> QED BY <1>1, <1>2, <1>3, <1>4, <1>5, <1>6, <1>7

\* put, to the driver.
LEMMA TxPut ==
  ASSUME NEW r, Tx!WellFormed(r), NEW b \in Buffer, Tx!canPut(r)
  PROVE  /\ Tx!WellFormed(Tx!put(r, b))
         /\ Tx!hasPoint(Tx!put(r, b))
         /\ Tx!hasPoint(r) => Tx!point(Tx!put(r, b)) = Tx!point(r)
         /\ Tx!canGet(Tx!put(r, b)) <=> Tx!canGet(r)
<1> DEFINE q == Tx!put(r, b)
<1>1. TxLemmas!WellFormed(r) /\ TxLemmas!canPut(r) /\ TxLemmas!put(r, b) = q
  BY TxSame
<1>2. TxLemmas!WellFormed(q)
  BY <1>1, TxLemmas!PutWellFormed, ConstantsAssumption
<1>3. /\ TxLemmas!hasPoint(q)
      /\ TxLemmas!hasPoint(r) => TxLemmas!point(q) = TxLemmas!point(r)
      /\ TxLemmas!canGet(q) <=> TxLemmas!canGet(r)
  BY <1>1, TxLemmas!PutSeen, ConstantsAssumption
<1> HIDE DEF q
<1>4. /\ Tx!WellFormed(q)
      /\ Tx!hasPoint(q)
      /\ Tx!hasPoint(r) => Tx!point(q) = Tx!point(r)
      /\ Tx!canGet(q) <=> Tx!canGet(r)
  BY <1>2, <1>3, TxSame
<1> QED BY <1>4 DEF q

\* get, to the driver.
LEMMA TxGet ==
  ASSUME NEW r, Tx!WellFormed(r), Tx!canGet(r)
  PROVE  /\ Tx!WellFormed(Tx!get(r))
         /\ Tx!front(r) \in Buffer
         /\ Tx!hasPoint(Tx!get(r)) <=> Tx!hasPoint(r)
         /\ Tx!point(Tx!get(r)) = Tx!point(r)
         /\ Tx!canPut(Tx!get(r))
<1> DEFINE q == Tx!get(r)
<1>1. TxLemmas!WellFormed(r) /\ TxLemmas!canGet(r) /\ TxLemmas!get(r) = q
  BY TxSame
<1>2. TxLemmas!WellFormed(q)
  BY <1>1, TxLemmas!GetWellFormed, ConstantsAssumption
<1>3. /\ TxLemmas!front(r) \in Buffer
      /\ TxLemmas!hasPoint(q) <=> TxLemmas!hasPoint(r)
      /\ TxLemmas!point(q) = TxLemmas!point(r)
      /\ TxLemmas!canPut(q)
  BY <1>1, TxLemmas!GetSeen, ConstantsAssumption
<1> HIDE DEF q
<1>4. /\ Tx!WellFormed(q)
      /\ Tx!front(r) \in Buffer
      /\ Tx!hasPoint(q) <=> Tx!hasPoint(r)
      /\ Tx!point(q) = Tx!point(r)
      /\ Tx!canPut(q)
  BY <1>2, <1>3, TxSame
<1> QED BY <1>4 DEF q

\* advancePoint, to the driver.
LEMMA TxAdvance ==
  ASSUME NEW r, Tx!WellFormed(r), Tx!hasPoint(r)
  PROVE  /\ Tx!WellFormed(Tx!advancePoint(r))
         /\ Tx!point(r) \in Buffer
         /\ Tx!canGet(Tx!advancePoint(r))
         /\ Tx!canPut(Tx!advancePoint(r)) <=> Tx!canPut(r)
<1> DEFINE q == Tx!advancePoint(r)
<1>1. TxLemmas!WellFormed(r) /\ TxLemmas!hasPoint(r) /\ TxLemmas!advancePoint(r) = q
  BY TxSame
<1>2. TxLemmas!WellFormed(q)
  BY <1>1, TxLemmas!AdvanceWellFormed, ConstantsAssumption
<1>3. /\ TxLemmas!point(r) \in Buffer
      /\ TxLemmas!canGet(q)
      /\ TxLemmas!canPut(q) <=> TxLemmas!canPut(r)
  BY <1>1, TxLemmas!AdvanceSeen, ConstantsAssumption
<1> HIDE DEF q
<1>4. /\ Tx!WellFormed(q)
      /\ Tx!point(r) \in Buffer
      /\ Tx!canGet(q)
      /\ Tx!canPut(q) <=> Tx!canPut(r)
  BY <1>2, <1>3, TxSame
<1> QED BY <1>4 DEF q

\* Whose buffers are in the ring, and in what order, before and after a put.
LEMMA TxPutMoves ==
  ASSUME NEW r, Tx!WellFormed(r), TxLemmas!Distinct(r), NEW b \in Buffer, Tx!canPut(r),
         b \notin RingBuffers(r)
  PROVE  /\ RingBuffers(Tx!put(r, b)) = RingBuffers(r) \union {b}
         /\ TxLemmas!Distinct(Tx!put(r, b))
         /\ Len(Tx!Queued(r)) + Len(Tx!Ready(r)) < TX_CAPACITY
         /\ Tx!Queued(Tx!put(r, b)) = Append(Tx!Queued(r), b)
         /\ Tx!Ready(Tx!put(r, b)) = Tx!Ready(r)
<1> DEFINE q == Tx!put(r, b)
<1>1. /\ TxLemmas!WellFormed(r)
      /\ TxLemmas!canPut(r)
      /\ TxLemmas!put(r, b) = q
      /\ b \notin TxLemmas!Contents(r)
  BY TxSame
<1>2. ~TxLemmas!full(r)
  BY <1>1 DEF TxLemmas!canPut
<1> HIDE DEF q
<1>3. /\ TxLemmas!Contents(q) = TxLemmas!Contents(r) \union {b}
      /\ TxLemmas!Distinct(q)
  BY <1>1, TxLemmas!PutContents, ConstantsAssumption
<1>4. /\ Len(TxLemmas!Queued(r)) + Len(TxLemmas!Ready(r)) < TX_CAPACITY
      /\ TxLemmas!Queued(q) = Append(TxLemmas!Queued(r), b)
      /\ TxLemmas!Ready(q) = TxLemmas!Ready(r)
  BY <1>1, <1>2, TxLemmas!PutIsPut, ConstantsAssumption
<1>5. /\ RingBuffers(q) = RingBuffers(r) \union {b}
      /\ Len(Tx!Queued(r)) + Len(Tx!Ready(r)) < TX_CAPACITY
      /\ Tx!Queued(q) = Append(Tx!Queued(r), b)
      /\ Tx!Ready(q) = Tx!Ready(r)
  BY <1>3, <1>4, TxSame
<1> QED BY <1>3, <1>5 DEF q

\* The same for a get.
LEMMA TxGetMoves ==
  ASSUME NEW r, Tx!WellFormed(r), TxLemmas!Distinct(r), Tx!canGet(r)
  PROVE  /\ Tx!front(r) \in RingBuffers(r)
         /\ RingBuffers(Tx!get(r)) = RingBuffers(r) \ {Tx!front(r)}
         /\ TxLemmas!Distinct(Tx!get(r))
         /\ Tx!Ready(r) # << >>
         /\ Tx!Ready(Tx!get(r)) = Tail(Tx!Ready(r))
         /\ Tx!Queued(Tx!get(r)) = Tx!Queued(r)
<1> DEFINE q == Tx!get(r)
<1>1. /\ TxLemmas!WellFormed(r)
      /\ TxLemmas!canGet(r)
      /\ TxLemmas!get(r) = q
  BY TxSame
<1> HIDE DEF q
<1>2. /\ TxLemmas!front(r) \in TxLemmas!Contents(r)
      /\ TxLemmas!Contents(q) = TxLemmas!Contents(r) \ {TxLemmas!front(r)}
      /\ TxLemmas!Distinct(q)
  BY <1>1, TxLemmas!GetContents, ConstantsAssumption
<1>3. /\ TxLemmas!Ready(r) # << >>
      /\ TxLemmas!Ready(q) = Tail(TxLemmas!Ready(r))
      /\ TxLemmas!Queued(q) = TxLemmas!Queued(r)
  BY <1>1, TxLemmas!GetIsGet, ConstantsAssumption
<1>4. /\ Tx!front(r) \in RingBuffers(r)
      /\ RingBuffers(q) = RingBuffers(r) \ {Tx!front(r)}
      /\ Tx!Ready(r) # << >>
      /\ Tx!Ready(q) = Tail(Tx!Ready(r))
      /\ Tx!Queued(q) = Tx!Queued(r)
  BY <1>2, <1>3, TxSame
<1> QED BY <1>2, <1>4 DEF q

\* The same for an advancePoint.
LEMMA TxAdvanceMoves ==
  ASSUME NEW r, Tx!WellFormed(r), TxLemmas!Distinct(r), Tx!hasPoint(r)
  PROVE  /\ RingBuffers(Tx!advancePoint(r)) = RingBuffers(r)
         /\ TxLemmas!Distinct(Tx!advancePoint(r))
         /\ Tx!Queued(r) # << >>
         /\ Tx!Queued(Tx!advancePoint(r)) = Tail(Tx!Queued(r))
         /\ Tx!Ready(Tx!advancePoint(r)) = Append(Tx!Ready(r), Head(Tx!Queued(r)))
         /\ Tx!point(r) = Head(Tx!Queued(r))
<1> DEFINE q == Tx!advancePoint(r)
<1>1. /\ TxLemmas!WellFormed(r)
      /\ TxLemmas!hasPoint(r)
      /\ TxLemmas!advancePoint(r) = q
  BY TxSame
<1> HIDE DEF q
<1>2. q.array = r.array
  BY <1>1, TxLemmas!AdvanceContents, ConstantsAssumption
<1>3. RingBuffers(q) = RingBuffers(r) /\ TxLemmas!Distinct(q)
  BY <1>2 DEF RingBuffers, TxLemmas!Distinct
<1>4. /\ TxLemmas!Queued(r) # << >>
      /\ TxLemmas!Queued(q) = Tail(TxLemmas!Queued(r))
      /\ TxLemmas!Ready(q) = Append(TxLemmas!Ready(r), Head(TxLemmas!Queued(r)))
      /\ TxLemmas!point(r) = Head(TxLemmas!Queued(r))
  BY <1>1, TxLemmas!AdvanceIsFinish, ConstantsAssumption
<1>5. /\ Tx!Queued(r) # << >>
      /\ Tx!Queued(q) = Tail(Tx!Queued(r))
      /\ Tx!Ready(q) = Append(Tx!Ready(r), Head(Tx!Queued(r)))
      /\ Tx!point(r) = Head(Tx!Queued(r))
  BY <1>4, TxSame
<1> QED BY <1>3, <1>5 DEF q

\* The stages of a ring as sequences; a buffer that waits for get is in the
\* ring and not at its point.
LEMMA TxStages ==
  ASSUME NEW r, Tx!WellFormed(r)
  PROVE  /\ Tx!Ready(r) \in Seq(Buffer \union {NoBuffer})
         /\ Tx!Queued(r) \in Seq(Buffer \union {NoBuffer})
         /\ TxLemmas!Distinct(r) /\ Tx!hasPoint(r) => Tx!point(r) \in RingBuffers(r)
         /\ TxLemmas!Distinct(r) =>
              \A k \in DOMAIN Tx!Ready(r) :
                /\ Tx!Ready(r)[k] \in RingBuffers(r)
                /\ Tx!hasPoint(r) => Tx!Ready(r)[k] # Tx!point(r)
<1>1. TxLemmas!WellFormed(r)
  BY TxSame
<1>2. /\ r \in TxLemmas!Ring
      /\ r.emptyIdx \in TxLemmas!Index
      /\ r.fullIdx \in TxLemmas!Index
      /\ r.pointIdx \in TxLemmas!Index
  BY <1>1 DEF TxLemmas!WellFormed, TxLemmas!Ring
<1>3. /\ TxLemmas!Ready(r) \in Seq(Buffer \union {NoBuffer})
      /\ TxLemmas!Queued(r) \in Seq(Buffer \union {NoBuffer})
  BY <1>2, TxLemmas!SegmentIsSeq, ConstantsAssumption DEF TxLemmas!Ready, TxLemmas!Queued
<1>4. ASSUME TxLemmas!Distinct(r), NEW k \in DOMAIN TxLemmas!Ready(r)
      PROVE  /\ TxLemmas!Ready(r)[k] \in TxLemmas!Contents(r)
             /\ TxLemmas!hasPoint(r) => TxLemmas!Ready(r)[k] # TxLemmas!point(r)
  BY <1>1, <1>4, TxLemmas!ReadyContents, ConstantsAssumption
<1>5. TxLemmas!Distinct(r) /\ TxLemmas!hasPoint(r) => TxLemmas!point(r) \in TxLemmas!Contents(r)
  BY <1>1, TxLemmas!PointContents, ConstantsAssumption
<1> QED BY <1>3, <1>4, <1>5, TxSame

-----------------------------------------------------------------------------

(***************************************************************************)
(* The inductive invariant, part 1: who may do what.  The types are those  *)
(* of TypeOK but for the numbers of bytes, which come in part 3.           *)
(***************************************************************************)
ControlTypes ==
  /\ Rx!WellFormed(rxRing)
  /\ Tx!WellFormed(txRing)
  /\ free \subseteq Buffer
  /\ held \subseteq Buffer
  /\ state \in {"STOP", "READY"}
  /\ rx.state \in {"IDLE", "ACTIVE"}
  /\ rx.dma \in Buffer \union {NoBuffer}
  /\ tx \in [state : {"IDLE", "ACTIVE"}, dma : Buffer \union {NoBuffer}]
  /\ pc \in {"boot", "idle", "rxCreate", "rxPut", "rxStart", "txDeallocate", "txStart", "poll"}
  /\ tmp \in Buffer \union {NoBuffer}
  /\ events \subseteq Event
  /\ rxServiced \in {"none", "ok", "fail"}
  /\ fault \in {"none", "rxRing point is null"}

\* What the place of the thread in the driver says about its variables.
Phases ==
  /\ state = "STOP" <=> pc = "boot"
  /\ tmp \in Buffer <=> pc = "rxPut"
  /\ pc \in {"rxCreate", "rxPut"} => "RX_NEEDS_SERVICE" \notin events
  /\ pc = "txDeallocate" => "TX_NEEDS_SERVICE" \notin events

Control ==
  /\ ControlTypes
  /\ Phases
  /\ NoFault
  /\ DmaAtPoint
  /\ PollStaysTrue
  /\ TransmitterNeverStalls
  /\ ReceiverStallsOnlyWithoutBuffers

\* Part 1 holds before the driver starts.
LEMMA ControlInit == Init => Control
<1> SUFFICES ASSUME Init PROVE Control
  OBVIOUS
<1>1. Rx!WellFormed(rxRing) /\ ~Rx!hasPoint(rxRing)
  BY ConstantsAssumption
     DEF Init, Rx!WellFormed, Rx!Ring, Rx!InOrder, Rx!FilledExactly, Rx!Empty, Rx!Distance,
         Rx!Index, Rx!Size, Rx!hasPoint
<1>2. Tx!WellFormed(txRing) /\ ~Tx!hasPoint(txRing)
  BY ConstantsAssumption
     DEF Init, Tx!WellFormed, Tx!Ring, Tx!InOrder, Tx!FilledExactly, Tx!Empty, Tx!Distance,
         Tx!Index, Tx!Size, Tx!hasPoint
<1> QED
  BY <1>1, <1>2, ConstantsAssumption
     DEF Init, Control, ControlTypes, Phases, NoFault, DmaAtPoint, PollStaysTrue,
         TransmitterNeverStalls, ReceiverStallsOnlyWithoutBuffers

\* The client's calls keep part 1.
LEMMA ControlClient ==
  ASSUME Control, Client
  PROVE  Control'
<1> USE ConstantsAssumption
    DEF Control, ControlTypes, Phases, NoFault, DmaAtPoint, PollStaysTrue,
        TransmitterNeverStalls, ReceiverStallsOnlyWithoutBuffers, Event, Goto, pools
<1>1. CASE start
  BY <1>1 DEF start
<1>2. CASE serviceRx
  BY <1>2 DEF serviceRx
<1>3. CASE rxCall
  <2>1. CASE ~Rx!canGet(rxRing)
    BY <1>3, <2>1 DEF rxCall
  <2>2. CASE Rx!canGet(rxRing)
    <3> DEFINE q == Rx!get(rxRing)
               b == Rx!front(rxRing)
    <3>1. /\ Rx!WellFormed(q)
          /\ b \in Buffer
          /\ Rx!hasPoint(q) <=> Rx!hasPoint(rxRing)
          /\ Rx!point(q) = Rx!point(rxRing)
          /\ Rx!canPut(q)
      BY <2>2, RxGet
    <3>2. /\ rxRing' = q
          /\ held' = held \union {b}
          /\ events' = events \ {"RX_READY"}
          /\ UNCHANGED <<txRing, free, state, rx, tx, pc, tmp, rxServiced, fault>>
      BY <1>3, <2>2 DEF rxCall
    <3> HIDE DEF q, b
    <3>3. ControlTypes' /\ Phases'
      BY <3>1, <3>2
    <3>4. NoFault' /\ DmaAtPoint' /\ PollStaysTrue' /\ TransmitterNeverStalls'
      BY <3>1, <3>2
    <3>5. ReceiverStallsOnlyWithoutBuffers'
      BY <3>1, <3>2
    <3> QED BY <3>3, <3>4, <3>5
  <2> QED BY <2>1, <2>2
<1>4. CASE serviceTx
  BY <1>4 DEF serviceTx
<1>5. CASE poll
  BY <1>5 DEF poll
<1>6. ASSUME NEW b \in held, txCall(b)
      PROVE  Control'
  <2>1. CASE ~Tx!canPut(txRing)
    BY <1>6, <2>1 DEF txCall
  <2>2. CASE Tx!canPut(txRing)
    <3> DEFINE q == Tx!put(txRing, b)
    <3>1. /\ Tx!WellFormed(q)
          /\ Tx!hasPoint(q)
          /\ Tx!hasPoint(txRing) => Tx!point(q) = Tx!point(txRing)
          /\ Tx!canGet(q) <=> Tx!canGet(txRing)
      BY <2>2, TxPut
    <3>2. /\ txRing' = q
          /\ held' = held \ {b}
          /\ pc = "idle" /\ pc' = "txStart"
          /\ events' = events \ {"TX_READY"}
          /\ UNCHANGED <<rxRing, free, state, rx, tx, tmp, rxServiced, fault>>
      BY <1>6, <2>2 DEF txCall
    <3> HIDE DEF q
    <3>3. ControlTypes' /\ Phases'
      BY <3>1, <3>2
    <3>4. NoFault' /\ DmaAtPoint' /\ PollStaysTrue' /\ TransmitterNeverStalls'
      BY <3>1, <3>2
    <3>5. ReceiverStallsOnlyWithoutBuffers'
      BY <3>1, <3>2
    <3> QED BY <3>3, <3>4, <3>5
  <2> QED BY <2>1, <2>2
<1>7. ASSUME NEW b \in held, ReleaseBuffer(b)
      PROVE  Control'
  BY <1>7 DEF ReleaseBuffer, Deallocate
<1>8. ASSUME NEW b \in free, NEW n \in 1 .. MaxSize, CreateBuffer(b, n)
      PROVE  Control'
  BY <1>8 DEF CreateBuffer
<1> QED BY <1>1, <1>2, <1>3, <1>4, <1>5, <1>6, <1>7, <1>8 DEF Client

\* The thread keeps it inside the driver.
LEMMA ControlInCall ==
  ASSUME Control, InCall
  PROVE  Control'
<1> USE ConstantsAssumption
    DEF Control, ControlTypes, Phases, NoFault, DmaAtPoint, PollStaysTrue,
        TransmitterNeverStalls, ReceiverStallsOnlyWithoutBuffers, Event, Goto, pools
<1>1. CASE rxCreate
  BY <1>1 DEF rxCreate
<1>2. CASE rxPut
  <2>1. CASE ~Rx!canPut(rxRing)
    BY <1>2, <2>1 DEF rxPut, Deallocate
  <2>2. CASE Rx!canPut(rxRing)
    BY <1>2, <2>2, RxPut DEF rxPut
  <2> QED BY <2>1, <2>2
<1>3. CASE startRx
  BY <1>3, RxAdvance DEF startRx, startRxI, StartReceive
<1>4. CASE deallocateTx
  <2>1. CASE Tx!canGet(txRing)
    BY <1>4, <2>1, TxGet DEF deallocateTx, Deallocate
  <2>2. CASE ~Tx!canGet(txRing)
    BY <1>4, <2>2 DEF deallocateTx
  <2> QED BY <2>1, <2>2
<1>5. CASE startTx
  BY <1>5, TxAdvance DEF startTx, StartSend
<1>6. CASE pollRest
  BY <1>6 DEF pollRest
<1> QED BY <1>1, <1>2, <1>3, <1>4, <1>5, <1>6 DEF InCall

\* The interrupt handlers and the DMA keep it.
LEMMA ControlInterrupt ==
  ASSUME Control, Interrupt \/ RxByte
  PROVE  Control'
<1> USE ConstantsAssumption
    DEF Control, ControlTypes, Phases, NoFault, DmaAtPoint, PollStaysTrue,
        TransmitterNeverStalls, ReceiverStallsOnlyWithoutBuffers, Event, pools, thread
<1>1. ASSUME NEW entry,
             rx.state = "IDLE" => entry = "IDLE",
             rxFinishI(entry)
      PROVE  Control'
  <2> DEFINE q == Rx!advancePoint(rxRing)
             p == Rx!point(rxRing)
             received == size[p] - stopRxI(entry)
  <2>1. CASE rxIsIdle(entry)
    BY <1>1, <2>1 DEF rxFinishI
  <2>2. ASSUME ~rxIsIdle(entry)
        PROVE  rx.state = "ACTIVE" /\ Rx!hasPoint(rxRing) /\ p \in Buffer
    BY <1>1, <2>2, RxAdvance DEF rxIsIdle
  <2>3. CASE ~rxIsIdle(entry) /\ received = 0
    <3>1. /\ rx' = [state |-> "ACTIVE", dma |-> p, left |-> size[p]]
          /\ UNCHANGED <<rxRing, txRing, free, held, state, tx, tmp, pc, events, rxServiced, fault>>
      BY <1>1, <2>2, <2>3 DEF rxFinishI, startRxI, StartReceive
    <3>2. rx'.state = "ACTIVE" /\ rx'.dma = p
      BY <3>1
    <3> QED BY <2>2, <2>3, <3>1, <3>2
  <2>4. CASE ~rxIsIdle(entry) /\ received # 0
    <3>1. /\ Rx!WellFormed(q)
          /\ Rx!canGet(q)
          /\ Rx!canPut(q) <=> Rx!canPut(rxRing)
          /\ Rx!hasPoint(q) => Rx!point(q) \in Buffer
      BY <2>2, <2>4, RxAdvance
    <3>2. /\ rxRing' = q
          /\ rxContinue(q)
          /\ UNCHANGED <<txRing, free, held, state, tx, tmp, pc, events, rxServiced, fault>>
      BY <1>1, <2>2, <2>4 DEF rxFinishI
    <3> HIDE DEF q
    <3>3. \/ Rx!hasPoint(q) /\ rx'.state = "ACTIVE" /\ rx'.dma = Rx!point(q)
          \/ ~Rx!hasPoint(q) /\ rx'.state = "IDLE" /\ rx'.dma = NoBuffer
      BY <3>2 DEF rxContinue, startRxI, StartReceive
    <3> HIDE DEF p, received
    <3>4. ControlTypes' /\ Phases'
      BY <3>1, <3>2, <3>3
    <3>5. NoFault' /\ DmaAtPoint' /\ PollStaysTrue' /\ TransmitterNeverStalls'
      BY <3>1, <3>2, <3>3
    <3>6. ReceiverStallsOnlyWithoutBuffers'
      BY <3>1, <3>2, <3>3
    <3> QED BY <3>4, <3>5, <3>6
  <2> QED BY <2>1, <2>3, <2>4
<1>2. CASE rxEndI
  <2>1. rx.state # "IDLE" /\ rxFinishI("COMPLETE")
    BY <1>2 DEF rxEndI
  <2> QED BY <1>1, <2>1
<1>3. CASE rxIdleI
  BY <1>1, <1>3 DEF rxIdleI
<1>4. ASSUME NEW flags \in SUBSET {"BREAK", "OTHER"}, rxErrorI(flags)
      PROVE  Control'
  <2>1. CASE flags \ {"BREAK"} = {}
    <3>1. UNCHANGED vars
      BY <1>4, <2>1 DEF rxErrorI
    <3>2. UNCHANGED <<rxRing, txRing, free, held, state, rx, tx, pc, tmp, events, rxServiced, fault>>
      BY <3>1 DEF vars
    <3> QED BY <3>2
  <2>2. CASE flags \ {"BREAK"} # {}
    BY <1>1, <1>4, <2>2 DEF rxErrorI
  <2> QED BY <2>1, <2>2
<1>5. CASE txFinishI
  BY <1>5, TxAdvance DEF txFinishI, txContinue, StartSend
<1>6. CASE RxByte
  BY <1>6 DEF RxByte
<1> QED BY <1>2, <1>3, <1>4, <1>5, <1>6 DEF Interrupt

-----------------------------------------------------------------------------

(***************************************************************************)
(* The inductive invariant, part 2: who owns which buffer.                 *)
(***************************************************************************)
Local == {tmp} \ {NoBuffer}

Owned(f, h, l, r, t) ==
  /\ Buffer = f \union h \union l \union r \union t
  /\ f \cap h = {} /\ f \cap l = {} /\ f \cap r = {} /\ f \cap t = {}
  /\ h \cap l = {} /\ h \cap r = {} /\ h \cap t = {}
  /\ l \cap r = {} /\ l \cap t = {}
  /\ r \cap t = {}

Ownership ==
  /\ Owned(free, held, Local, RingBuffers(rxRing), RingBuffers(txRing))
  /\ RxLemmas!Distinct(rxRing)
  /\ TxLemmas!Distinct(txRing)

\* It is what BuffersConserved says, without the tuple.
LEMMA OwnedIsConserved ==
  ASSUME Owned(free, held, Local, RingBuffers(rxRing), RingBuffers(txRing))
  PROVE  BuffersConserved
<1> DEFINE R == RingBuffers(rxRing)
           X == RingBuffers(txRing)
           o == <<free, held, Local, R, X>>
<1>1. \A i \in 1 .. 5 : i = 1 \/ i = 2 \/ i = 3 \/ i = 4 \/ i = 5
  OBVIOUS
<1>2. o[1] = free /\ o[2] = held /\ o[3] = Local /\ o[4] = R /\ o[5] = X
  OBVIOUS
<1>3. Owned(o[1], o[2], o[3], o[4], o[5])
  BY <1>2
<1>4. UNION {o[i] : i \in 1 .. 5} = o[1] \union o[2] \union o[3] \union o[4] \union o[5]
  <2> HIDE DEF o
  <2> QED BY <1>1
<1>5. \A i, j \in 1 .. 5 : i # j => o[i] \cap o[j] = {}
  <2> HIDE DEF o
  <2> QED BY <1>1, <1>3 DEF Owned
<1>6. Buffer = UNION {o[i] : i \in 1 .. 5}
  BY <1>3, <1>4 DEF Owned
<1> QED BY <1>5, <1>6 DEF BuffersConserved, Local

\* Part 2 holds before the driver starts: all buffers are in the pool.
LEMMA OwnershipInit == Init => Ownership
<1> SUFFICES ASSUME Init PROVE Ownership
  OBVIOUS
<1>1. RingBuffers(rxRing) = {} /\ RxLemmas!Distinct(rxRing)
  BY DEF Init, Rx!Empty, Rx!Index, RingBuffers, RxLemmas!Distinct, RxLemmas!Index
<1>2. RingBuffers(txRing) = {} /\ TxLemmas!Distinct(txRing)
  BY DEF Init, Tx!Empty, Tx!Index, RingBuffers, TxLemmas!Distinct, TxLemmas!Index
<1> QED BY <1>1, <1>2 DEF Init, Ownership, Owned, Local

\* The client's calls keep part 2.
LEMMA OwnershipClient ==
  ASSUME Control, Ownership, Client
  PROVE  Ownership'
<1> USE DEF Ownership, Owned, Goto, pools
<1>0. /\ Rx!WellFormed(rxRing)
      /\ Tx!WellFormed(txRing)
      /\ pc = "idle" => tmp \notin Buffer
      /\ tmp \in Buffer \union {NoBuffer}
  BY DEF Control, ControlTypes, Phases
<1>1. CASE start \/ serviceRx \/ serviceTx \/ poll
  <2>1. UNCHANGED <<rxRing, txRing, free, held, tmp>>
    BY <1>1 DEF start, serviceRx, serviceTx, poll
  <2> QED BY <2>1 DEF Local
<1>2. CASE rxCall
  <2>1. CASE ~Rx!canGet(rxRing)
    BY <1>2, <2>1 DEF rxCall, Local
  <2>2. CASE Rx!canGet(rxRing)
    <3> DEFINE q == Rx!get(rxRing)
               b == Rx!front(rxRing)
    <3>1. /\ b \in RingBuffers(rxRing)
          /\ RingBuffers(q) = RingBuffers(rxRing) \ {b}
          /\ RxLemmas!Distinct(q)
      BY <1>0, <2>2, RxGetMoves
    <3>2. /\ rxRing' = q
          /\ held' = held \union {b}
          /\ UNCHANGED <<txRing, free, tmp>>
      BY <1>2, <2>2 DEF rxCall
    <3> HIDE DEF q, b
    <3> QED BY <3>1, <3>2 DEF Local
  <2> QED BY <2>1, <2>2
<1>3. ASSUME NEW b \in held, txCall(b)
      PROVE  Ownership'
  <2>1. CASE ~Tx!canPut(txRing)
    BY <1>3, <2>1 DEF txCall, Local
  <2>2. CASE Tx!canPut(txRing)
    <3> DEFINE q == Tx!put(txRing, b)
    <3>1. /\ RingBuffers(q) = RingBuffers(txRing) \union {b}
          /\ TxLemmas!Distinct(q)
      BY <1>0, <2>2, TxPutMoves
    <3>2. /\ txRing' = q
          /\ held' = held \ {b}
          /\ UNCHANGED <<rxRing, free, tmp>>
      BY <1>3, <2>2 DEF txCall
    <3> HIDE DEF q
    <3> QED BY <3>1, <3>2 DEF Local
  <2> QED BY <2>1, <2>2
<1>4. ASSUME NEW b \in held, ReleaseBuffer(b)
      PROVE  Ownership'
  BY <1>4 DEF ReleaseBuffer, Deallocate, Local
<1>5. ASSUME NEW b \in free, NEW n \in 1 .. MaxSize, CreateBuffer(b, n)
      PROVE  Ownership'
  BY <1>5 DEF CreateBuffer, Local
<1> QED BY <1>1, <1>2, <1>3, <1>4, <1>5 DEF Client

\* So does the thread inside a call: a new buffer goes from the pool to the
\* thread to the receive ring or back, a sent one from its ring to the pool.
LEMMA OwnershipInCall ==
  ASSUME Control, Ownership, InCall
  PROVE  Ownership'
<1> USE DEF Ownership, Owned, Goto, pools
<1>0. /\ Rx!WellFormed(rxRing)
      /\ Tx!WellFormed(txRing)
      /\ pc # "rxPut" => tmp = NoBuffer
      /\ pc = "rxPut" => tmp \in Buffer
      /\ NoBuffer \notin Buffer
  BY ConstantsAssumption DEF Control, ControlTypes, Phases
<1>1. CASE rxCreate
  <2>1. CASE free = {}
    BY <1>0, <1>1, <2>1 DEF rxCreate, Local
  <2>2. ASSUME NEW b \in free,
               free' = free \ {b},
               tmp' = b,
               UNCHANGED <<rxRing, txRing, held>>
        PROVE  Ownership'
    <3>1. Local = {}
      BY <1>0, <1>1 DEF rxCreate, Local
    <3>2. Local' = {b}
      BY <1>0, <2>2 DEF Local
    <3> QED BY <2>2, <3>1, <3>2
  <2> QED BY <1>1, <2>1, <2>2 DEF rxCreate, Local
<1>2. CASE rxPut
  <2>1. tmp \in Buffer /\ Local = {tmp} /\ Local' = {}
    BY <1>0, <1>2 DEF rxPut, Local
  <2>2. CASE ~Rx!canPut(rxRing)
    BY <1>2, <2>1, <2>2 DEF rxPut, Deallocate
  <2>3. CASE Rx!canPut(rxRing)
    <3> DEFINE q == Rx!put(rxRing, tmp)
    <3>1. /\ RingBuffers(q) = RingBuffers(rxRing) \union {tmp}
          /\ RxLemmas!Distinct(q)
      BY <1>0, <2>1, <2>3, RxPutMoves
    <3>2. rxRing' = q /\ UNCHANGED <<txRing, free, held>>
      BY <1>2, <2>3 DEF rxPut
    <3> HIDE DEF q
    <3> QED BY <2>1, <3>1, <3>2
  <2> QED BY <2>2, <2>3
<1>3. CASE startRx \/ startTx \/ pollRest
  <2>1. UNCHANGED <<rxRing, txRing, free, held, tmp>>
    BY <1>3 DEF startRx, startTx, pollRest
  <2> QED BY <2>1 DEF Local
<1>4. CASE deallocateTx
  <2>1. CASE ~Tx!canGet(txRing)
    BY <1>4, <2>1 DEF deallocateTx, Local
  <2>2. CASE Tx!canGet(txRing)
    <3> DEFINE q == Tx!get(txRing)
               b == Tx!front(txRing)
    <3>1. /\ b \in RingBuffers(txRing)
          /\ RingBuffers(q) = RingBuffers(txRing) \ {b}
          /\ TxLemmas!Distinct(q)
      BY <1>0, <2>2, TxGetMoves
    <3>2. /\ txRing' = q
          /\ free' = free \union {b}
          /\ UNCHANGED <<rxRing, held, tmp>>
      BY <1>4, <2>2 DEF deallocateTx, Deallocate
    <3> HIDE DEF q, b
    <3> QED BY <3>1, <3>2 DEF Local
  <2> QED BY <2>1, <2>2
<1> QED BY <1>1, <1>2, <1>3, <1>4 DEF InCall

\* The interrupt handlers and the DMA move no buffer in or out of a ring.
LEMMA OwnershipInterrupt ==
  ASSUME Control, Ownership, Interrupt \/ RxByte
  PROVE  Ownership'
<1> USE DEF Ownership, Owned, pools
<1>0. Rx!WellFormed(rxRing) /\ Tx!WellFormed(txRing)
  BY DEF Control, ControlTypes
<1>1. ASSUME RingBuffers(rxRing') = RingBuffers(rxRing),
             RingBuffers(txRing') = RingBuffers(txRing),
             RxLemmas!Distinct(rxRing'),
             TxLemmas!Distinct(txRing'),
             UNCHANGED <<free, held, tmp>>
      PROVE  Ownership'
  BY <1>1 DEF Local
<1>2. ASSUME NEW entry, rxFinishI(entry)
      PROVE  Ownership'
  <2>1. CASE rxRing' = rxRing
    BY <1>1, <1>2, <2>1 DEF rxFinishI
  <2>2. CASE rxRing' # rxRing
    <3>1. Rx!hasPoint(rxRing) /\ rxRing' = Rx!advancePoint(rxRing)
      BY <1>2, <2>2 DEF rxFinishI
    <3>2. RingBuffers(rxRing') = RingBuffers(rxRing) /\ RxLemmas!Distinct(rxRing')
      BY <1>0, <3>1, RxAdvanceMoves
    <3> QED BY <1>1, <1>2, <3>2 DEF rxFinishI
  <2> QED BY <2>1, <2>2
<1>3. CASE rxEndI
  BY <1>2, <1>3 DEF rxEndI
<1>4. CASE rxIdleI
  BY <1>2, <1>4 DEF rxIdleI
<1>5. ASSUME NEW flags \in SUBSET {"BREAK", "OTHER"}, rxErrorI(flags)
      PROVE  Ownership'
  <2>1. CASE UNCHANGED vars
    BY <1>1, <2>1 DEF vars
  <2>2. CASE rxFinishI(rx.state)
    BY <1>2, <2>2
  <2> QED BY <1>5, <2>1, <2>2 DEF rxErrorI
<1>6. CASE txFinishI
  <2>1. Tx!hasPoint(txRing) /\ txRing' = Tx!advancePoint(txRing)
    BY <1>6 DEF txFinishI, Control, DmaAtPoint
  <2>2. RingBuffers(txRing') = RingBuffers(txRing) /\ TxLemmas!Distinct(txRing')
    BY <1>0, <2>1, TxAdvanceMoves
  <2> QED BY <1>1, <1>6, <2>2 DEF txFinishI
<1>7. CASE RxByte
  BY <1>1, <1>7 DEF RxByte
<1> QED BY <1>3, <1>4, <1>5, <1>6, <1>7 DEF Interrupt

-----------------------------------------------------------------------------

(***************************************************************************)
(* The inductive invariant, part 3: the numbers of bytes.                  *)
(***************************************************************************)
SizeTypes ==
  /\ size \in [Buffer -> 0 .. MaxSize]
  /\ stored \in [Buffer -> 0 .. MaxSize]
  /\ rx \in [state : {"IDLE", "ACTIVE"}, dma : Buffer \union {NoBuffer}, left : 0 .. MaxSize]

\* The DMA counts down from the size of its buffer.
Counted == rx.state = "ACTIVE" => stored[rx.dma] + rx.left = size[rx.dma]

Delivered(r, s, n) ==
  \A k \in DOMAIN Rx!Ready(r) : s[Rx!Ready(r)[k]] = n[Rx!Ready(r)[k]] /\ s[Rx!Ready(r)[k]] > 0

Sizes == SizeTypes /\ Counted /\ Delivered(rxRing, size, stored)

\* What may change without a change to what is ready: the bytes of the buffer
\* at the point and of all buffers outside the ring.
LEMMA DeliveredKept ==
  ASSUME NEW r, Rx!WellFormed(r), RxLemmas!Distinct(r),
         NEW s, NEW n, Delivered(r, s, n), NEW s1, NEW n1,
         \A b \in RingBuffers(r) :
           (Rx!hasPoint(r) => b # Rx!point(r)) => s1[b] = s[b] /\ n1[b] = n[b]
  PROVE  Delivered(r, s1, n1)
BY RxStages DEF Delivered

\* One of the two ways the stage of the ready buffers changes.
LEMMA DeliveredAfterGet ==
  ASSUME NEW r, Rx!WellFormed(r), RxLemmas!Distinct(r), Rx!canGet(r),
         NEW s, NEW n, Delivered(r, s, n)
  PROVE  Delivered(Rx!get(r), s, n)
<1> DEFINE q == Rx!get(r)
           u == Rx!Ready(r)
<1>1. u \in Seq(Buffer \union {NoBuffer}) /\ u # << >> /\ Rx!Ready(q) = Tail(u)
  BY RxStages, RxGetMoves
<1>2. \A k \in DOMAIN u : s[u[k]] = n[u[k]] /\ s[u[k]] > 0
  BY DEF Delivered
<1> HIDE DEF q, u
<1>3. \A k \in DOMAIN Tail(u) : k + 1 \in DOMAIN u /\ Tail(u)[k] = u[k + 1]
  BY <1>1
<1> QED BY <1>1, <1>2, <1>3 DEF Delivered, q

\* The other one: the point moves past a buffer that is as long as its bytes.
LEMMA DeliveredAfterAdvance ==
  ASSUME NEW r, Rx!WellFormed(r), RxLemmas!Distinct(r), Rx!hasPoint(r),
         NEW s, NEW n, Delivered(r, s, n),
         s[Rx!point(r)] = n[Rx!point(r)], s[Rx!point(r)] > 0
  PROVE  Delivered(Rx!advancePoint(r), s, n)
<1> DEFINE q == Rx!advancePoint(r)
           u == Rx!Ready(r)
           b == Rx!point(r)
<1>1. u \in Seq(Buffer \union {NoBuffer}) /\ Rx!Ready(q) = Append(u, b)
  BY RxStages, RxAdvanceMoves
<1>2. \A k \in DOMAIN u : s[u[k]] = n[u[k]] /\ s[u[k]] > 0
  BY DEF Delivered
<1> HIDE DEF q, u, b
<1>3. \A k \in DOMAIN Append(u, b) :
        \/ k \in DOMAIN u /\ Append(u, b)[k] = u[k]
        \/ Append(u, b)[k] = b
  BY <1>1
<1> QED BY <1>1, <1>2, <1>3 DEF Delivered, q, b

\* Part 3 holds before the driver starts.
LEMMA SizesInit == Init => Sizes
<1> SUFFICES ASSUME Init PROVE Sizes
  OBVIOUS
<1>1. SizeTypes /\ Counted
  BY ConstantsAssumption DEF Init, SizeTypes, Counted
<1>2. ~Rx!canGet(rxRing) /\ rxRing.fullIdx = 0 /\ rxRing.pointIdx = 0
  BY DEF Init, Rx!Empty, Rx!canGet
<1>3. DOMAIN Rx!Ready(rxRing) = 1 .. 0
  BY <1>2 DEF Rx!Ready, Rx!Segment, Rx!Distance
<1> QED BY <1>1, <1>3 DEF Sizes, Delivered

\* What parts 1 and 2 say about the receive ring.
LEMMA RxKnown ==
  ASSUME Control, Ownership
  PROVE  /\ Rx!WellFormed(rxRing)
         /\ RxLemmas!Distinct(rxRing)
         /\ Rx!hasPoint(rxRing) => Rx!point(rxRing) \in RingBuffers(rxRing)
         /\ RingBuffers(rxRing) \subseteq Buffer
<1>1. Rx!WellFormed(rxRing) /\ RxLemmas!Distinct(rxRing)
  BY DEF Control, ControlTypes, Ownership
<1>2. RingBuffers(rxRing) \subseteq Buffer
  BY DEF Ownership, Owned
<1> QED BY <1>1, <1>2, RxStages

\* Sizes a buffer can have.
LEMMA ZeroIsSize == 0 \in 0 .. MaxSize /\ MaxSize \in 0 .. MaxSize /\ 1 .. MaxSize \subseteq 0 .. MaxSize
BY ConstantsAssumption

\* The bytes of one buffer may be set to any number a buffer can hold.
LEMMA SizeTypesKept ==
  ASSUME SizeTypes, NEW b, NEW n \in 0 .. MaxSize, NEW m \in 0 .. MaxSize,
         size' = size \/ size' = [size EXCEPT ![b] = n],
         stored' = stored \/ stored' = [stored EXCEPT ![b] = m],
         UNCHANGED rx
  PROVE  SizeTypes'
<1>1. size' \in [Buffer -> 0 .. MaxSize]
  BY DEF SizeTypes
<1>2. stored' \in [Buffer -> 0 .. MaxSize]
  BY DEF SizeTypes
<1> QED BY <1>1, <1>2 DEF SizeTypes

\* The bytes of a buffer outside the receive ring are nobody's concern here.
LEMMA SizesElsewhere ==
  ASSUME Control, Ownership, Sizes,
         UNCHANGED <<rxRing, rx>>,
         SizeTypes',
         \A b \in RingBuffers(rxRing) : size'[b] = size[b] /\ stored'[b] = stored[b]
  PROVE  Sizes'
<1>1. Delivered(rxRing, size, stored)
  BY DEF Sizes
<1>2. Delivered(rxRing, size', stored')
  BY <1>1, DeliveredKept, RxKnown
<1>3. Counted'
  BY RxKnown DEF Sizes, Counted, Control, DmaAtPoint
<1> QED BY <1>2, <1>3 DEF Sizes

\* The client's calls keep part 3.
LEMMA SizesClient ==
  ASSUME Control, Ownership, Sizes, Client
  PROVE  Sizes'
<1> USE ConstantsAssumption
<1>1. CASE start \/ serviceRx \/ serviceTx \/ poll \/ \E b \in held : txCall(b)
  <2>1. UNCHANGED <<rxRing, rx, size, stored>>
    BY <1>1 DEF start, serviceRx, serviceTx, poll, txCall, pools
  <2> QED BY <2>1, SizesElsewhere DEF Sizes, SizeTypes
<1>2. CASE rxCall
  <2>1. UNCHANGED <<rx, size, stored>>
    BY <1>2 DEF rxCall
  <2>2. Delivered(rxRing', size, stored)
    <3>1. CASE Rx!canGet(rxRing)
      <4>1. rxRing' = Rx!get(rxRing)
        BY <1>2, <3>1 DEF rxCall
      <4>2. Delivered(rxRing, size, stored)
        BY DEF Sizes
      <4> QED BY <3>1, <4>1, <4>2, DeliveredAfterGet, RxKnown
    <3>2. CASE ~Rx!canGet(rxRing)
      BY <1>2, <3>2 DEF rxCall, Sizes
    <3> QED BY <3>1, <3>2
  <2> QED BY <2>1, <2>2 DEF Sizes, SizeTypes, Counted
<1>3. ASSUME NEW b \in held, ReleaseBuffer(b)
      PROVE  Sizes'
  <2>1. b \notin RingBuffers(rxRing)
    BY DEF Ownership, Owned
  <2>2. /\ UNCHANGED <<rxRing, rx>>
        /\ size' = [size EXCEPT ![b] = 0]
        /\ stored' = [stored EXCEPT ![b] = 0]
    BY <1>3 DEF ReleaseBuffer, Deallocate
  <2>3. SizeTypes'
    BY <2>2, SizeTypesKept, ZeroIsSize DEF Sizes
  <2>4. \A c \in RingBuffers(rxRing) : size'[c] = size[c] /\ stored'[c] = stored[c]
    BY <2>1, <2>2 DEF Sizes, SizeTypes
  <2> QED BY <2>2, <2>3, <2>4, SizesElsewhere
<1>4. ASSUME NEW b \in free, NEW n \in 1 .. MaxSize, CreateBuffer(b, n)
      PROVE  Sizes'
  <2>1. b \notin RingBuffers(rxRing)
    BY DEF Ownership, Owned
  <2>2. /\ UNCHANGED <<rxRing, rx>>
        /\ size' = [size EXCEPT ![b] = n]
        /\ stored' = stored
    BY <1>4 DEF CreateBuffer
  <2>3. SizeTypes'
    BY <2>2, SizeTypesKept, ZeroIsSize DEF Sizes
  <2>4. \A c \in RingBuffers(rxRing) : size'[c] = size[c] /\ stored'[c] = stored[c]
    BY <2>1, <2>2 DEF Sizes, SizeTypes
  <2> QED BY <2>2, <2>3, <2>4, SizesElsewhere
<1> QED BY <1>1, <1>2, <1>3, <1>4 DEF Client

\* So does the thread inside a call.
LEMMA SizesInCall ==
  ASSUME Control, Ownership, Sizes, InCall
  PROVE  Sizes'
<1> USE ConstantsAssumption
<1>1. CASE rxCreate
  <2>1. CASE free = {}
    <3>1. UNCHANGED <<rxRing, rx, size, stored>>
      BY <1>1, <2>1 DEF rxCreate, pools
    <3> QED BY <3>1, SizesElsewhere DEF Sizes, SizeTypes
  <2>2. ASSUME NEW b \in free,
               size' = [size EXCEPT ![b] = MaxSize],
               UNCHANGED <<rxRing, rx, stored>>
        PROVE  Sizes'
    <3>1. b \notin RingBuffers(rxRing)
      BY DEF Ownership, Owned
    <3>2. SizeTypes'
      BY <2>2, SizeTypesKept, ZeroIsSize DEF Sizes
    <3>3. \A c \in RingBuffers(rxRing) : size'[c] = size[c] /\ stored'[c] = stored[c]
      BY <2>2, <3>1 DEF Sizes, SizeTypes
    <3> QED BY <2>2, <3>2, <3>3, SizesElsewhere
  <2> QED BY <1>1, <2>1, <2>2 DEF rxCreate, pools, Sizes, SizeTypes
<1>2. CASE rxPut
  <2>1. tmp \in Buffer /\ tmp \notin RingBuffers(rxRing)
    BY <1>2 DEF rxPut, Goto, Control, ControlTypes, Phases, Ownership, Owned, Local
  <2>2. CASE Rx!canPut(rxRing)
    <3>1. rxRing' = Rx!put(rxRing, tmp) /\ UNCHANGED <<rx, size, stored>>
      BY <1>2, <2>2 DEF rxPut
    <3>2. Rx!Ready(rxRing') = Rx!Ready(rxRing)
      BY <2>1, <2>2, <3>1, RxPutMoves DEF Control, ControlTypes, Ownership
    <3> QED BY <3>1, <3>2 DEF Sizes, SizeTypes, Counted, Delivered
  <2>3. CASE ~Rx!canPut(rxRing)
    <3>1. /\ UNCHANGED <<rxRing, rx>>
          /\ size' = [size EXCEPT ![tmp] = 0]
          /\ stored' = [stored EXCEPT ![tmp] = 0]
      BY <1>2, <2>3 DEF rxPut, Deallocate
    <3>2. SizeTypes'
      BY <3>1, SizeTypesKept, ZeroIsSize DEF Sizes
    <3>3. \A c \in RingBuffers(rxRing) : size'[c] = size[c] /\ stored'[c] = stored[c]
      BY <2>1, <3>1 DEF Sizes, SizeTypes
    <3> QED BY <3>1, <3>2, <3>3, SizesElsewhere
  <2> QED BY <2>2, <2>3
<1>3. CASE startRx
  <2>1. CASE UNCHANGED <<rx, stored>>
    BY <1>3, <2>1, SizesElsewhere DEF startRx, Sizes, SizeTypes
  <2>2. CASE Rx!hasPoint(rxRing) /\ startRxI(rxRing)
    <3> DEFINE p == Rx!point(rxRing)
    <3>1. p \in Buffer
      BY <2>2, RxAdvance DEF Control, ControlTypes
    <3>2. /\ UNCHANGED <<rxRing, size>>
          /\ rx' = [state |-> "ACTIVE", dma |-> p, left |-> size[p]]
          /\ stored' = [stored EXCEPT ![p] = 0]
      BY <1>3, <2>2 DEF startRx, startRxI, StartReceive
    <3>3. \A b \in RingBuffers(rxRing) : b # p => size'[b] = size[b] /\ stored'[b] = stored[b]
      BY <3>2 DEF Sizes, SizeTypes
    <3>4. Delivered(rxRing, size', stored')
      <4>1. Delivered(rxRing, size, stored)
        BY DEF Sizes
      <4> QED BY <2>2, <3>3, <4>1, DeliveredKept, RxKnown
    <3>5. SizeTypes' /\ Counted'
      BY <3>1, <3>2 DEF Sizes, SizeTypes, Counted
    <3> QED BY <3>2, <3>4, <3>5 DEF Sizes
  <2> QED BY <1>3, <2>1, <2>2 DEF startRx
<1>4. CASE deallocateTx
  <2>1. CASE ~Tx!canGet(txRing)
    <3>1. UNCHANGED <<rxRing, rx, size, stored>>
      BY <1>4, <2>1 DEF deallocateTx
    <3> QED BY <3>1, SizesElsewhere DEF Sizes, SizeTypes
  <2>2. CASE Tx!canGet(txRing)
    <3> DEFINE b == Tx!front(txRing)
    <3>1. b \notin RingBuffers(rxRing)
      BY <2>2, TxGetMoves DEF Ownership, Owned, Control, ControlTypes
    <3>2. /\ UNCHANGED <<rxRing, rx>>
          /\ size' = [size EXCEPT ![b] = 0]
          /\ stored' = [stored EXCEPT ![b] = 0]
      BY <1>4, <2>2 DEF deallocateTx, Deallocate
    <3>3. SizeTypes'
      BY <3>2, SizeTypesKept, ZeroIsSize DEF Sizes
    <3>4. \A c \in RingBuffers(rxRing) : size'[c] = size[c] /\ stored'[c] = stored[c]
      BY <3>1, <3>2 DEF Sizes, SizeTypes
    <3> QED BY <3>2, <3>3, <3>4, SizesElsewhere
  <2> QED BY <2>1, <2>2
<1>5. CASE startTx \/ pollRest
  <2>1. UNCHANGED <<rxRing, rx, size, stored>>
    BY <1>5 DEF startTx, pollRest, pools
  <2> QED BY <2>1, SizesElsewhere DEF Sizes, SizeTypes
<1> QED BY <1>1, <1>2, <1>3, <1>4, <1>5 DEF InCall

\* The start of a reception into the buffer at the point.
LEMMA SizesStart ==
  ASSUME NEW q, Rx!WellFormed(q), RxLemmas!Distinct(q), Rx!hasPoint(q),
         size' \in [Buffer -> 0 .. MaxSize],
         stored \in [Buffer -> 0 .. MaxSize],
         Delivered(q, size', stored),
         rxRing' = q,
         StartReceive(Rx!point(q), size'[Rx!point(q)])
  PROVE  Sizes'
<1> DEFINE p == Rx!point(q)
<1>1. p \in Buffer
  BY RxAdvance
<1>2. /\ rx' = [state |-> "ACTIVE", dma |-> p, left |-> size'[p]]
      /\ stored' = [stored EXCEPT ![p] = 0]
  BY DEF StartReceive
<1>3. \A b \in RingBuffers(q) : b # p => size'[b] = size'[b] /\ stored'[b] = stored[b]
  BY <1>2
<1>4. Delivered(q, size', stored')
  BY <1>3, DeliveredKept
<1> HIDE DEF p
<1>5. SizeTypes' /\ Counted'
  BY <1>1, <1>2, ConstantsAssumption DEF SizeTypes, Counted
<1> QED BY <1>4, <1>5 DEF Sizes

\* The interrupt handlers and the DMA keep part 3: a buffer becomes ready with
\* the size that the DMA has counted.
LEMMA SizesInterrupt ==
  ASSUME Control, Ownership, Sizes, Interrupt \/ RxByte
  PROVE  Sizes'
<1> USE ConstantsAssumption
<1>0. /\ size \in [Buffer -> 0 .. MaxSize]
      /\ stored \in [Buffer -> 0 .. MaxSize]
      /\ rx \in [state : {"IDLE", "ACTIVE"}, dma : Buffer \union {NoBuffer}, left : 0 .. MaxSize]
      /\ Delivered(rxRing, size, stored)
  BY DEF Sizes, SizeTypes
<1>1. ASSUME NEW entry \in {"IDLE", "ACTIVE", "COMPLETE"},
             rx.state = "IDLE" => entry = "IDLE",
             entry = "COMPLETE" => rx.left = 0,
             rxFinishI(entry)
      PROVE  Sizes'
  <2> DEFINE q == Rx!advancePoint(rxRing)
             p == Rx!point(rxRing)
             received == size[p] - stopRxI(entry)
  <2>1. CASE rxIsIdle(entry)
    <3>1. UNCHANGED <<rxRing, rx, size, stored>>
      BY <1>1, <2>1 DEF rxFinishI
    <3> QED BY <3>1, SizesElsewhere DEF Sizes, SizeTypes
  <2>2. CASE ~rxIsIdle(entry)
    <3>1. rx.state = "ACTIVE" /\ Rx!hasPoint(rxRing) /\ rx.dma = p
      BY <1>0, <1>1, <2>2 DEF rxIsIdle, Control, DmaAtPoint
    <3>2. p \in Buffer
      BY <3>1, RxKnown
    <3>3. received = stored[p] /\ stored[p] \in 0 .. MaxSize
      <4>1. stopRxI(entry) = rx.left
        BY <1>1, <2>2 DEF stopRxI, rxIsIdle
      <4>2. stored[p] + rx.left = size[p]
        BY <3>1 DEF Sizes, Counted
      <4>3. stored[p] \in 0 .. MaxSize /\ rx.left \in 0 .. MaxSize /\ size[p] \in 0 .. MaxSize
        BY <1>0, <3>2
      <4> HIDE DEF p
      <4> QED BY <4>1, <4>2, <4>3
    <3>4. CASE received = 0
      <4>1. /\ UNCHANGED <<rxRing, size>>
            /\ StartReceive(p, size[p])
        BY <1>1, <2>2, <3>1, <3>4 DEF rxFinishI, startRxI
      <4> QED BY <1>0, <3>1, <4>1, RxKnown, SizesStart
    <3>5. CASE received # 0
      <4>1. /\ size' = [size EXCEPT ![p] = stored[p]]
            /\ rxRing' = q
            /\ rxContinue(q)
        BY <1>1, <2>2, <3>1, <3>3, <3>5 DEF rxFinishI, Resize
      <4>2. size' \in [Buffer -> 0 .. MaxSize] /\ size'[p] = stored[p] /\ stored[p] > 0
        BY <1>0, <3>2, <3>3, <3>5, <4>1
      <4>3. Delivered(rxRing, size', stored)
        <5>1. \A b \in RingBuffers(rxRing) :
                (Rx!hasPoint(rxRing) => b # Rx!point(rxRing))
                  => size'[b] = size[b] /\ stored[b] = stored[b]
          BY <1>0, <3>1, <4>1, RxKnown
        <5> HIDE DEF p
        <5> QED BY <1>0, <5>1, DeliveredKept, RxKnown
      <4>4. Delivered(q, size', stored)
        BY <3>1, <4>2, <4>3, DeliveredAfterAdvance, RxKnown
      <4>5. Rx!WellFormed(q) /\ RxLemmas!Distinct(q)
        BY <3>1, RxAdvance, RxAdvanceMoves, RxKnown
      <4>6. \/ Rx!hasPoint(q) /\ StartReceive(Rx!point(q), size[Rx!point(q)])
            \/ rx' = [state |-> "IDLE", dma |-> NoBuffer, left |-> 0] /\ UNCHANGED stored
        BY <4>1 DEF rxContinue, startRxI
      <4>7. Rx!hasPoint(q) => size'[Rx!point(q)] = size[Rx!point(q)]
        <5> DEFINE u == Rx!Ready(rxRing)
        <5>1. u \in Seq(Buffer \union {NoBuffer}) /\ Rx!Ready(q) = Append(u, p)
          BY <3>1, RxStages, RxAdvanceMoves, RxKnown
        <5> HIDE DEF u, q, p
        <5>2. Len(u) + 1 \in DOMAIN Append(u, p) /\ Append(u, p)[Len(u) + 1] = p
          BY <5>1
        <5>3. Rx!hasPoint(q) => Rx!point(q) # p
          BY <4>5, <5>1, <5>2, RxStages
        <5> QED BY <1>0, <4>1, <5>3
      <4> HIDE DEF q, p
      <4>8. CASE Rx!hasPoint(q) /\ StartReceive(Rx!point(q), size[Rx!point(q)])
        BY <1>0, <4>1, <4>2, <4>4, <4>5, <4>7, <4>8, SizesStart
      <4>9. CASE rx' = [state |-> "IDLE", dma |-> NoBuffer, left |-> 0] /\ UNCHANGED stored
        <5>1. SizeTypes' /\ Counted'
          BY <1>0, <4>2, <4>9 DEF SizeTypes, Counted
        <5> QED BY <4>1, <4>4, <4>9, <5>1 DEF Sizes
      <4> QED BY <4>6, <4>8, <4>9
    <3> QED BY <3>4, <3>5
  <2> QED BY <2>1, <2>2
<1>2. CASE rxEndI
  BY <1>1, <1>2 DEF rxEndI
<1>3. CASE rxIdleI
  BY <1>0, <1>1, <1>3 DEF rxIdleI
<1>4. ASSUME NEW flags \in SUBSET {"BREAK", "OTHER"}, rxErrorI(flags)
      PROVE  Sizes'
  <2>1. CASE UNCHANGED vars
    <3>1. UNCHANGED <<rxRing, rx, size, stored>>
      BY <2>1 DEF vars
    <3> QED BY <3>1, SizesElsewhere DEF Sizes, SizeTypes
  <2>2. CASE rxFinishI(rx.state)
    BY <1>0, <1>1, <2>2
  <2> QED BY <1>4, <2>1, <2>2 DEF rxErrorI
<1>5. CASE txFinishI
  <2>1. UNCHANGED <<rxRing, rx, size, stored>>
    BY <1>5 DEF txFinishI, pools
  <2> QED BY <2>1, SizesElsewhere DEF Sizes, SizeTypes
<1>6. CASE RxByte
  <2> DEFINE p == rx.dma
  <2>1. /\ rx.state = "ACTIVE"
        /\ rx.left > 0
        /\ rx' = [rx EXCEPT !.left = @ - 1]
        /\ stored' = [stored EXCEPT ![p] = @ + 1]
        /\ UNCHANGED <<rxRing, size>>
    BY <1>6 DEF RxByte
  <2>2. Rx!hasPoint(rxRing) /\ p = Rx!point(rxRing) /\ p \in Buffer
    BY <2>1, RxKnown DEF Control, DmaAtPoint
  <2>3. stored[p] + rx.left = size[p]
    BY <2>1 DEF Sizes, Counted
  <2>4. stored[p] + 1 \in 0 .. MaxSize /\ rx.left - 1 \in 0 .. MaxSize
    <3>1. stored[p] \in 0 .. MaxSize /\ rx.left \in 0 .. MaxSize /\ size[p] \in 0 .. MaxSize
      BY <1>0, <2>2
    <3> QED BY <2>1, <2>3, <3>1
  <2>5. Delivered(rxRing, size', stored')
    <3>1. \A b \in RingBuffers(rxRing) : b # p => size'[b] = size[b] /\ stored'[b] = stored[b]
      BY <1>0, <2>1
    <3> QED BY <1>0, <2>2, <3>1, DeliveredKept, RxKnown
  <2>6. SizeTypes'
    <3>1. stored' \in [Buffer -> 0 .. MaxSize]
      BY <1>0, <2>1, <2>4
    <3>2. rx' \in [state : {"IDLE", "ACTIVE"}, dma : Buffer \union {NoBuffer}, left : 0 .. MaxSize]
      BY <1>0, <2>1, <2>4
    <3> QED BY <1>0, <2>1, <3>1, <3>2 DEF SizeTypes
  <2>7. Counted'
    <3>1. rx'.dma = p /\ rx'.left = rx.left - 1
      BY <1>0, <2>1
    <3>2. stored'[p] = stored[p] + 1
      BY <1>0, <2>1, <2>2
    <3>3. stored[p] \in Int /\ rx.left \in Int /\ size[p] \in Int
      BY <1>0, <2>2
    <3> HIDE DEF p
    <3> QED BY <2>1, <2>3, <3>1, <3>2, <3>3 DEF Counted
  <2> QED BY <2>1, <2>5, <2>6, <2>7 DEF Sizes
<1> QED BY <1>2, <1>3, <1>4, <1>5, <1>6 DEF Interrupt

-----------------------------------------------------------------------------

\* The three parts together are inductive.
LEMMA DriverInductive ==
  /\ Init => Control /\ Ownership /\ Sizes
  /\ Control /\ Ownership /\ Sizes /\ [Next]_vars => (Control /\ Ownership /\ Sizes)'
<1>1. Init => Control /\ Ownership /\ Sizes
  BY ControlInit, OwnershipInit, SizesInit
<1>2. ASSUME Control, Ownership, Sizes, Next
      PROVE  (Control /\ Ownership /\ Sizes)'
  <2>1. Control'
    BY <1>2, ControlInCall, ControlClient, ControlInterrupt DEF Next
  <2>2. Ownership'
    BY <1>2, OwnershipInCall, OwnershipClient, OwnershipInterrupt DEF Next
  <2>3. Sizes'
    BY <1>2, SizesInCall, SizesClient, SizesInterrupt DEF Next
  <2> QED BY <2>1, <2>2, <2>3
<1>3. ASSUME Control, Ownership, Sizes, UNCHANGED vars
      PROVE  (Control /\ Ownership /\ Sizes)'
  <2>1. UNCHANGED <<rxRing, txRing, free, held, size, stored, state, rx, tx, pc, tmp,
                    events, rxServiced, fault>>
    BY <1>3 DEF vars
  <2>2. Control'
    BY <1>3, <2>1
       DEF Control, ControlTypes, Phases, NoFault, DmaAtPoint, PollStaysTrue,
           TransmitterNeverStalls, ReceiverStallsOnlyWithoutBuffers
  <2>3. Ownership'
    BY <1>3, <2>1 DEF Ownership, Local
  <2>4. Sizes'
    BY <1>3, <2>1 DEF Sizes, SizeTypes, Counted
  <2> QED BY <2>2, <2>3, <2>4
<1> QED BY <1>1, <1>2, <1>3

\* The DMA works on nothing but the buffers at the points of the rings, for any
\* buffers and any capacities (uart2.h:145-186,230-274).
THEOREM DriverSafety == Spec => []DmaAtPoint
<1>1. Control => DmaAtPoint
  BY DEF Control
<1> QED BY <1>1, DriverInductive, PTL DEF Spec

\* What poll() has seen without the lock is still true when the client uses it,
\* whatever the handlers do meanwhile (uart2.h:110-118).
THEOREM DriverPolls == Spec => []PollStaysTrue
<1>1. Control => PollStaysTrue
  BY DEF Control
<1> QED BY <1>1, DriverInductive, PTL DEF Spec

\* There is no FATAL_ERROR, and no buffer is left waiting for an idle
\* transmitter or, while the pool lasts, an idle receiver
\* (uart2.h:100-108,137-148,176-186,263-274).
THEOREM DriverNeverStalls == Spec => []NeverStalls
<1>1. Control => NeverStalls
  BY DEF Control, NeverStalls
<1> QED BY <1>1, DriverInductive, PTL DEF Spec

\* No buffer is lost or has two owners: the pool, the client, the thread inside
\* a call and the two rings share all buffers among them, always.
THEOREM DriverOwnership == Spec => []BuffersConserved
<1>1. Ownership => BuffersConserved
  BY OwnedIsConserved DEF Ownership
<1> QED BY <1>1, DriverInductive, PTL DEF Spec

\* Every variable keeps its type, and a buffer that rx() will deliver has bytes
\* in it and exactly the size of what was received.
THEOREM DriverDelivery == Spec => [](TypeOK /\ DeliveredAsReceived)
<1>1. Control /\ Sizes => TypeOK
  BY DEF Control, ControlTypes, Sizes, SizeTypes, TypeOK, Rx!WellFormed, Tx!WellFormed
<1>2. Sizes => DeliveredAsReceived
  BY DEF Sizes, Delivered, DeliveredAsReceived
<1> QED BY <1>1, <1>2, DriverInductive, PTL DEF Spec

-----------------------------------------------------------------------------

\* A step of the driver changes its receive ring, if at all, by one legal call.
LEMMA RxCalls ==
  ASSUME Control, Ownership, Next
  PROVE  \/ UNCHANGED rxRing
         \/ \E b \in Buffer \ RingBuffers(rxRing) :
              Rx!canPut(rxRing) /\ rxRing' = Rx!put(rxRing, b)
         \/ Rx!canGet(rxRing) /\ rxRing' = Rx!get(rxRing)
         \/ Rx!hasPoint(rxRing) /\ rxRing' = Rx!advancePoint(rxRing)
<1> DEFINE Moved == Rx!hasPoint(rxRing) /\ rxRing' = Rx!advancePoint(rxRing)
<1>1. ASSUME NEW entry, rxFinishI(entry)
      PROVE  UNCHANGED rxRing \/ Moved
  BY <1>1 DEF rxFinishI
<1>2. CASE rxPut
  <2>1. tmp \in Buffer \ RingBuffers(rxRing)
    BY <1>2, ConstantsAssumption DEF rxPut, Goto, Control, Phases, Ownership, Owned, Local
  <2> QED BY <1>2, <2>1 DEF rxPut
<1>3. CASE InCall /\ ~rxPut
  BY <1>3 DEF InCall, rxCreate, startRx, deallocateTx, startTx, pollRest
<1>4. CASE rxCall
  BY <1>4 DEF rxCall
<1>5. CASE Client /\ ~rxCall
  BY <1>5 DEF Client, start, serviceRx, serviceTx, poll, txCall, ReleaseBuffer, CreateBuffer
<1>6. CASE Interrupt
  <2>1. CASE txFinishI
    BY <2>1 DEF txFinishI
  <2>2. CASE UNCHANGED vars
    BY <2>2 DEF vars
  <2> HIDE DEF Moved
  <2>3. CASE rxEndI \/ rxIdleI \/ \E flags \in SUBSET {"BREAK", "OTHER"} : rxErrorI(flags)
    <3>1. UNCHANGED vars \/ \E entry : rxFinishI(entry)
      BY <2>3 DEF rxEndI, rxIdleI, rxErrorI
    <3>2. UNCHANGED rxRing \/ Moved
      BY <1>1, <3>1 DEF vars
    <3> QED BY <3>2 DEF Moved
  <2> QED BY <1>6, <2>1, <2>3 DEF Interrupt
<1>7. CASE RxByte
  BY <1>7 DEF RxByte
<1> QED BY <1>2, <1>3, <1>4, <1>5, <1>6, <1>7 DEF Next

\* Likewise its transmit ring.
LEMMA TxCalls ==
  ASSUME Control, Ownership, Next
  PROVE  \/ UNCHANGED txRing
         \/ \E b \in Buffer \ RingBuffers(txRing) :
              Tx!canPut(txRing) /\ txRing' = Tx!put(txRing, b)
         \/ Tx!canGet(txRing) /\ txRing' = Tx!get(txRing)
         \/ Tx!hasPoint(txRing) /\ txRing' = Tx!advancePoint(txRing)
<1>1. ASSUME NEW entry, rxFinishI(entry)
      PROVE  UNCHANGED txRing
  BY <1>1 DEF rxFinishI
<1>2. ASSUME NEW b \in held, txCall(b)
      PROVE  \/ UNCHANGED txRing
             \/ \E c \in Buffer \ RingBuffers(txRing) :
                  Tx!canPut(txRing) /\ txRing' = Tx!put(txRing, c)
  <2>1. b \in Buffer \ RingBuffers(txRing)
    BY DEF Ownership, Owned
  <2> QED BY <1>2, <2>1 DEF txCall
<1>3. CASE deallocateTx
  BY <1>3 DEF deallocateTx
<1>4. CASE InCall /\ ~deallocateTx
  BY <1>4 DEF InCall, rxCreate, rxPut, startRx, startTx, pollRest
<1>5. CASE Client
  <2>1. CASE \E b \in held : txCall(b)
    BY <1>2, <2>1
  <2>2. CASE ~\E b \in held : txCall(b)
    BY <1>5, <2>2 DEF Client, start, serviceRx, rxCall, serviceTx, poll, ReleaseBuffer, CreateBuffer, pools
  <2> QED BY <2>1, <2>2
<1>6. CASE txFinishI
  BY <1>6 DEF txFinishI, Control, DmaAtPoint
<1>7. CASE rxEndI \/ rxIdleI \/ \E flags \in SUBSET {"BREAK", "OTHER"} : rxErrorI(flags)
  <2>1. UNCHANGED vars \/ \E entry : rxFinishI(entry)
    BY <1>7 DEF rxEndI, rxIdleI, rxErrorI
  <2> QED BY <1>1, <2>1 DEF vars
<1>8. CASE RxByte
  BY <1>8 DEF RxByte
<1> QED BY <1>3, <1>4, <1>5, <1>6, <1>7, <1>8 DEF Next, Interrupt

\* Buffers leave each ring of the driver in the order in which they entered it,
\* each once and after its transfer: both rings are staged queues, whatever the
\* order of calls, interrupts and bytes, for any capacities.
THEOREM DriverQueues == Spec => RingsAreStagedQueues
<1> USE ConstantsAssumption
<1>1. Init => RxQueue!Init /\ TxQueue!Init
  <2> SUFFICES ASSUME Init PROVE RxQueue!Init /\ TxQueue!Init
    OBVIOUS
  <2>1. /\ rxRing.fullIdx = 0 /\ rxRing.pointIdx = 0 /\ rxRing.emptyIdx = 0
        /\ txRing.fullIdx = 0 /\ txRing.pointIdx = 0 /\ txRing.emptyIdx = 0
    BY DEF Init, Rx!Empty, Tx!Empty
  <2>2. Rx!Queued(rxRing) = << >> /\ Rx!Ready(rxRing) = << >>
    <3>1. DOMAIN Rx!Queued(rxRing) = 1 .. 0 /\ DOMAIN Rx!Ready(rxRing) = 1 .. 0
      BY <2>1 DEF Rx!Queued, Rx!Ready, Rx!Segment, Rx!Distance
    <3>2. /\ Rx!Queued(rxRing) \in Seq(Buffer \union {NoBuffer})
          /\ Rx!Ready(rxRing) \in Seq(Buffer \union {NoBuffer})
      BY RxStages, ControlInit DEF Control, ControlTypes
    <3> QED BY <3>1, <3>2
  <2>3. Tx!Queued(txRing) = << >> /\ Tx!Ready(txRing) = << >>
    <3>1. DOMAIN Tx!Queued(txRing) = 1 .. 0 /\ DOMAIN Tx!Ready(txRing) = 1 .. 0
      BY <2>1 DEF Tx!Queued, Tx!Ready, Tx!Segment, Tx!Distance
    <3>2. /\ Tx!Queued(txRing) \in Seq(Buffer \union {NoBuffer})
          /\ Tx!Ready(txRing) \in Seq(Buffer \union {NoBuffer})
      BY TxStages, ControlInit DEF Control, ControlTypes
    <3> QED BY <3>1, <3>2
  <2> QED BY <2>2, <2>3 DEF RxQueue!Init, TxQueue!Init
<1>2. Control /\ Ownership /\ [Next]_vars
        => [RxQueue!Next]_<<Rx!Queued(rxRing), Rx!Ready(rxRing)>>
  <2> SUFFICES ASSUME Control, Ownership, [Next]_vars
               PROVE  RxQueue!Next \/ UNCHANGED <<Rx!Queued(rxRing), Rx!Ready(rxRing)>>
    OBVIOUS
  <2>0. Rx!WellFormed(rxRing) /\ RxLemmas!Distinct(rxRing)
    BY RxKnown
  <2>1. CASE UNCHANGED rxRing
    BY <2>1
  <2>2. ASSUME NEW b \in Buffer \ RingBuffers(rxRing),
               Rx!canPut(rxRing), rxRing' = Rx!put(rxRing, b)
        PROVE  RxQueue!Next
    BY <2>0, <2>2, RxPutMoves DEF RxQueue!Next, RxQueue!Put
  <2>3. CASE Rx!canGet(rxRing) /\ rxRing' = Rx!get(rxRing)
    BY <2>0, <2>3, RxGetMoves DEF RxQueue!Next, RxQueue!Get
  <2>4. CASE Rx!hasPoint(rxRing) /\ rxRing' = Rx!advancePoint(rxRing)
    BY <2>0, <2>4, RxAdvanceMoves DEF RxQueue!Next, RxQueue!Finish
  <2> QED BY <2>1, <2>2, <2>3, <2>4, RxCalls DEF vars
<1>3. Control /\ Ownership /\ [Next]_vars
        => [TxQueue!Next]_<<Tx!Queued(txRing), Tx!Ready(txRing)>>
  <2> SUFFICES ASSUME Control, Ownership, [Next]_vars
               PROVE  TxQueue!Next \/ UNCHANGED <<Tx!Queued(txRing), Tx!Ready(txRing)>>
    OBVIOUS
  <2>0. Tx!WellFormed(txRing) /\ TxLemmas!Distinct(txRing)
    BY DEF Control, ControlTypes, Ownership
  <2>1. CASE UNCHANGED txRing
    BY <2>1
  <2>2. ASSUME NEW b \in Buffer \ RingBuffers(txRing),
               Tx!canPut(txRing), txRing' = Tx!put(txRing, b)
        PROVE  TxQueue!Next
    BY <2>0, <2>2, TxPutMoves DEF TxQueue!Next, TxQueue!Put
  <2>3. CASE Tx!canGet(txRing) /\ txRing' = Tx!get(txRing)
    BY <2>0, <2>3, TxGetMoves DEF TxQueue!Next, TxQueue!Get
  <2>4. CASE Tx!hasPoint(txRing) /\ txRing' = Tx!advancePoint(txRing)
    BY <2>0, <2>4, TxAdvanceMoves DEF TxQueue!Next, TxQueue!Finish
  <2> QED BY <2>1, <2>2, <2>3, <2>4, TxCalls DEF vars
<1> QED
  BY <1>1, <1>2, <1>3, DriverInductive, PTL DEF Spec, RingsAreStagedQueues, RxQueue!Spec, TxQueue!Spec
=============================================================================
