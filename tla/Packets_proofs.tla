---------------------------- MODULE Packets_proofs --------------------------
(***************************************************************************)
(* The packets, from the bytes on the wire to the channels, for every one  *)
(* of them.  The decoder on every stream: the last byte that finishPacket  *)
(* looks at exists, a buffer that has filled up within a block stays full, *)
(* and the decoder hands out what unstuff makes of a frame.  COBS: a       *)
(* payload survives stuffing and unstuffing.  The loops of Cobs are folds; *)
(* a fact about all of a fold's values is proved by induction, over the    *)
(* set of the lengths at which it holds (Inductive).                       *)
(*                                                                         *)
(* Packet device and multiplexer for any packets, channels, buffers and    *)
(* chunks: every buffer is in one place; while no chunk is lost the        *)
(* decoder hands out what was written; and whatever is lost, with an ideal *)
(* CRC each client reads what was written to it, in order.                 *)
(*                                                                         *)
(* For what was written, the bytes under way, in whatever chunks, are the  *)
(* frames of the packets that are not handed out yet, one after the other  *)
(* (Joined), the first of them without the bytes the decoder has consumed; *)
(* and the decoder is where unstuff is after those (At).                   *)
(***************************************************************************)
EXTENDS Multiplexer, PacketDecodeFSM, CobsPayloads, WellFoundedInduction, SequenceTheorems,
        FiniteSetTheorems, TLAPS

(* Both loops of Cobs at once: what they start from and what they do with  *)
(* a byte.                                                                 *)
First(loop) == IF loop = "stuff" THEN [out |-> <<>>, code |-> 1, chunk |-> 0]
               ELSE [out |-> <<>>, left |-> 0, code |-> K]
Turn(loop, s, b) == IF loop = "stuff" THEN stuffByte(s, b) ELSE unstuffByte(s, b)

stuffLoop(p) == FoldLeft(stuffByte, [out |-> <<>>, code |-> 1, chunk |-> 0], p)
Loop(loop, p) == IF loop = "stuff" THEN stuffLoop(p) ELSE unstuffLoop(p)

(* The function by which the library defines the fold over the first n     *)
(* bytes of p: its value for each set of their places.                     *)
FoldsTo(f, loop, p, n) ==
  f = [s \in SUBSET (1 .. n) |->
         IF s = {} THEN First(loop) ELSE Turn(loop, f[s \ {Max(s)}], p[Max(s)])]

(* p and q have the same first n bytes. *)
Agree(p, q, n) == \A i \in 1 .. n : p[i] = q[i]

-----------------------------------------------------------------------------
\* A set of numbers has a least one.
LEMMA Least ==
  ASSUME NEW T, T \subseteq Nat, T # {}
  PROVE  \E n \in T : \A m \in T : ~(m < n)
<1>1. PICK n \in T : \A m \in T : ~(<<m, n>> \in OpToRel(<, Nat))
  BY NatLessThanWellFounded, WFMin
<1>2. \A m \in T : ~(m < n)
  BY <1>1 DEF OpToRel
<1> QED BY <1>2

\* Induction, over a set instead of a predicate.
LEMMA Inductive ==
  ASSUME NEW T, 0 \in T, \A n \in Nat : n \in T => n + 1 \in T
  PROVE  Nat \subseteq T
<1> DEFINE C == Nat \ T
<1>1. SUFFICES ASSUME C # {} PROVE FALSE
  OBVIOUS
<1>2. PICK n \in C : \A m \in C : ~(m < n)
  BY <1>1, Least
<1>3. n - 1 \in Nat /\ n - 1 \notin C
  BY <1>2
<1> QED BY <1>2, <1>3

\* The largest of places up to n + 1 that include n + 1.
LEMMA LastPlace ==
  ASSUME NEW n \in Nat, NEW s \in SUBSET (1 .. n + 1), n + 1 \in s
  PROVE  Max(s) = n + 1 /\ s \ {n + 1} \in SUBSET (1 .. n)
<1>1. \A x \in s : n + 1 >= x
  OBVIOUS
<1>2. \A m \in s : (\A x \in s : m >= x) => m = n + 1
  <2> SUFFICES ASSUME NEW m \in s, m >= n + 1 PROVE m = n + 1
    OBVIOUS
  <2>1. m \in 1 .. n + 1
    OBVIOUS
  <2> QED BY <2>1
<1>3. Max(s) = n + 1
  <2>1. \E m \in s : \A x \in s : m >= x
    BY <1>1
  <2> DEFINE c == CHOOSE m \in s : \A x \in s : m >= x
  <2>2. c \in s /\ \A x \in s : c >= x
    BY <2>1, Zenon
  <2>3. Max(s) = c
    BY Zenon DEF Max
  <2> QED BY <1>2, <2>2, <2>3
<1>4. \A x \in s \ {n + 1} : x \in 1 .. n
  <2> TAKE x \in s \ {n + 1}
  <2>1. x \in 1 .. n + 1 /\ x # n + 1
    OBVIOUS
  <2> QED BY <2>1
<1> QED BY <1>3, <1>4, Zenon

\* Places up to n + 1 without n + 1.
LEMMA NotLastPlace ==
  ASSUME NEW n \in Nat, NEW s \in SUBSET (1 .. n + 1), n + 1 \notin s
  PROVE  s \in SUBSET (1 .. n)
<1> SUFFICES ASSUME NEW x \in s PROVE x \in 1 .. n
  OBVIOUS
<1>1. x \in 1 .. n + 1 /\ x # n + 1
  OBVIOUS
<1> QED BY <1>1

\* The function exists, for any number of bytes.
LEMMA FoldExists ==
  ASSUME NEW loop, NEW p, NEW n \in Nat
  PROVE  \E f : FoldsTo(f, loop, p, n)
<1> DEFINE T == {m \in Nat : \E f : FoldsTo(f, loop, p, m)}
<1>1. 0 \in T
  <2> DEFINE f == [s \in SUBSET (1 .. 0) |-> First(loop)]
  <2>1. \A s \in SUBSET (1 .. 0) : s = {}
    OBVIOUS
  <2>2. f = [s \in SUBSET (1 .. 0) |->
               IF s = {} THEN First(loop) ELSE Turn(loop, f[s \ {Max(s)}], p[Max(s)])]
    BY <2>1, Zenon
  <2>3. FoldsTo(f, loop, p, 0)
    BY <2>2, Zenon DEF FoldsTo
  <2> QED BY <2>3
<1>2. ASSUME NEW m \in Nat, m \in T
      PROVE  m + 1 \in T
  <2>1. PICK f : FoldsTo(f, loop, p, m)
    BY <1>2
  <2> DEFINE g == [s \in SUBSET (1 .. m + 1) |->
                     IF m + 1 \in s THEN Turn(loop, f[s \ {m + 1}], p[m + 1]) ELSE f[s]]
             h == [s \in SUBSET (1 .. m + 1) |->
                     IF s = {} THEN First(loop) ELSE Turn(loop, g[s \ {Max(s)}], p[Max(s)])]
  <2>2. \A s \in SUBSET (1 .. m) : g[s] = f[s]
    <3> TAKE s \in SUBSET (1 .. m)
    <3>1. s \in SUBSET (1 .. m + 1) /\ m + 1 \notin s
      OBVIOUS
    <3> QED BY <3>1
  <2>3. ASSUME NEW s \in SUBSET (1 .. m + 1)
        PROVE  g[s] = h[s]
    <3>1. CASE m + 1 \in s
      <4>1. Max(s) = m + 1 /\ s \ {m + 1} \in SUBSET (1 .. m) /\ s # {}
        BY <3>1, LastPlace
      <4>2. g[s \ {m + 1}] = f[s \ {m + 1}]
        BY <4>1, <2>2
      <4>3. g[s] = Turn(loop, f[s \ {m + 1}], p[m + 1])
        BY <3>1
      <4> QED BY <4>1, <4>2, <4>3
    <3>2. CASE m + 1 \notin s
      <4>1. s \in SUBSET (1 .. m) /\ s \ {Max(s)} \in SUBSET (1 .. m)
        BY <3>2, NotLastPlace, Zenon
      <4>2. g[s] = f[s] /\ g[s \ {Max(s)}] = f[s \ {Max(s)}]
        BY <4>1, <2>2
      <4>3. f[s] = IF s = {} THEN First(loop) ELSE Turn(loop, f[s \ {Max(s)}], p[Max(s)])
        BY <2>1, <4>1, Zenon DEF FoldsTo
      <4> QED BY <4>2, <4>3
    <3> QED BY <3>1, <3>2
  <2>4. g = h
    BY <2>3
  <2>5. FoldsTo(g, loop, p, m + 1)
    BY <2>4, Zenon DEF FoldsTo
  <2> QED BY <2>5
<1>3. Nat \subseteq T
  BY <1>1, <1>2, Inductive
<1> QED BY <1>3

\* It depends on the bytes it is given, and on nothing else.
LEMMA FoldUnique ==
  ASSUME NEW loop, NEW p, NEW q, NEW n \in Nat, NEW f, NEW g,
         Agree(p, q, n), FoldsTo(f, loop, p, n), FoldsTo(g, loop, q, n + 1)
  PROVE  g[1 .. n] = f[1 .. n]
<1> DEFINE T == {k \in Nat : k <= n => \A s \in SUBSET (1 .. k) : f[s] = g[s]}
<1>1. \A s \in SUBSET (1 .. n) :
        /\ f[s] = IF s = {} THEN First(loop) ELSE Turn(loop, f[s \ {Max(s)}], p[Max(s)])
        /\ g[s] = IF s = {} THEN First(loop) ELSE Turn(loop, g[s \ {Max(s)}], q[Max(s)])
  <2> TAKE s \in SUBSET (1 .. n)
  <2>1. s \in SUBSET (1 .. n + 1)
    OBVIOUS
  <2> QED BY <2>1, Zenon DEF FoldsTo
<1>2. 0 \in T
  <2>1. \A s \in SUBSET (1 .. 0) : s = {} /\ s \in SUBSET (1 .. n)
    OBVIOUS
  <2> QED BY <1>1, <2>1
<1>3. ASSUME NEW k \in Nat, k \in T
      PROVE  k + 1 \in T
  <2>0. k + 1 \in Nat
    OBVIOUS
  <2> SUFFICES ASSUME k + 1 <= n
               PROVE  \A s \in SUBSET (1 .. k + 1) : f[s] = g[s]
    BY <2>0, Zenon
  <2> TAKE s \in SUBSET (1 .. k + 1)
  <2>1. s \in SUBSET (1 .. n) /\ \A t \in SUBSET (1 .. k) : f[t] = g[t]
    BY <1>3
  <2>2. CASE k + 1 \in s
    <3>1. Max(s) = k + 1 /\ s \ {k + 1} \in SUBSET (1 .. k) /\ s # {}
      BY <2>2, LastPlace
    <3>2. p[k + 1] = q[k + 1]
      BY DEF Agree
    <3>3. f[s \ {k + 1}] = g[s \ {k + 1}]
      BY <2>1, <3>1, Zenon
    <3>4. f[s] = Turn(loop, f[s \ {k + 1}], p[k + 1]) /\ g[s] = Turn(loop, g[s \ {k + 1}], q[k + 1])
      BY <1>1, <2>1, <3>1, Zenon
    <3> QED BY <3>2, <3>3, <3>4, Zenon
  <2>3. CASE k + 1 \notin s
    BY <2>1, <2>3, NotLastPlace, Zenon
  <2> QED BY <2>2, <2>3
<1>4. Nat \subseteq T
  BY <1>2, <1>3, Inductive
<1>5. n \in T
  BY <1>4
<1>6. (1 .. n) \in SUBSET (1 .. n)
  OBVIOUS
<1> QED BY <1>5, <1>6

\* The loops are folds.
LEMMA LoopFolds ==
  ASSUME NEW loop \in {"stuff", "unstuff"}, NEW S, NEW p \in Seq(S)
  PROVE  \E f : FoldsTo(f, loop, p, Len(p)) /\ Loop(loop, p) = f[1 .. Len(p)]
<1>1. PICK f : FoldsTo(f, loop, p, Len(p))
  <2>1. Len(p) \in Nat
    OBVIOUS
  <2> QED BY <2>1, FoldExists, Zenon
<1>2. DOMAIN p = 1 .. Len(p)
  OBVIOUS
<1>3. CASE loop = "stuff"
  <2> DEFINE Fold(h) == h = [s \in SUBSET DOMAIN p |->
                              IF s = {} THEN [out |-> <<>>, code |-> 1, chunk |-> 0]
                              ELSE stuffByte(h[s \ {Max(s)}], p[Max(s)])]
  <2>1. stuffLoop(p) = (CHOOSE h : Fold(h))[DOMAIN p]
    BY Zenon DEF stuffLoop, FoldLeft, MapThenFoldSet
  <2>2. \A h : Fold(h) <=> FoldsTo(h, loop, p, Len(p))
    BY <1>2, <1>3 DEF FoldsTo, First, Turn
  <2> HIDE DEF Fold
  <2>3. Fold(CHOOSE h : Fold(h))
    BY <1>1, <2>2, Zenon
  <2> QED BY <1>2, <1>3, <2>1, <2>2, <2>3, Zenon DEF Loop
<1>4. CASE loop = "unstuff"
  <2> DEFINE Fold(h) == h = [s \in SUBSET DOMAIN p |->
                              IF s = {} THEN [out |-> <<>>, left |-> 0, code |-> K]
                              ELSE unstuffByte(h[s \ {Max(s)}], p[Max(s)])]
  <2>1. unstuffLoop(p) = (CHOOSE h : Fold(h))[DOMAIN p]
    BY Zenon DEF unstuffLoop, FoldLeft, MapThenFoldSet
  <2>2. \A h : Fold(h) <=> FoldsTo(h, loop, p, Len(p))
    BY <1>2, <1>4 DEF FoldsTo, First, Turn
  <2> HIDE DEF Fold
  <2>3. Fold(CHOOSE h : Fold(h))
    BY <1>1, <2>2, Zenon
  <2> QED BY <1>2, <1>4, <2>1, <2>2, <2>3, Zenon DEF Loop
<1> QED BY <1>3, <1>4

\* A loop over no byte, and over one byte more.
LEMMA LoopGrows ==
  ASSUME NEW loop \in {"stuff", "unstuff"}, NEW S, NEW p \in Seq(S), NEW b \in S
  PROVE  /\ Loop(loop, <<>>) = First(loop)
         /\ Loop(loop, Append(p, b)) = Turn(loop, Loop(loop, p), b)
<1>1. Loop(loop, <<>>) = First(loop)
  <2> DEFINE e == <<>>
  <2>0. e \in Seq(S) /\ Len(e) = 0
    OBVIOUS
  <2> HIDE DEF e
  <2>1. PICK f : FoldsTo(f, loop, e, Len(e)) /\ Loop(loop, e) = f[1 .. Len(e)]
    BY <2>0, LoopFolds
  <2>2. {} \in SUBSET (1 .. Len(e)) /\ 1 .. Len(e) = {}
    BY <2>0
  <2>3. f[{}] = First(loop)
    BY <2>1, <2>2, Zenon DEF FoldsTo
  <2> QED BY <2>1, <2>2, <2>3 DEF e
<1>2. Loop(loop, Append(p, b)) = Turn(loop, Loop(loop, p), b)
  <2> DEFINE q == Append(p, b)
             n == Len(p)
  <2>1. q \in Seq(S) /\ Len(q) = n + 1 /\ q[n + 1] = b /\ \A i \in 1 .. n : p[i] = q[i]
    BY AppendProperties
  <2>2. n \in Nat
    OBVIOUS
  <2> HIDE DEF q
  <2>3. PICK f : FoldsTo(f, loop, p, n) /\ Loop(loop, p) = f[1 .. n]
    BY LoopFolds
  <2>4. PICK g : FoldsTo(g, loop, q, n + 1) /\ Loop(loop, q) = g[1 .. n + 1]
    BY <2>1, LoopFolds
  <2> DEFINE s == 1 .. n + 1
  <2>5. s \in SUBSET (1 .. n + 1) /\ n + 1 \in s /\ s # {} /\ s \ {n + 1} = 1 .. n
    <3>1. \A x \in (1 .. n + 1) \ {n + 1} : x \in 1 .. n
      BY <2>2, LastPlace
    <3>2. n + 1 \in 1 .. n + 1 /\ \A x \in 1 .. n : x \in 1 .. n + 1 /\ x # n + 1
      BY <2>2
    <3> QED BY <3>1, <3>2
  <2>6. Max(s) = n + 1
    BY <2>2, <2>5, LastPlace
  <2> HIDE DEF s, n
  <2>7. g[s] = Turn(loop, g[1 .. n], b)
    <3>1. g[s] = IF s = {} THEN First(loop) ELSE Turn(loop, g[s \ {Max(s)}], q[Max(s)])
      BY <2>4, <2>5, Zenon DEF FoldsTo
    <3> QED BY <2>1, <2>5, <2>6, <3>1
  <2>8. g[1 .. n] = f[1 .. n]
    <3>1. Agree(p, q, n)
      BY <2>1 DEF Agree
    <3>2. FoldsTo(f, loop, p, n) /\ FoldsTo(g, loop, q, n + 1)
      BY <2>3, <2>4
    <3> QED BY <2>2, <3>1, <3>2, FoldUnique
  <2> QED BY <2>3, <2>4, <2>7, <2>8 DEF q, s
<1> QED BY <1>1, <1>2

State == {"delimiter", "start", "block", "nextBlock"}

(* What a function of the decoder may be called with. *)
Decoder == [state : State, left : Nat, zero : BOOLEAN, out : Seq(Byte),
            error : {"none", "PacketTooBig", "CobsBadEncoding", "callback"},
            packet : Seq(Byte)]

InBuffer(s) == s \in Decoder /\ Len(s.out) <= maxSize

WellFormed(s) ==
  /\ InBuffer(s)
  /\ s.state = "nextBlock" => s.out # <<>>
  /\ s.state = "block" => s.left > 0

(* t is s with at most one byte more, and full only as s was. *)
Grown(t, s) ==
  /\ InBuffer(t) /\ t.state = s.state
  /\ s.out # <<>> => t.out # <<>>
  /\ Len(s.out) = maxSize => t.out = s.out

-----------------------------------------------------------------------------
\* append adds the byte, or nothing and then it fails.
LEMMA AppendGrows ==
  ASSUME NEW s, InBuffer(s), NEW b \in Byte
  PROVE  /\ Grown(append(s, b), s)
         /\ append(s, b).error = "none" => append(s, b).out # <<>>
         /\ Len(s.out) = maxSize => append(s, b).error = "PacketTooBig"
<1> DEFINE t == append(s, b)
<1>1. CASE Len(s.out) >= maxSize
  <2>1. t = [s EXCEPT !.error = "PacketTooBig"]
    BY <1>1 DEF append
  <2> QED
    BY <2>1 DEF InBuffer, Decoder, Grown
<1>2. CASE Len(s.out) < maxSize
  <2>1. t = [s EXCEPT !.out = Append(s.out, b),
                      !.left = IF s.left = 0 THEN SIZE_MAX ELSE s.left - 1]
    BY <1>2, SizeAssumption DEF append, InBuffer, Decoder
  <2>2. Append(s.out, b) \in Seq(Byte) /\ Len(Append(s.out, b)) <= maxSize
        /\ Append(s.out, b) # <<>>
    <3>1. s.out \in Seq(Byte)
      BY DEF InBuffer, Decoder
    <3> QED
      BY <1>2, <3>1, SizeAssumption, AppendProperties
  <2>3. (IF s.left = 0 THEN SIZE_MAX ELSE s.left - 1) \in Nat
    BY DEF InBuffer, Decoder, SIZE_MAX
  <2> QED
    <3> DEFINE o == Append(s.out, b)
               l == IF s.left = 0 THEN SIZE_MAX ELSE s.left - 1
    <3>1. t = [s EXCEPT !.out = o, !.left = l]
      BY <2>1
    <3>2. o \in Seq(Byte) /\ Len(o) <= maxSize /\ o # <<>> /\ l \in Nat
      BY <2>2, <2>3
    <3> HIDE DEF o, l
    <3>3. t \in Decoder /\ t.out = o /\ t.state = s.state
      BY <3>1, <3>2 DEF InBuffer, Decoder
    <3>4. Len(s.out) # maxSize
      BY <1>2, SizeAssumption DEF InBuffer, Decoder
    <3> QED
      BY <3>2, <3>3, <3>4 DEF InBuffer, Grown
<1> QED
  BY <1>1, <1>2, SizeAssumption DEF InBuffer, Decoder

\* finishBlock appends a zero or nothing.
LEMMA FinishBlockGrows ==
  ASSUME NEW s, InBuffer(s)
  PROVE  /\ Grown(finishBlock(s), s)
         /\ s.zero /\ finishBlock(s).error = "none" => finishBlock(s).out # <<>>
         /\ s.zero /\ Len(s.out) = maxSize => finishBlock(s).error = "PacketTooBig"
<1>1. 0 \in Byte
  BY KAssumption DEF Byte
<1>2. CASE s.zero
  BY <1>1, <1>2, AppendGrows DEF finishBlock
<1>3. CASE ~s.zero
  BY <1>3 DEF finishBlock, Grown
<1> QED
  BY <1>2, <1>3

\* A code other than 0 and 1 starts a block that has a byte.
LEMMA NonZero ==
  ASSUME NEW b \in Byte, b # 0
  PROVE  b \in Byte \ {0} /\ (b # 1 => b - 1 > 0)
  BY KAssumption DEF Byte

\* startBlock touches only the block.
LEMMA StartBlockFields ==
  ASSUME NEW s, InBuffer(s), NEW b \in Byte \ {0}
  PROVE  /\ InBuffer(startBlock(s, b))
         /\ startBlock(s, b) = [s EXCEPT !.left = b - 1, !.zero = (b # K)]
         /\ startBlock(s, b).out = s.out /\ startBlock(s, b).left = b - 1
         /\ startBlock(s, b).state = s.state /\ startBlock(s, b).error = s.error
         /\ b = 1 => startBlock(s, b).zero
<1>1. b - 1 \in Nat
  BY KAssumption DEF Byte
<1>2. b = 1 => b # K
  BY KAssumption
<1> QED
  BY <1>1, <1>2 DEF startBlock, InBuffer, Decoder

\* A transition touches only the state.
LEMMA ThenFields ==
  ASSUME NEW s, InBuffer(s), NEW to \in State
  PROVE  /\ InBuffer(Then(s, to)) /\ InBuffer(transit(s, to))
         /\ Then(s, to).out = s.out /\ Then(s, to).left = s.left
         /\ Then(s, to).state = IF s.error = "none" THEN to ELSE "delimiter"
         /\ transit(s, to).out = s.out /\ transit(s, to).left = s.left
         /\ transit(s, to).state = to
  BY DEF Then, transit, InBuffer, Decoder, State

-----------------------------------------------------------------------------
\* The state "delimiter".
LEMMA DelimiterLeaves ==
  ASSUME NEW s, WellFormed(s), s.state = "delimiter", NEW b \in Byte
  PROVE  WellFormed(delimiter(s, b))
  BY ThenFields DEF delimiter, WellFormed, State

\* The state "start": a frame that begins with an empty block may fail at once.
LEMMA StartLeaves ==
  ASSUME NEW s, WellFormed(s), s.state = "start", s.error = "none", NEW b \in Byte
  PROVE  WellFormed(start(s, b))
<1>1. CASE b = 0
  BY <1>1 DEF start, WellFormed
<1>2. CASE b = 1
  <2> DEFINE u == startBlock(s, b)
             t == finishBlock(u)
  <2>0. b # 0 /\ b \in Byte \ {0}
    BY <1>2
  <2>1. InBuffer(u) /\ u.out = s.out /\ u.zero
    <3>1. InBuffer(s)
      BY DEF WellFormed
    <3>2. InBuffer(u) /\ u.out = s.out /\ u.state = s.state /\ (b = 1 => u.zero)
      BY <2>0, <3>1, StartBlockFields
    <3> QED
      BY <1>2, <3>2
  <2>2. Grown(t, u) /\ (t.error = "none" => t.out # <<>>)
        /\ (Len(u.out) = maxSize => t.error = "PacketTooBig")
    BY <2>1, FinishBlockGrows
  <2>3. start(s, b) = Then(t, "nextBlock")
    BY <1>2 DEF start
  <2> DEFINE v == Then(t, "nextBlock")
  <2>4. InBuffer(v) /\ v.out = t.out
        /\ v.state = IF t.error = "none" THEN "nextBlock" ELSE "delimiter"
    BY <2>2, ThenFields DEF Grown, State
  <2>5. start(s, b) = v
    BY <2>3
  <2> HIDE DEF t, u, v
  <2> QED
    BY <2>1, <2>2, <2>4, <2>5 DEF Grown, WellFormed
<1>3. CASE b \notin {0, 1}
  <2>1. start(s, b) = transit(startBlock(s, b), "block")
    BY <1>3 DEF start
  <2>2. InBuffer(startBlock(s, b)) /\ startBlock(s, b).out = s.out
        /\ startBlock(s, b).left = b - 1 /\ b - 1 > 0
    BY <1>3, NonZero, StartBlockFields DEF WellFormed
  <2> DEFINE u == startBlock(s, b)
             v == transit(u, "block")
  <2>3. InBuffer(v) /\ v.out = u.out /\ v.left = u.left /\ v.state = "block"
    BY <2>2, ThenFields DEF State
  <2> HIDE DEF u, v
  <2> QED
    BY <2>1, <2>2, <2>3 DEF WellFormed, u, v
<1> QED
  BY <1>1, <1>2, <1>3

\* The state "block": the block ends, goes on, or finds the buffer full.
LEMMA BlockLeaves ==
  ASSUME NEW s, WellFormed(s), s.state = "block", s.error = "none", NEW b \in Byte
  PROVE  WellFormed(block(s, b))
<1>1. CASE b = 0
  <2>1. block(s, b) = [s EXCEPT !.state = "delimiter", !.error = "CobsBadEncoding"]
    BY <1>1 DEF block, fail
  <2> QED
    BY <2>1 DEF WellFormed, InBuffer, Decoder, State
<1>2. CASE b # 0
  <2> DEFINE t == append(s, b)
  <2>1. Grown(t, s) /\ (t.error = "none" => t.out # <<>>)
        /\ (Len(s.out) = maxSize => t.error = "PacketTooBig")
    BY AppendGrows DEF WellFormed
  <2>2. CASE t.error = "none" /\ t.left = 0
    <3>1. block(s, b) = Then(finishBlock(t), "nextBlock")
      BY <1>2, <2>2 DEF block
    <3>2. Grown(finishBlock(t), t)
      BY <2>1, FinishBlockGrows DEF Grown
    <3> HIDE DEF t
    <3>3. finishBlock(t).out # <<>> /\ Len(s.out) # maxSize
      BY <2>1, <2>2, <3>2 DEF Grown
    <3> DEFINE u == finishBlock(t)
               v == Then(u, "nextBlock")
    <3>4. InBuffer(v) /\ v.out = u.out
          /\ v.state = IF u.error = "none" THEN "nextBlock" ELSE "delimiter"
      BY <3>2, ThenFields DEF Grown, State
    <3>5. block(s, b) = v /\ u.out # <<>>
      BY <3>1, <3>3
    <3> HIDE DEF u, v
    <3> QED
      BY <3>3, <3>4, <3>5 DEF WellFormed
  <2>3. CASE ~(t.error = "none" /\ t.left = 0)
    <3>1. block(s, b) = Then(t, "block")
      BY <1>2, <2>3 DEF block
    <3> HIDE DEF t
    <3>2. t.left \in Nat
      BY <2>1 DEF Grown, InBuffer, Decoder
    <3> DEFINE v == Then(t, "block")
    <3>3. InBuffer(v) /\ v.out = t.out /\ v.left = t.left
          /\ v.state = IF t.error = "none" THEN "block" ELSE "delimiter"
      BY <2>1, ThenFields DEF Grown, State
    <3>4. block(s, b) = v
      BY <3>1
    <3> HIDE DEF v
    <3> QED
      BY <2>1, <2>3, <3>2, <3>3, <3>4 DEF Grown, WellFormed
  <2> QED
    BY <2>2, <2>3
<1> QED
  BY <1>1, <1>2

\* finishPacket empties the buffer; only "nextBlock" calls it.
LEMMA FinishPacketWellFormed ==
  ASSUME NEW s, WellFormed(s), s.state = "nextBlock", s.error = "none", NEW ok \in BOOLEAN
  PROVE  WellFormed(finishPacket(s, ok)) /\ finishPacket(s, ok).out = <<>>
<1> DEFINE n == Len(s.out) - (IF Last(s.out) = 0 THEN 1 ELSE 0)
<1>1. s \in Decoder /\ s.out \in Seq(Byte) /\ Len(s.out) \in Nat \ {0}
  BY DEF WellFormed, InBuffer, Decoder
<1>2. n \in 0 .. Len(s.out)
  <2>1. CASE Last(s.out) = 0
    BY <1>1, <2>1
  <2>2. CASE Last(s.out) # 0
    BY <1>1, <2>2
  <2> QED
    BY <2>1, <2>2
<1>3. <<>> \in Seq(Byte) /\ Len(<<>>) <= maxSize
  BY SizeAssumption
<1>4. CASE n = 0
  <2>1. finishPacket(s, ok) =
          [s EXCEPT !.out = <<>>, !.state = "delimiter", !.error = "CobsBadEncoding"]
    BY <1>4 DEF finishPacket, fail
  <2> HIDE DEF n
  <2> QED
    BY <1>1, <1>3, <2>1 DEF WellFormed, InBuffer, Decoder, State
<1>5. CASE n # 0
  <2> DEFINE p == SubSeq(s.out, 1, n)
             t == [s EXCEPT !.packet = p, !.out = <<>>, !.error = IF ok THEN "none" ELSE "callback"]
  <2>1. finishPacket(s, ok) = Then(t, "start")
    BY <1>5 DEF finishPacket
  <2>2. p \in Seq(Byte)
    BY <1>1, <1>2, <1>5
  <2> HIDE DEF n, p
  <2>3. InBuffer(t) /\ t.out = <<>>
    BY <1>1, <1>3, <2>2 DEF InBuffer, Decoder
  <2> DEFINE v == Then(t, "start")
  <2>4. InBuffer(v) /\ v.out = t.out /\ v.state \in {"start", "delimiter"}
    BY <2>3, ThenFields, ZenonT(60) DEF State
  <2>5. finishPacket(s, ok) = v
    BY <2>1
  <2> HIDE DEF t, v
  <2> QED
    BY <2>3, <2>4, <2>5 DEF WellFormed
<1> QED
  BY <1>4, <1>5

\* The state "nextBlock".
LEMMA NextBlockLeaves ==
  ASSUME NEW s, WellFormed(s), s.state = "nextBlock", s.error = "none",
         NEW b \in Byte, NEW ok \in BOOLEAN
  PROVE  WellFormed(nextBlock(s, b, ok))
<1>1. CASE b = 0
  BY <1>1, FinishPacketWellFormed DEF nextBlock
<1>2. CASE b = 1
  <2> DEFINE u == startBlock(s, b)
             t == finishBlock(u)
  <2>0. b # 0 /\ b \in Byte \ {0}
    BY <1>2
  <2>1. InBuffer(u) /\ u.out = s.out /\ u.state = "nextBlock"
    <3>1. InBuffer(s)
      BY DEF WellFormed
    <3>2. InBuffer(u) /\ u.out = s.out /\ u.state = s.state /\ (b = 1 => u.zero)
      BY <2>0, <3>1, StartBlockFields
    <3> QED
      BY <1>2, <3>2
  <2>2. Grown(t, u)
    BY <2>1, FinishBlockGrows
  <2>3. nextBlock(s, b, ok) = t
    BY <1>2 DEF nextBlock
  <2> HIDE DEF t, u
  <2> QED
    BY <2>1, <2>2, <2>3 DEF Grown, WellFormed
<1>3. CASE b \notin {0, 1}
  <2>1. nextBlock(s, b, ok) = transit(startBlock(s, b), "block")
    BY <1>3 DEF nextBlock
  <2>2. InBuffer(startBlock(s, b)) /\ startBlock(s, b).out = s.out
        /\ startBlock(s, b).left = b - 1 /\ b - 1 > 0
    BY <1>3, NonZero, StartBlockFields DEF WellFormed
  <2> DEFINE u == startBlock(s, b)
             v == transit(u, "block")
  <2>3. InBuffer(v) /\ v.out = u.out /\ v.left = u.left /\ v.state = "block"
    BY <2>2, ThenFields DEF State
  <2> HIDE DEF u, v
  <2> QED
    BY <2>1, <2>2, <2>3 DEF WellFormed, u, v
<1> QED
  BY <1>1, <1>2, <1>3

\* Whatever byte a decoder is given.
LEMMA ConsumeLeaves ==
  ASSUME NEW s, WellFormed(s), NEW b \in Byte, NEW ok \in BOOLEAN
  PROVE  WellFormed(consume(s, b, ok))
<1> DEFINE t == [s EXCEPT !.error = "none", !.packet = <<>>]
<1>1. WellFormed(t) /\ t.error = "none" /\ t.state = s.state /\ t.out = s.out /\ t.state \in State
  <2>1. <<>> \in Seq(Byte)
    OBVIOUS
  <2>2. t \in Decoder /\ t.error = "none" /\ t.state = s.state /\ t.out = s.out /\ t.left = s.left
    BY <2>1 DEF WellFormed, InBuffer, Decoder
  <2> HIDE DEF t
  <2> QED
    BY <2>2 DEF WellFormed, InBuffer, Decoder
<1>2. consume(s, b, ok) = CASE t.state = "delimiter" -> delimiter(t, b)
                            [] t.state = "start" -> start(t, b)
                            [] t.state = "block" -> block(t, b)
                            [] t.state = "nextBlock" -> nextBlock(t, b, ok)
  BY DEF consume
<1> HIDE DEF t
<1>3. WellFormed(consume(s, b, ok))
  BY <1>1, <1>2, DelimiterLeaves, StartLeaves, BlockLeaves, NextBlockLeaves DEF State
<1> QED
  BY <1>1, <1>3

-----------------------------------------------------------------------------
(* The state of unstuff's loop, and the output when its block is ended by  *)
(* another code.                                                           *)
Unstuffing == [out : Seq(Byte), left : 0 .. K, code : 0 .. K]
Ended(u) == IF u.code = K THEN u.out ELSE Append(u.out, 0)

(* o ends with t, or is t. *)
EndsWith(o, t, all) == \E x \in Seq(Byte) : o = x \o t /\ (all => x = <<>>)

NonZeroLast(o) == o # <<>> /\ o[Len(o)] # 0

(* How the decoder s follows unstuff's loop u within a block and after it. *)
InBlock(s, u, all) ==
  /\ u.left = s.left /\ u.code \in 2 .. K /\ s.left <= u.code - 1
  /\ s.zero = (u.code # K)
  /\ EndsWith(s.out, u.out, all)
  /\ s.left < u.code - 1 => NonZeroLast(u.out)
AfterBlock(s, u, all) ==
  /\ u.left = 0 /\ u.code \in 1 .. K
  /\ EndsWith(s.out, Ended(u), all)
  /\ u.code = K => NonZeroLast(u.out)
Follows(s, u, all) ==
  /\ s.state # "start" /\ (all => s.state # "delimiter")
  /\ s.state = "block" => InBlock(s, u, all)
  /\ s.state = "nextBlock" => AfterBlock(s, u, all)

\* A turn of unstuff's loop keeps its types.
LEMMA UnstuffTypes ==
  ASSUME NEW u \in Unstuffing, NEW b \in Byte
  PROVE  unstuffByte(u, b) \in Unstuffing /\ Ended(u) \in Seq(Byte)
<1>0. 0 \in Byte /\ K \in Nat
  BY KAssumption DEF Byte
<1>1. Append(u.out, b) \in Seq(Byte) /\ Append(u.out, 0) \in Seq(Byte)
  BY <1>0 DEF Unstuffing
<1>2. (b - 1) % (K + 1) \in 0 .. K
  BY KAssumption DEF Byte
<1>3. CASE u.left > 0
  <2>1. unstuffByte(u, b) = [u EXCEPT !.out = Append(u.out, b), !.left = u.left - 1]
    BY <1>3 DEF unstuffByte
  <2>2. u.left - 1 \in 0 .. K
    BY <1>0, <1>3 DEF Unstuffing
  <2>3. Ended(u) \in Seq(Byte)
    BY <1>1 DEF Ended, Unstuffing
  <2> QED BY <1>1, <2>1, <2>2, <2>3 DEF Unstuffing
<1>4. CASE ~(u.left > 0)
  <2>1. unstuffByte(u, b) = [out |-> Ended(u), left |-> (b - 1) % (K + 1), code |-> b]
    BY <1>4 DEF unstuffByte, Ended
  <2>2. Ended(u) \in Seq(Byte)
    BY <1>1 DEF Ended, Unstuffing
  <2> QED BY <1>2, <2>1, <2>2 DEF Unstuffing, Byte
<1> QED BY <1>3, <1>4

\* What ends with t ends with t and b after b.
LEMMA EndsAppend ==
  ASSUME NEW o \in Seq(Byte), NEW t \in Seq(Byte), NEW all \in BOOLEAN, EndsWith(o, t, all),
         NEW b \in Byte
  PROVE  EndsWith(Append(o, b), Append(t, b), all)
<1>1. PICK x \in Seq(Byte) : o = x \o t /\ (all => x = <<>>)
  BY DEF EndsWith
<1>2. <<b>> \in Seq(Byte)
  OBVIOUS
<1>3. Append(o, b) = o \o <<b>> /\ Append(t, b) = t \o <<b>>
  BY AppendIsConcat
<1>4. (x \o t) \o <<b>> = x \o (t \o <<b>>)
  BY <1>2, ConcatAssociative
<1>5. Append(o, b) = x \o Append(t, b)
  BY <1>1, <1>3, <1>4
<1> QED BY <1>1, <1>5 DEF EndsWith

\* Anything ends with nothing.
LEMMA EndsEmpty ==
  ASSUME NEW o \in Seq(Byte), NEW all \in BOOLEAN, all => o = <<>>
  PROVE  EndsWith(o, <<>>, all)
<1>1. o = o \o <<>>
  BY ConcatEmptySeq
<1> QED BY <1>1 DEF EndsWith

\* The end in the words of the library.
LEMMA EndsIsSuffix ==
  ASSUME NEW o \in Seq(Byte), NEW t \in Seq(Byte), NEW all \in BOOLEAN, EndsWith(o, t, all)
  PROVE  IsSuffix(t, o) /\ (all => o = t)
<1>1. PICK x \in Seq(Byte) : o = x \o t /\ (all => x = <<>>)
  BY DEF EndsWith
<1>2. Len(o) = Len(x) + Len(t)
      /\ \A i \in 1 .. Len(x) + Len(t) : o[i] = IF i <= Len(x) THEN x[i] ELSE t[i - Len(x)]
  BY <1>1, ConcatProperties
<1> DEFINE m == Len(x)
           n == Len(t)
           r == Reverse(t)
           q == Reverse(o)
<1>3. m \in Nat /\ n \in Nat /\ Len(o) = m + n
  BY <1>2
<1>4. r = [i \in 1 .. n |-> t[n - i + 1]] /\ q = [i \in 1 .. m + n |-> o[m + n - i + 1]]
  BY <1>3 DEF Reverse
<1>5. Len(r) = n /\ Len(q) = m + n
  BY <1>3, <1>4
<1>6. \A i \in 1 .. n : r[i] = q[i]
  <2> TAKE i \in 1 .. n
  <2>1. m + n - i + 1 \in 1 .. m + n /\ ~(m + n - i + 1 <= m) /\ m + n - i + 1 - m = n - i + 1
    BY <1>3
  <2>2. o[m + n - i + 1] = t[m + n - i + 1 - m]
    BY <1>2, <2>1
  <2> QED BY <1>3, <1>4, <2>1, <2>2
<1> HIDE DEF m, n, r, q
<1>7. SubSeq(r, 1, n) = SubSeq(q, 1, n)
  BY <1>3, <1>6
<1>8. IsPrefix(r, q)
  BY <1>3, <1>5, <1>7 DEF IsPrefix
<1>9. all => o = t
  BY <1>1, ConcatEmptySeq
<1> QED BY <1>8, <1>9 DEF IsSuffix, r, q

\* Without its last zero.
LEMMA EndsCut ==
  ASSUME NEW o \in Seq(Byte), NEW t \in Seq(Byte), NEW all \in BOOLEAN,
         EndsWith(o, Append(t, 0), all)
  PROVE  o # <<>> /\ o[Len(o)] = 0 /\ EndsWith(SubSeq(o, 1, Len(o) - 1), t, all)
<1>0. 0 \in Byte
  BY KAssumption DEF Byte
<1>1. PICK x \in Seq(Byte) : o = x \o Append(t, 0) /\ (all => x = <<>>)
  BY DEF EndsWith
<1>2. <<0>> \in Seq(Byte) /\ Append(t, 0) = t \o <<0>>
  BY <1>0, AppendIsConcat
<1> DEFINE y == x \o t
<1>3. y \in Seq(Byte) /\ o = y \o <<0>>
  BY <1>1, <1>2, ConcatAssociative, ConcatProperties
<1> HIDE DEF y
<1>4. o = Append(y, 0)
  BY <1>0, <1>3, AppendIsConcat
<1>5. o # <<>> /\ Len(o) = Len(y) + 1 /\ o[Len(y) + 1] = 0 /\ \A i \in 1 .. Len(y) : o[i] = y[i]
  BY <1>0, <1>3, <1>4, AppendProperties
<1>6. SubSeq(o, 1, Len(o) - 1) = y
  <2>1. Len(o) - 1 = Len(y) /\ Len(y) \in Nat
    BY <1>3, <1>5
  <2>2. SubSeq(o, 1, Len(y)) = [i \in 1 .. Len(y) |-> y[i]]
    BY <2>1, <1>5
  <2>3. y = [i \in 1 .. Len(y) |-> y[i]]
    BY <1>3
  <2> QED BY <2>1, <2>2, <2>3
<1>7. EndsWith(y, t, all)
  BY <1>1 DEF EndsWith, y
<1> QED BY <1>3, <1>5, <1>6, <1>7

\* What ends with t has the last byte of t.
LEMMA EndsLast ==
  ASSUME NEW o \in Seq(Byte), NEW t \in Seq(Byte), NEW all \in BOOLEAN, EndsWith(o, t, all),
         NonZeroLast(t)
  PROVE  NonZeroLast(o)
<1>1. PICK x \in Seq(Byte) : o = x \o t
  BY DEF EndsWith
<1>2. Len(o) = Len(x) + Len(t)
      /\ \A i \in 1 .. Len(x) + Len(t) : o[i] = IF i <= Len(x) THEN x[i] ELSE t[i - Len(x)]
  BY <1>1, ConcatProperties
<1>3. Len(t) \in Nat \ {0} /\ Len(x) \in Nat
  BY DEF NonZeroLast
<1>4. Len(o) \in 1 .. Len(x) + Len(t) /\ ~(Len(o) <= Len(x)) /\ Len(o) - Len(x) = Len(t)
  BY <1>2, <1>3
<1>5. o[Len(o)] = t[Len(t)]
  BY <1>2, <1>4
<1> QED BY <1>3, <1>4, <1>5 DEF NonZeroLast

-----------------------------------------------------------------------------
\* What append does to a buffer that has room.
LEMMA Appends ==
  ASSUME NEW s, InBuffer(s), s.error = "none", NEW b \in Byte,
         append(s, b).error # "PacketTooBig"
  PROVE  /\ InBuffer(append(s, b)) /\ append(s, b).out = Append(s.out, b)
         /\ append(s, b).left = IF s.left = 0 THEN SIZE_MAX ELSE s.left - 1
         /\ append(s, b).state = s.state /\ append(s, b).zero = s.zero
         /\ append(s, b).error = "none"
<1> DEFINE t == append(s, b)
<1>1. Len(s.out) < maxSize
  <2> SUFFICES ASSUME ~(Len(s.out) < maxSize) PROVE FALSE
    OBVIOUS
  <2>1. Len(s.out) >= maxSize
    BY SizeAssumption DEF InBuffer, Decoder
  <2>2. t = [s EXCEPT !.error = "PacketTooBig"]
    BY <2>1 DEF append
  <2> QED BY <2>2 DEF InBuffer, Decoder
<1>2. t = [s EXCEPT !.out = Append(s.out, b), !.left = IF s.left = 0 THEN SIZE_MAX ELSE s.left - 1]
  BY <1>1, SizeAssumption DEF append, InBuffer, Decoder
<1>3. InBuffer(t)
  BY AppendGrows DEF Grown
<1> DEFINE o == Append(s.out, b)
           l == IF s.left = 0 THEN SIZE_MAX ELSE s.left - 1
<1>4. t = [s EXCEPT !.out = o, !.left = l]
  BY <1>2
<1> HIDE DEF o, l
<1>5. t.out = o /\ t.left = l /\ t.state = s.state /\ t.zero = s.zero /\ t.error = s.error
  BY <1>4 DEF InBuffer, Decoder
<1> QED BY <1>3, <1>5 DEF o, l

\* finishBlock ends what unstuff's loop has gathered.
LEMMA BlockFinished ==
  ASSUME NEW s, InBuffer(s), s.error = "none", NEW u \in Unstuffing, NEW all \in BOOLEAN,
         u.code \in 1 .. K, s.zero = (u.code # K), EndsWith(s.out, u.out, all),
         finishBlock(s).error # "PacketTooBig"
  PROVE  /\ InBuffer(finishBlock(s)) /\ finishBlock(s).error = "none"
         /\ finishBlock(s).state = s.state
         /\ EndsWith(finishBlock(s).out, Ended(u), all)
<1>0. 0 \in Byte /\ s.out \in Seq(Byte) /\ u.out \in Seq(Byte) /\ u.code # 0
  BY KAssumption DEF Byte, InBuffer, Decoder, Unstuffing
<1>1. CASE s.zero
  <2>1. finishBlock(s) = append(s, 0) /\ Ended(u) = Append(u.out, 0)
    BY <1>0, <1>1 DEF finishBlock, Ended
  <2>2. EndsWith(Append(s.out, 0), Append(u.out, 0), all)
    BY <1>0, EndsAppend
  <2> QED BY <1>0, <2>1, <2>2, Appends
<1>2. CASE ~s.zero
  <2>1. finishBlock(s) = s /\ Ended(u) = u.out
    BY <1>0, <1>2 DEF finishBlock, Ended
  <2> QED BY <2>1
<1> QED BY <1>1, <1>2

\* A code in unstuff's loop.
LEMMA CodeRead ==
  ASSUME NEW u \in Unstuffing, u.left = 0, NEW b \in Byte, b # 0
  PROVE  unstuffByte(u, b) = [out |-> Ended(u), left |-> b - 1, code |-> b]
<1>1. (b - 1) % (K + 1) = b - 1
  BY KAssumption DEF Byte
<1>2. unstuffByte(u, b) = [out |-> Ended(u), left |-> (b - 1) % (K + 1), code |-> b]
  BY DEF unstuffByte, Ended
<1> QED BY <1>1, <1>2

\* A byte of a block in unstuff's loop.
LEMMA ByteRead ==
  ASSUME NEW u \in Unstuffing, u.left > 0, NEW b \in Byte
  PROVE  unstuffByte(u, b) = [u EXCEPT !.out = Append(u.out, b), !.left = u.left - 1]
  BY DEF unstuffByte

\* A block starts: nothing is added to the buffer.
LEMMA BlockStarted ==
  ASSUME NEW s, InBuffer(s), NEW u \in Unstuffing, u.left = 0, NEW all \in BOOLEAN,
         EndsWith(s.out, Ended(u), all), NEW b \in Byte, b \notin {0, 1}
  PROVE  Follows(transit(startBlock(s, b), "block"), unstuffByte(u, b), all)
<1> DEFINE t == startBlock(s, b)
           v == transit(t, "block")
           w == unstuffByte(u, b)
<1>1. b \in Byte \ {0} /\ b # 0
  OBVIOUS
<1>2. InBuffer(t) /\ t.out = s.out /\ t.left = b - 1 /\ t.zero = (b # K)
  <2>1. InBuffer(t) /\ t = [s EXCEPT !.left = b - 1, !.zero = (b # K)]
    BY <1>1, StartBlockFields
  <2> QED BY <2>1 DEF InBuffer, Decoder
<1>3. w = [out |-> Ended(u), left |-> b - 1, code |-> b]
  BY <1>1, CodeRead
<1> HIDE DEF t
<1>4. v.out = s.out /\ v.left = b - 1 /\ v.zero = (b # K) /\ v.state = "block"
  BY <1>2 DEF transit, InBuffer, Decoder
<1>5. b \in 2 .. K /\ b - 1 <= b - 1 /\ ~(b - 1 < b - 1)
  BY KAssumption DEF Byte
<1>6. w.out = Ended(u) /\ w.left = b - 1 /\ w.code = b
  BY <1>3
<1>7. InBlock(v, w, all)
  BY <1>4, <1>5, <1>6 DEF InBlock
<1> QED BY <1>4, <1>7 DEF Follows, t

\* A code of 1 ends its block at once.
LEMMA EmptyBlock ==
  ASSUME NEW s, InBuffer(s), s.error = "none", NEW u \in Unstuffing, u.left = 0,
         NEW all \in BOOLEAN, EndsWith(s.out, Ended(u), all),
         finishBlock(startBlock(s, 1)).error # "PacketTooBig"
  PROVE  /\ finishBlock(startBlock(s, 1)).state = s.state
         /\ finishBlock(startBlock(s, 1)).error = "none"
         /\ InBuffer(finishBlock(startBlock(s, 1)))
         /\ AfterBlock(finishBlock(startBlock(s, 1)), unstuffByte(u, 1), all)
<1> DEFINE t == startBlock(s, 1)
           w == unstuffByte(u, 1)
<1>1. 1 \in Byte \ {0} /\ 1 # 0 /\ 1 # K /\ 1 \in 1 .. K
  BY KAssumption DEF Byte
<1>2. InBuffer(t) /\ t.out = s.out /\ t.zero /\ t.state = s.state /\ t.error = s.error
  BY <1>1, StartBlockFields
<1>3. w = [out |-> Ended(u), left |-> 0, code |-> 1]
  BY <1>1, CodeRead
<1>4. w \in Unstuffing /\ w.out = Ended(u) /\ w.left = 0 /\ w.code = 1
  BY <1>1, <1>3, UnstuffTypes
<1> HIDE DEF t, w
<1>5. t.zero = (w.code # K) /\ EndsWith(t.out, w.out, all) /\ t.error = "none"
  BY <1>1, <1>2, <1>4 DEF InBuffer, Decoder
<1>6. /\ InBuffer(finishBlock(t)) /\ finishBlock(t).error = "none"
      /\ finishBlock(t).state = t.state /\ EndsWith(finishBlock(t).out, Ended(w), all)
  BY <1>1, <1>2, <1>4, <1>5, BlockFinished DEF t
<1>7. AfterBlock(finishBlock(t), w, all)
  BY <1>1, <1>4, <1>6 DEF AfterBlock
<1> QED BY <1>2, <1>6, <1>7 DEF t, w

-----------------------------------------------------------------------------
\* A transition does not touch what the relations are about.
LEMMA Transits ==
  ASSUME NEW s, InBuffer(s), NEW to \in State, s.error = "none"
  PROVE  /\ Then(s, to) = transit(s, to)
         /\ transit(s, to).out = s.out /\ transit(s, to).left = s.left
         /\ transit(s, to).zero = s.zero /\ transit(s, to).state = to
         /\ transit(s, to).error = "none"
  BY DEF Then, transit, InBuffer, Decoder

\* The first byte of a frame.
LEMMA StartFollows ==
  ASSUME NEW s, WellFormed(s), s.state = "start", s.error = "none", NEW all \in BOOLEAN,
         all => s.out = <<>>, NEW b \in Byte, b # 0, start(s, b).error # "PacketTooBig"
  PROVE  Follows(start(s, b), unstuffByte(First("unstuff"), b), all)
<1> DEFINE u == First("unstuff")
<1>1. InBuffer(s) /\ s.out \in Seq(Byte)
  BY DEF WellFormed, InBuffer, Decoder
<1>2. u = [out |-> <<>>, left |-> 0, code |-> K] /\ u \in Unstuffing /\ u.left = 0
      /\ Ended(u) = <<>>
  BY KAssumption DEF First, Unstuffing, Ended
<1>3. EndsWith(s.out, Ended(u), all)
  BY <1>1, <1>2, EndsEmpty
<1> HIDE DEF u
<1>4. CASE b = 1
  <2> DEFINE t == finishBlock(startBlock(s, 1))
  <2>1. start(s, b) = Then(t, "nextBlock")
    BY <1>4 DEF start
  <2>2. t.error # "PacketTooBig"
    <3> SUFFICES ASSUME t.error = "PacketTooBig" PROVE FALSE
      OBVIOUS
    <3>1. 1 \in Byte \ {0}
      BY KAssumption DEF Byte
    <3>2. InBuffer(t)
      BY <1>1, <3>1, StartBlockFields, FinishBlockGrows DEF Grown
    <3>3. Then(t, "nextBlock").error = t.error
      BY <3>2 DEF Then, transit, InBuffer, Decoder
    <3> QED BY <2>1, <3>3
  <2>3. t.error = "none" /\ InBuffer(t) /\ AfterBlock(t, unstuffByte(u, 1), all)
    BY <1>1, <1>2, <1>3, <2>2, EmptyBlock
  <2> DEFINE v == transit(t, "nextBlock")
  <2> HIDE DEF t
  <2>4. start(s, b) = v /\ v.out = t.out /\ v.state = "nextBlock"
    BY <2>1, <2>3, Transits DEF State
  <2> QED BY <1>4, <2>3, <2>4 DEF Follows, AfterBlock, u
<1>5. CASE b # 1
  <2>1. start(s, b) = transit(startBlock(s, b), "block")
    BY <1>5 DEF start
  <2> QED BY <1>1, <1>2, <1>3, <1>5, <2>1, BlockStarted DEF u
<1> QED BY <1>4, <1>5

\* A code after a block.
LEMMA NextBlockFollows ==
  ASSUME NEW s, WellFormed(s), s.state = "nextBlock", s.error = "none", NEW all \in BOOLEAN,
         NEW u \in Unstuffing, AfterBlock(s, u, all), NEW ok \in BOOLEAN,
         NEW b \in Byte, b # 0, nextBlock(s, b, ok).error # "PacketTooBig"
  PROVE  Follows(nextBlock(s, b, ok), unstuffByte(u, b), all)
<1>1. InBuffer(s) /\ u.left = 0 /\ EndsWith(s.out, Ended(u), all)
  BY DEF WellFormed, AfterBlock
<1>2. CASE b = 1
  <2> DEFINE t == finishBlock(startBlock(s, 1))
  <2>1. nextBlock(s, b, ok) = t
    BY <1>2 DEF nextBlock
  <2>2. t.state = s.state /\ AfterBlock(t, unstuffByte(u, 1), all)
    BY <1>1, <2>1, EmptyBlock
  <2> QED BY <1>2, <2>1, <2>2 DEF Follows
<1>3. CASE b # 1
  <2>1. nextBlock(s, b, ok) = transit(startBlock(s, b), "block")
    BY <1>3 DEF nextBlock
  <2> QED BY <1>1, <1>3, <2>1, BlockStarted
<1> QED BY <1>2, <1>3

\* A byte of a block, the last one or not.
LEMMA BlockFollows ==
  ASSUME NEW s, WellFormed(s), s.state = "block", s.error = "none", NEW all \in BOOLEAN,
         NEW u \in Unstuffing, InBlock(s, u, all),
         NEW b \in Byte, b # 0, block(s, b).error # "PacketTooBig"
  PROVE  Follows(block(s, b), unstuffByte(u, b), all)
<1> DEFINE t == append(s, b)
           w == unstuffByte(u, b)
<1>1. InBuffer(s) /\ s.left > 0 /\ s.left \in Nat /\ s.out \in Seq(Byte)
  BY DEF WellFormed, InBuffer, Decoder
<1>2. u.out \in Seq(Byte) /\ u.left = s.left /\ u.code \in 2 .. K /\ s.left <= u.code - 1
      /\ s.zero = (u.code # K) /\ EndsWith(s.out, u.out, all)
  BY DEF InBlock, Unstuffing
<1>3. InBuffer(t)
  BY <1>1, AppendGrows DEF Grown
<1>4. t.error # "PacketTooBig"
  <2> SUFFICES ASSUME t.error = "PacketTooBig" PROVE FALSE
    OBVIOUS
  <2>1. block(s, b) = Then(t, "block")
    BY DEF block
  <2> HIDE DEF t
  <2>2. Then(t, "block").error = t.error
    BY <1>3 DEF Then, transit, InBuffer, Decoder
  <2> QED BY <2>1, <2>2
<1>5. t.out = Append(s.out, b) /\ t.left = s.left - 1 /\ t.zero = s.zero /\ t.error = "none"
  <2>1. t.left = IF s.left = 0 THEN SIZE_MAX ELSE s.left - 1
    BY <1>1, <1>4, Appends
  <2> QED BY <1>1, <1>4, <2>1, Appends
<1>6. w = [u EXCEPT !.out = Append(u.out, b), !.left = u.left - 1] /\ w \in Unstuffing
  BY <1>1, <1>2, ByteRead, UnstuffTypes
<1>7. w.out = Append(u.out, b) /\ w.left = t.left /\ w.code = u.code
  BY <1>2, <1>5, <1>6 DEF Unstuffing
<1>8. EndsWith(t.out, w.out, all)
  BY <1>1, <1>2, <1>5, <1>7, EndsAppend
<1>9. NonZeroLast(w.out)
  BY <1>2, <1>7, AppendProperties DEF NonZeroLast
<1>10. CASE t.left = 0
  <2> DEFINE f == finishBlock(t)
  <2>1. block(s, b) = Then(f, "nextBlock")
    BY <1>5, <1>10 DEF block
  <2> HIDE DEF t, w
  <2>2. f.error # "PacketTooBig"
    <3> SUFFICES ASSUME f.error = "PacketTooBig" PROVE FALSE
      OBVIOUS
    <3>1. InBuffer(f)
      BY <1>3, FinishBlockGrows DEF Grown
    <3> HIDE DEF f
    <3>2. Then(f, "nextBlock").error = f.error
      BY <3>1 DEF Then, transit, InBuffer, Decoder
    <3> QED BY <2>1, <3>2
  <2>3. w.code \in 1 .. K /\ t.zero = (w.code # K)
    BY <1>2, <1>5, <1>7, KAssumption
  <2>4. InBuffer(f) /\ f.error = "none" /\ EndsWith(f.out, Ended(w), all)
    BY <1>3, <1>5, <1>6, <1>8, <2>2, <2>3, BlockFinished
  <2> DEFINE v == transit(f, "nextBlock")
  <2> HIDE DEF f
  <2>5. block(s, b) = v /\ v.out = f.out /\ v.state = "nextBlock"
    BY <2>1, <2>4, Transits DEF State
  <2>6. AfterBlock(v, w, all)
    BY <1>7, <1>9, <1>10, <2>3, <2>4, <2>5 DEF AfterBlock
  <2> QED BY <2>5, <2>6 DEF Follows, w
<1>11. CASE t.left # 0
  <2> DEFINE v == transit(t, "block")
  <2>1. block(s, b) = Then(t, "block")
    BY <1>11 DEF block
  <2> HIDE DEF t, w
  <2>2. block(s, b) = v /\ v.out = t.out /\ v.left = t.left /\ v.zero = t.zero /\ v.state = "block"
    BY <1>3, <1>5, <2>1, Transits DEF State
  <2>3. t.left <= w.code - 1
    BY <1>1, <1>2, <1>5, <1>7
  <2>4. InBlock(v, w, all)
    BY <1>2, <1>5, <1>7, <1>8, <1>9, <2>2, <2>3 DEF InBlock
  <2> QED BY <2>2, <2>4 DEF Follows, w
<1> QED BY <1>10, <1>11

\* finishPacket hands out what unstuff returns.
LEMMA PacketFinished ==
  ASSUME NEW s, WellFormed(s), s.state = "nextBlock", s.packet = <<>>, NEW all \in BOOLEAN,
         NEW u \in Unstuffing, AfterBlock(s, u, all), NEW ok \in BOOLEAN
  PROVE  /\ all => finishPacket(s, ok).packet = u.out
         /\ finishPacket(s, ok).packet # <<>> => IsSuffix(u.out, finishPacket(s, ok).packet)
         /\ u.out # <<>> => finishPacket(s, ok).packet # <<>>
<1> DEFINE n == Len(s.out) - (IF Last(s.out) = 0 THEN 1 ELSE 0)
           p == SubSeq(s.out, 1, n)
           t == finishPacket(s, ok)
<1>1. s.out \in Seq(Byte) /\ s.out # <<>> /\ Len(s.out) \in Nat \ {0} /\ s \in Decoder
  BY DEF WellFormed, InBuffer, Decoder
<1>2. Last(s.out) = s.out[Len(s.out)]
  BY DEF Last
<1>3. u.out \in Seq(Byte) /\ u.code \in 1 .. K /\ EndsWith(s.out, Ended(u), all)
  BY DEF AfterBlock, Unstuffing
<1>4. EndsWith(p, u.out, all) /\ n \in Nat /\ n <= Len(s.out)
  <2>1. CASE u.code = K
    <3>1. Ended(u) = u.out /\ NonZeroLast(u.out)
      BY <2>1 DEF Ended, AfterBlock
    <3>2. s.out[Len(s.out)] # 0
      BY <1>1, <1>3, <3>1, EndsLast DEF NonZeroLast
    <3>3. n = Len(s.out)
      BY <1>1, <1>2, <3>2
    <3> HIDE DEF n
    <3>4. p = s.out
      BY <1>1, <3>3, SubSeqFull
    <3> HIDE DEF p
    <3> QED BY <1>1, <1>3, <3>1, <3>3, <3>4
  <2>2. CASE u.code # K
    <3>1. Ended(u) = Append(u.out, 0)
      BY <1>3, <2>2 DEF Ended
    <3>2. s.out[Len(s.out)] = 0 /\ EndsWith(SubSeq(s.out, 1, Len(s.out) - 1), u.out, all)
      BY <1>1, <1>3, <3>1, EndsCut
    <3>3. n = Len(s.out) - 1
      BY <1>1, <1>2, <3>2
    <3> HIDE DEF n
    <3>4. p = SubSeq(s.out, 1, Len(s.out) - 1)
      BY <3>3
    <3> QED BY <1>1, <3>2, <3>3, <3>4
  <2> QED BY <2>1, <2>2
<1>5. p \in Seq(Byte) /\ (n = 0 => p = <<>>)
  <2> HIDE DEF n
  <2>1. \A i \in 1 .. n : s.out[i] \in Byte
    BY <1>1, <1>4, ElementOfSeq
  <2> QED BY <1>4, <2>1, SubSeqProperties, SubSeqEmpty
<1>6. IsSuffix(u.out, p) /\ (all => p = u.out)
  BY <1>3, <1>4, <1>5, EndsIsSuffix, ZenonT(60)
<1>7. t.packet = p
  <2>1. CASE n = 0
    <3>1. t = [s EXCEPT !.out = <<>>, !.state = "delimiter", !.error = "CobsBadEncoding"]
      BY <2>1 DEF finishPacket, fail
    <3>2. t.packet = s.packet
      BY <1>1, <3>1 DEF Decoder
    <3> QED BY <1>5, <2>1, <3>2
  <2>2. CASE n # 0
    <3> DEFINE v == [s EXCEPT !.packet = p, !.out = <<>>,
                              !.error = IF ok THEN "none" ELSE "callback"]
    <3>1. t = Then(v, "start")
      BY <2>2 DEF finishPacket
    <3> HIDE DEF p, n
    <3>2. v.packet = p /\ v \in Decoder
      BY <1>1, <1>5 DEF Decoder
    <3> HIDE DEF v
    <3>3. Then(v, "start").packet = v.packet
      BY <3>2 DEF Then, transit, Decoder
    <3> QED BY <3>1, <3>2, <3>3
  <2> QED BY <2>1, <2>2
<1>8. u.out # <<>> => p # <<>>
  <2> HIDE DEF p
  <2>1. PICK x \in Seq(Byte) : p = x \o u.out
    BY <1>4 DEF EndsWith
  <2>2. Len(p) = Len(x) + Len(u.out) /\ Len(x) \in Nat /\ Len(u.out) \in Nat
    BY <1>3, <2>1
  <2>3. u.out # <<>> => Len(u.out) > 0
    BY <1>3
  <2>4. Len(<<>>) = 0
    OBVIOUS
  <2> QED BY <2>2, <2>3, <2>4
<1> QED BY <1>6, <1>7, <1>8

\* finishPacket is ready for the next frame, or waits for a delimiter.
LEMMA FinishPacketState ==
  ASSUME NEW s, WellFormed(s), s.state = "nextBlock", s.error = "none", NEW ok \in BOOLEAN
  PROVE  finishPacket(s, ok).state \in {"start", "delimiter"}
<1> DEFINE n == Len(s.out) - (IF Last(s.out) = 0 THEN 1 ELSE 0)
           p == SubSeq(s.out, 1, n)
           v == [s EXCEPT !.packet = p, !.out = <<>>, !.error = IF ok THEN "none" ELSE "callback"]
<1>1. s \in Decoder
  BY DEF WellFormed, InBuffer
<1>2. CASE n = 0
  <2>1. finishPacket(s, ok) =
          [s EXCEPT !.out = <<>>, !.state = "delimiter", !.error = "CobsBadEncoding"]
    BY <1>2 DEF finishPacket, fail
  <2> QED BY <1>1, <2>1 DEF Decoder
<1>3. CASE n # 0
  <2>1. finishPacket(s, ok) = Then(v, "start")
    BY <1>3 DEF finishPacket
  <2> HIDE DEF n, p
  <2>2. DOMAIN v = DOMAIN s /\ "state" \in DOMAIN s
    BY <1>1 DEF Decoder
  <2> HIDE DEF v
  <2>3. Then(v, "start").state \in {"start", "delimiter"}
    BY <2>2 DEF Then, transit
  <2> QED BY <2>1, <2>3
<1> QED BY <1>2, <1>3

-----------------------------------------------------------------------------
Reset(s) == [s EXCEPT !.error = "none", !.packet = <<>>]

\* unstuff's loop over a frame that grows.
LEMMA FrameGrows ==
  /\ unstuffLoop(<<>>) = First("unstuff") /\ First("unstuff") \in Unstuffing
  /\ \A f \in Seq(Byte), b \in Byte : unstuffLoop(Append(f, b)) = unstuffByte(unstuffLoop(f), b)
<1>1. First("unstuff") \in Unstuffing
  BY KAssumption DEF First, Unstuffing
<1>2. 0 \in Byte
  BY KAssumption DEF Byte
<1>3. \A f \in Seq(Byte), b \in Byte :
        /\ Loop("unstuff", <<>>) = First("unstuff")
        /\ Loop("unstuff", Append(f, b)) = Turn("unstuff", Loop("unstuff", f), b)
  BY LoopGrows
<1>4. \A p : Loop("unstuff", p) = unstuffLoop(p)
  BY DEF Loop
<1>5. \A u, b : Turn("unstuff", u, b) = unstuffByte(u, b)
  BY DEF Turn
<1>6. <<>> \in Seq(Byte)
  OBVIOUS
<1> QED BY <1>1, <1>2, <1>3, <1>4, <1>5, <1>6

\* consume forgets the last call first.
LEMMA ConsumeResets ==
  ASSUME NEW s, WellFormed(s)
  PROVE  /\ WellFormed(Reset(s)) /\ Reset(s).error = "none" /\ Reset(s).packet = <<>>
         /\ Reset(s).state = s.state /\ Reset(s).out = s.out /\ Reset(s).left = s.left
         /\ Reset(s).zero = s.zero /\ s.state \in State
         /\ \A b, ok : consume(s, b, ok) = CASE s.state = "delimiter" -> delimiter(Reset(s), b)
                                             [] s.state = "start" -> start(Reset(s), b)
                                             [] s.state = "block" -> block(Reset(s), b)
                                             [] s.state = "nextBlock" -> nextBlock(Reset(s), b, ok)
<1> DEFINE t == Reset(s)
<1>1. <<>> \in Seq(Byte)
  OBVIOUS
<1>2. t \in Decoder /\ t.error = "none" /\ t.packet = <<>> /\ t.state = s.state /\ t.out = s.out
      /\ t.left = s.left /\ t.zero = s.zero /\ s.state \in State
  BY <1>1 DEF WellFormed, InBuffer, Decoder, Reset
<1>3. \A b, ok : consume(s, b, ok) = CASE t.state = "delimiter" -> delimiter(t, b)
                                       [] t.state = "start" -> start(t, b)
                                       [] t.state = "block" -> block(t, b)
                                       [] t.state = "nextBlock" -> nextBlock(t, b, ok)
  BY DEF consume, Reset
<1> HIDE DEF t
<1>4. WellFormed(t)
  BY <1>2 DEF WellFormed, InBuffer
<1>5. \A b, ok : consume(s, b, ok) = CASE s.state = "delimiter" -> delimiter(t, b)
                                       [] s.state = "start" -> start(t, b)
                                       [] s.state = "block" -> block(t, b)
                                       [] s.state = "nextBlock" -> nextBlock(t, b, ok)
  BY <1>2, <1>3
<1> QED BY <1>2, <1>4, <1>5 DEF t

\* A byte of a frame: e are the bytes of it before.
LEMMA ByteFollows ==
  ASSUME NEW r, WellFormed(r), NEW e \in Seq(Byte), unstuffLoop(e) \in Unstuffing,
         NEW all \in BOOLEAN, all => r.state # "delimiter",
         r.state = "start" => e = <<>> /\ (all => r.out = <<>>),
         e = <<>> => r.state \in {"start", "delimiter"},
         e # <<>> => Follows(r, unstuffLoop(e), all),
         NEW b \in Byte, b # 0, NEW ok \in BOOLEAN, consume(r, b, ok).error # "PacketTooBig"
  PROVE  Follows(consume(r, b, ok), unstuffByte(unstuffLoop(e), b), all)
<1> DEFINE s == Reset(r)
           u == unstuffLoop(e)
           t == consume(r, b, ok)
<1>1. /\ WellFormed(s) /\ s.error = "none" /\ s.packet = <<>>
      /\ s.state = r.state /\ s.out = r.out /\ s.left = r.left /\ s.zero = r.zero
      /\ r.state \in State
      /\ t = CASE r.state = "delimiter" -> delimiter(s, b)
               [] r.state = "start" -> start(s, b)
               [] r.state = "block" -> block(s, b)
               [] r.state = "nextBlock" -> nextBlock(s, b, ok)
  BY ConsumeResets
<1> HIDE DEF s, t
<1>2. CASE r.state = "delimiter"
  <2>1. t = s
    BY <1>1, <1>2 DEF delimiter
  <2>2. all = FALSE
    BY <1>2
  <2> QED BY <1>1, <1>2, <2>1, <2>2 DEF Follows, t
<1>3. CASE r.state = "start"
  <2>1. t = start(s, b)
    BY <1>1, <1>3
  <2>2. u = First("unstuff")
    BY <1>3, FrameGrows
  <2> HIDE DEF u
  <2> QED BY <1>1, <1>3, <2>1, <2>2, StartFollows DEF t, u
<1>4. CASE r.state = "block"
  <2>1. t = block(s, b)
    BY <1>1, <1>4
  <2>2. InBlock(s, u, all)
    BY <1>1, <1>4 DEF Follows, InBlock
  <2> HIDE DEF u
  <2> QED BY <1>1, <1>4, <2>1, <2>2, BlockFollows DEF t, u
<1>5. CASE r.state = "nextBlock"
  <2>1. t = nextBlock(s, b, ok)
    BY <1>1, <1>5
  <2>2. AfterBlock(s, u, all)
    BY <1>1, <1>5 DEF Follows, AfterBlock
  <2> HIDE DEF u
  <2> QED BY <1>1, <1>5, <2>1, <2>2, NextBlockFollows DEF t, u
<1> QED BY <1>1, <1>2, <1>3, <1>4, <1>5 DEF State

-----------------------------------------------------------------------------
(* Nothing failed so far, and no packet was handed out. *)
Quiet(s) == InBuffer(s) /\ s.error = "none" /\ s.packet = <<>>

\* A buffer with room for a byte takes it, and that of finishBlock.
LEMMA AppendFits ==
  ASSUME NEW s, Quiet(s), Len(s.out) < maxSize, NEW b \in Byte
  PROVE  /\ Quiet(append(s, b)) /\ Len(append(s, b).out) = Len(s.out) + 1
         /\ Quiet(finishBlock(s))
<1>1. ASSUME NEW c \in Byte
      PROVE  Quiet(append(s, c)) /\ Len(append(s, c).out) = Len(s.out) + 1
  <2> DEFINE o == Append(s.out, c)
             l == IF s.left = 0 THEN SIZE_MAX ELSE s.left - 1
  <2>1. s \in Decoder /\ s.out \in Seq(Byte) /\ s.error = "none" /\ s.packet = <<>>
        /\ Len(s.out) \in Nat /\ s.left \in Nat
    BY DEF Quiet, InBuffer, Decoder
  <2>2. append(s, c) = [s EXCEPT !.out = o, !.left = l]
    <3>1. ~(Len(s.out) >= maxSize)
      BY <2>1, SizeAssumption
    <3> QED BY <3>1 DEF append
  <2>3. o \in Seq(Byte) /\ Len(o) = Len(s.out) + 1
    BY <2>1, AppendProperties
  <2>4. l \in Nat
    BY <2>1 DEF SIZE_MAX
  <2> HIDE DEF o, l
  <2>5. append(s, c) \in Decoder /\ append(s, c).out = o /\ append(s, c).error = "none"
        /\ append(s, c).packet = <<>>
    BY <2>1, <2>2, <2>3, <2>4 DEF Decoder
  <2>6. Len(o) <= maxSize
    BY <2>1, <2>3, SizeAssumption
  <2> QED BY <2>3, <2>5, <2>6 DEF Quiet, InBuffer
<1>2. 0 \in Byte
  BY KAssumption DEF Byte
<1> QED BY <1>1, <1>2 DEF finishBlock

\* Where an append of two bytes has room, a byte of a frame is no error.
LEMMA RoomForByte ==
  ASSUME NEW r, WellFormed(r), Len(r.out) + 2 <= maxSize, NEW b \in Byte, b # 0,
         NEW ok \in BOOLEAN
  PROVE  consume(r, b, ok).error = "none" /\ consume(r, b, ok).packet = <<>>
<1> DEFINE s == Reset(r)
           t == consume(r, b, ok)
           v == startBlock(s, b)
<1>1. /\ Quiet(s) /\ s.out = r.out /\ s.left = r.left /\ r.state \in State
      /\ t = CASE r.state = "delimiter" -> delimiter(s, b)
               [] r.state = "start" -> start(s, b)
               [] r.state = "block" -> block(s, b)
               [] r.state = "nextBlock" -> nextBlock(s, b, ok)
  BY ConsumeResets DEF WellFormed, Quiet
<1> HIDE DEF s
<1>2. Len(s.out) \in Nat /\ Len(s.out) < maxSize /\ Len(s.out) + 1 < maxSize
  BY <1>1, SizeAssumption DEF Quiet, InBuffer, Decoder
<1>3. Quiet(v) /\ v.out = s.out
  <2>1. InBuffer(v) /\ v = [s EXCEPT !.left = b - 1, !.zero = (b # K)]
    BY <1>1, StartBlockFields, NonZero DEF Quiet
  <2> QED BY <1>1, <2>1 DEF Quiet, InBuffer, Decoder
<1> HIDE DEF t, v
<1>4. \A x, to : Quiet(x) => /\ Then(x, to).error = "none" /\ Then(x, to).packet = <<>>
                             /\ transit(x, to).error = "none" /\ transit(x, to).packet = <<>>
  BY DEF Quiet, Then, transit, InBuffer, Decoder
<1>5. Quiet(finishBlock(v))
  BY <1>2, <1>3, AppendFits, KAssumption DEF Byte
<1>6. CASE r.state = "delimiter"
  BY <1>1, <1>6 DEF delimiter, Quiet, t
<1>7. CASE r.state = "start"
  <2>1. t = IF b = 1 THEN Then(finishBlock(v), "nextBlock") ELSE transit(v, "block")
    BY <1>1, <1>7 DEF start, v
  <2> QED BY <1>3, <1>4, <1>5, <2>1 DEF t
<1>8. CASE r.state = "block"
  <2> DEFINE w == append(s, b)
  <2>1. t = IF w.error = "none" /\ w.left = 0 THEN Then(finishBlock(w), "nextBlock")
            ELSE Then(w, "block")
    BY <1>1, <1>8 DEF block
  <2>2. Quiet(w) /\ Len(w.out) < maxSize
    BY <1>1, <1>2, AppendFits
  <2> HIDE DEF w
  <2>3. Quiet(finishBlock(w))
    BY <2>2, AppendFits
  <2> QED BY <1>4, <2>1, <2>2, <2>3 DEF t
<1>9. CASE r.state = "nextBlock"
  <2>1. t = IF b = 1 THEN finishBlock(v) ELSE transit(v, "block")
    BY <1>1, <1>9 DEF nextBlock, v
  <2> QED BY <1>3, <1>4, <1>5, <2>1 DEF Quiet, t
<1> QED BY <1>1, <1>6, <1>7, <1>8, <1>9 DEF State

\* The zero after a frame hands out what unstuff makes of it.
LEMMA PacketHandedOut ==
  ASSUME NEW r, WellFormed(r), r.state = "nextBlock", NEW u \in Unstuffing,
         AfterBlock(r, u, TRUE), u.out # <<>>, NEW ok \in BOOLEAN
  PROVE  /\ consume(r, 0, ok).packet = u.out
         /\ consume(r, 0, ok).error = IF ok THEN "none" ELSE "callback"
         /\ ok => consume(r, 0, ok).state = "start" /\ consume(r, 0, ok).out = <<>>
<1> DEFINE s == Reset(r)
           t == finishPacket(s, ok)
           n == Len(s.out) - (IF Last(s.out) = 0 THEN 1 ELSE 0)
           p == SubSeq(s.out, 1, n)
           v == [s EXCEPT !.packet = p, !.out = <<>>, !.error = IF ok THEN "none" ELSE "callback"]
<1>1. /\ WellFormed(s) /\ s.error = "none" /\ s.packet = <<>>
      /\ s.state = r.state /\ s.out = r.out /\ s.left = r.left /\ s.zero = r.zero
      /\ consume(r, 0, ok) = t
  BY ConsumeResets DEF nextBlock
<1>2. AfterBlock(s, u, TRUE)
  BY <1>1 DEF AfterBlock
<1> HIDE DEF s
<1>3. t.packet = u.out
  BY <1>1, <1>2, PacketFinished
<1>4. s \in Decoder
  BY <1>1 DEF WellFormed, InBuffer
<1>5. n # 0
  <2> SUFFICES ASSUME n = 0 PROVE FALSE
    OBVIOUS
  <2>1. t = [s EXCEPT !.out = <<>>, !.state = "delimiter", !.error = "CobsBadEncoding"]
    BY DEF finishPacket, fail
  <2>2. t.packet = s.packet
    BY <1>4, <2>1 DEF Decoder
  <2> QED BY <1>1, <1>3, <2>2
<1>6. t = Then(v, "start")
  BY <1>5 DEF finishPacket
<1> HIDE DEF p, n
<1>7. v.error = (IF ok THEN "none" ELSE "callback") /\ v.out = <<>>
      /\ \A to : [v EXCEPT !.state = to].state = to /\ [v EXCEPT !.state = to].out = v.out
                 /\ [v EXCEPT !.state = to].error = v.error
  BY <1>4 DEF Decoder
<1> HIDE DEF v
<1>8. t.error = (IF ok THEN "none" ELSE "callback")
      /\ (ok => t.state = "start" /\ t.out = <<>>)
  BY <1>6, <1>7 DEF Then, transit
<1> QED BY <1>1, <1>3, <1>8

\* A packet for which there is no next buffer is an error.
LEMMA RefusedWithoutBuffer ==
  ASSUME NEW r, WellFormed(r), NEW b \in Byte, consume(r, b, FALSE).packet # <<>>
  PROVE  consume(r, b, FALSE).error # "none"
<1> DEFINE s == Reset(r)
           t == consume(r, b, FALSE)
<1>1. /\ s \in Decoder /\ s.packet = <<>> /\ s.error = "none" /\ r.state \in State
      /\ t = CASE r.state = "delimiter" -> delimiter(s, b)
               [] r.state = "start" -> start(s, b)
               [] r.state = "block" -> block(s, b)
               [] r.state = "nextBlock" -> nextBlock(s, b, FALSE)
  BY ConsumeResets DEF WellFormed, InBuffer
<1> HIDE DEF s, t
<1> DEFINE Same(x) == x \in Decoder /\ x.packet = <<>>
<1>2. \A x, to : Same(x) /\ to \in State => Same(Then(x, to)) /\ Same(transit(x, to))
  BY DEF Then, transit, Decoder, State
<1>3. \A x : Same(x) => Same(fail(x, "CobsBadEncoding"))
  BY DEF fail, Decoder, State
<1>4. ASSUME NEW x, Same(x), NEW c \in Byte PROVE Same(append(x, c))
  <2>1. Append(x.out, c) \in Seq(Byte) /\ (IF x.left = 0 THEN SIZE_MAX ELSE x.left - 1) \in Nat
    BY <1>4, AppendProperties DEF Decoder, SIZE_MAX
  <2> DEFINE o == Append(x.out, c)
             l == IF x.left = 0 THEN SIZE_MAX ELSE x.left - 1
  <2>2. append(x, c) = IF Len(x.out) >= maxSize THEN [x EXCEPT !.error = "PacketTooBig"]
                       ELSE [x EXCEPT !.out = o, !.left = l]
    BY DEF append
  <2>3. o \in Seq(Byte) /\ l \in Nat
    BY <2>1
  <2> HIDE DEF o, l
  <2> QED BY <1>4, <2>2, <2>3 DEF Decoder
<1>5. \A x : Same(x) => Same(finishBlock(x))
  BY <1>4, KAssumption DEF finishBlock, Byte
<1>6. b # 0 => \A x : Same(x) => Same(startBlock(x, b))
  <2>1. b # 0 => b - 1 \in Nat
    BY KAssumption DEF Byte
  <2> QED BY <2>1 DEF startBlock, Decoder
<1>7. t.packet # <<>>
  BY DEF t
<1> HIDE DEF Same
<1>8. Same(s) /\ (Same(t) => FALSE)
  BY <1>1, <1>7 DEF Same
<1>9. CASE r.state = "delimiter"
  BY <1>1, <1>2, <1>8, <1>9 DEF delimiter, State
<1>10. CASE r.state = "start"
  BY <1>1, <1>2, <1>5, <1>6, <1>8, <1>10 DEF start, State
<1>11. CASE r.state = "block"
  BY <1>1, <1>2, <1>3, <1>4, <1>5, <1>8, <1>11 DEF block, State
<1>12. CASE r.state = "nextBlock" /\ b # 0
  BY <1>1, <1>2, <1>5, <1>6, <1>8, <1>12 DEF nextBlock, State
<1>13. CASE r.state = "nextBlock" /\ b = 0
  <2> DEFINE n == Len(s.out) - (IF Last(s.out) = 0 THEN 1 ELSE 0)
             v == [s EXCEPT !.packet = SubSeq(s.out, 1, n), !.out = <<>>, !.error = "callback"]
  <2>1. t = finishPacket(s, FALSE)
    BY <1>1, <1>13 DEF nextBlock
  <2>2. n = 0 => t = fail([s EXCEPT !.out = <<>>], "CobsBadEncoding")
    BY <2>1 DEF finishPacket
  <2>3. n # 0 => t = Then(v, "start")
    BY <2>1 DEF finishPacket
  <2> HIDE DEF n
  <2>4. n = 0 => t.error = "CobsBadEncoding"
    BY <1>1, <2>2 DEF fail, Decoder
  <2>5. v.error = "callback" /\ \A to : [v EXCEPT !.state = to].error = v.error
    BY <1>1 DEF Decoder
  <2> HIDE DEF v
  <2>6. n # 0 => t.error = "callback"
    BY <2>3, <2>5 DEF Then, transit
  <2> QED BY <2>4, <2>6 DEF t
<1> QED BY <1>1, <1>9, <1>10, <1>11, <1>12, <1>13 DEF State

-----------------------------------------------------------------------------
(* The state of stuff's loop, and what it has to do with the bytes read:   *)
(* what is written unstuffs to them, whatever code the open block will get *)
(* (Reads), and has no zero but the place of that code (Written); an extra *)
(* byte for the full blocks, and one for the open one (Counts).            *)
Stuffing == [out : Seq(Byte), code : Nat, chunk : 0 .. K - 2]

With(s, c) == [s.out EXCEPT ![s.code] = c]

Reads(s, p) ==
  /\ s.chunk = 0 => /\ unstuffLoop(s.out) \in Unstuffing /\ unstuffLoop(s.out).left = 0
                    /\ Ended(unstuffLoop(s.out)) = p
  /\ s.chunk > 0 => \A c \in s.chunk + 1 .. K :
                      unstuffLoop(With(s, c)) = [out |-> p, left |-> c - 1 - s.chunk, code |-> c]
Written(s) ==
  /\ s.chunk = 0 => \A i \in 1 .. Len(s.out) : s.out[i] # 0
  /\ s.chunk > 0 => s.code \in 1 .. Len(s.out)
                    /\ \A i \in 1 .. Len(s.out) : i # s.code => s.out[i] # 0
Counts(s, p) ==
  \E f \in Nat : f * (K - 1) + s.chunk <= Len(p)
                 /\ Len(s.out) = Len(p) + f + (IF s.chunk = 0 THEN 0 ELSE 1)

Stuffed(s, p) == s \in Stuffing /\ Reads(s, p) /\ Written(s) /\ Counts(s, p)

-----------------------------------------------------------------------------
\* A byte put in the place of another.
LEMMA PutInPlace ==
  ASSUME NEW o \in Seq(Byte), NEW k \in 1 .. Len(o), NEW c \in Byte, NEW b \in Byte
  PROVE  /\ [o EXCEPT ![k] = c] \in Seq(Byte) /\ Len([o EXCEPT ![k] = c]) = Len(o)
         /\ [o EXCEPT ![k] = c][k] = c
         /\ \A i \in 1 .. Len(o) : i # k => [o EXCEPT ![k] = c][i] = o[i]
         /\ [Append(o, b) EXCEPT ![k] = c] = Append([o EXCEPT ![k] = c], b)
<1> DEFINE e == [o EXCEPT ![k] = c]
           a == Append(o, b)
           l == [a EXCEPT ![k] = c]
           r == Append(e, b)
           n == Len(o)
<1>1. n \in Nat /\ k \in 1 .. n
  OBVIOUS
<1>2. e \in Seq(Byte) /\ Len(e) = n /\ e[k] = c /\ \A i \in 1 .. n : i # k => e[i] = o[i]
  OBVIOUS
<1>3. a \in Seq(Byte) /\ Len(a) = n + 1 /\ a[n + 1] = b /\ \A i \in 1 .. n : a[i] = o[i]
  BY AppendProperties
<1> HIDE DEF e, a
<1>4. r \in Seq(Byte) /\ Len(r) = n + 1 /\ r[n + 1] = b /\ \A i \in 1 .. n : r[i] = e[i]
  BY <1>2, AppendProperties
<1>5. l \in Seq(Byte) /\ Len(l) = n + 1 /\ l[k] = c /\ \A i \in 1 .. n + 1 : i # k => l[i] = a[i]
  BY <1>1, <1>3
<1> HIDE DEF l, r, n
<1>6. ASSUME NEW i \in 1 .. n + 1 PROVE l[i] = r[i]
  <2>1. CASE i = k
    BY <1>1, <1>2, <1>4, <1>5, <2>1
  <2>2. CASE i # k /\ i \in 1 .. n
    BY <1>2, <1>3, <1>4, <1>5, <2>2
  <2>3. CASE i = n + 1
    BY <1>1, <1>3, <1>4, <1>5, <2>3
  <2> QED BY <1>1, <2>1, <2>2, <2>3
<1>7. l = r
  BY <1>4, <1>5, <1>6, SeqEqual
<1> QED BY <1>2, <1>7 DEF e, a, l, r, n

\* An empty block.
LEMMA StuffEmpty ==
  ASSUME NEW p \in Seq(Byte), NEW s, Stuffed(s, p), s.chunk = 0
  PROVE  Stuffed(stuffByte(s, 0), Append(p, 0))
<1> DEFINE t == stuffByte(s, 0)
           u == unstuffLoop(s.out)
           w == unstuffByte(u, 1)
<1>1. s.out \in Seq(Byte) /\ 0 \in Byte /\ 1 \in Byte /\ 1 # K /\ u \in Unstuffing
      /\ u.left = 0 /\ Ended(u) = p
  BY KAssumption DEF Stuffed, Stuffing, Byte, Reads
<1>2. t = [s EXCEPT !.out = Append(s.out, 1)]
  BY DEF stuffByte
<1>3. t \in Stuffing /\ t.chunk = 0 /\ t.out = Append(s.out, 1)
  BY <1>1, <1>2 DEF Stuffed, Stuffing
<1> HIDE DEF t
<1>4. Reads(t, Append(p, 0))
  <2>1. unstuffLoop(t.out) = w
    BY <1>1, <1>3, FrameGrows
  <2>2. w = [out |-> p, left |-> 0, code |-> 1]
    BY <1>1, CodeRead
  <2>3. w \in Unstuffing
    BY <1>1, UnstuffTypes
  <2> HIDE DEF w
  <2>4. w.left = 0 /\ Ended(w) = Append(p, 0)
    BY <1>1, <2>2 DEF Ended
  <2> QED BY <1>3, <2>1, <2>3, <2>4 DEF Reads
<1>5. Written(t)
  <2>1. \A i \in 1 .. Len(s.out) : s.out[i] # 0
    BY DEF Stuffed, Written
  <2> QED BY <1>1, <1>3, <2>1, AppendProperties DEF Written
<1>6. Counts(t, Append(p, 0))
  <2>1. PICK f \in Nat : f * (K - 1) + s.chunk <= Len(p) /\ Len(s.out) = Len(p) + f
    BY DEF Stuffed, Counts
  <2>2. Len(Append(p, 0)) = Len(p) + 1 /\ Len(t.out) = Len(s.out) + 1
    BY <1>1, <1>3, AppendProperties
  <2>3. f * (K - 1) \in Int
    BY KAssumption
  <2> DEFINE m == f * (K - 1)
  <2> HIDE DEF m
  <2>4. m + t.chunk <= Len(Append(p, 0)) /\ Len(t.out) = Len(Append(p, 0)) + f
    BY <1>1, <1>3, <2>1, <2>2, <2>3 DEF m
  <2> QED BY <1>3, <2>4 DEF Counts, m
<1> QED BY <1>3, <1>4, <1>5, <1>6 DEF Stuffed, t

\* A block begins.
LEMMA StuffFirst ==
  ASSUME NEW p \in Seq(Byte), NEW s, Stuffed(s, p), s.chunk = 0, NEW b \in Byte, b # 0
  PROVE  Stuffed(stuffByte(s, b), Append(p, b))
<1> DEFINE t == stuffByte(s, b)
           u == unstuffLoop(s.out)
           k == Len(s.out) + 1
<1>1. s.out \in Seq(Byte) /\ 0 \in Byte /\ u \in Unstuffing /\ u.left = 0 /\ Ended(u) = p
      /\ k \in Nat \ {0}
  BY KAssumption DEF Stuffed, Stuffing, Byte, Reads
<1>2. t = [out |-> s.out \o <<0, b>>, code |-> k, chunk |-> 1]
  BY DEF stuffByte
<1> DEFINE o == Append(s.out, 0)
<1>3. o \in Seq(Byte) /\ Len(o) = k /\ o[k] = 0 /\ \A i \in 1 .. k - 1 : o[i] = s.out[i]
  BY <1>1, AppendProperties
<1>4. s.out \o <<0, b>> = Append(o, b)
  BY <1>1
<1> HIDE DEF o
<1>5. t.out = Append(o, b) /\ t.code = k /\ t.chunk = 1 /\ t \in Stuffing
  <2>1. 1 \in 0 .. K - 2 /\ k \in Nat
    BY <1>1, KAssumption
  <2>2. Append(o, b) \in Seq(Byte)
    BY <1>3
  <2> HIDE DEF k
  <2>3. t = [out |-> Append(o, b), code |-> k, chunk |-> 1]
    BY <1>2, <1>4
  <2> QED BY <2>1, <2>2, <2>3 DEF Stuffing
<1> HIDE DEF t
<1>6. Reads(t, Append(p, b))
  <2> SUFFICES ASSUME NEW c \in 2 .. K
               PROVE  unstuffLoop(With(t, c)) = [out |-> Append(p, b), left |-> c - 2, code |-> c]
    <3>1. \A c \in 2 .. K : c - 1 - 1 = c - 2
      BY KAssumption
    <3> QED BY <1>5, <3>1 DEF Reads
  <2>1. c \in Byte /\ c # 0 /\ c - 1 > 0 /\ k \in 1 .. Len(o)
    BY <1>1, <1>3, KAssumption DEF Byte
  <2>2. With(t, c) = Append([o EXCEPT ![k] = c], b)
    <3>1. With(t, c) = [Append(o, b) EXCEPT ![k] = c]
      BY <1>5 DEF With
    <3> HIDE DEF k
    <3> QED BY <1>3, <2>1, <3>1, PutInPlace
  <2>3. [o EXCEPT ![k] = c] = Append(s.out, c)
    <3> DEFINE l == [o EXCEPT ![k] = c]
               r == Append(s.out, c)
    <3>1. l \in Seq(Byte) /\ Len(l) = k /\ l[k] = c /\ \A i \in 1 .. k : i # k => l[i] = o[i]
      BY <1>3, <2>1, PutInPlace
    <3>2. r \in Seq(Byte) /\ Len(r) = k /\ r[k] = c /\ \A i \in 1 .. k - 1 : r[i] = s.out[i]
      BY <1>1, <2>1, AppendProperties
    <3> HIDE DEF l, r, k
    <3>3. \A i \in 1 .. k : l[i] = r[i]
      BY <1>1, <1>3, <3>1, <3>2
    <3>4. l = r
      BY <3>1, <3>2, <3>3, SeqEqual
    <3> QED BY <3>4 DEF l, r
  <2> DEFINE v == unstuffByte(u, c)
  <2>4. unstuffLoop(Append(s.out, c)) = v /\ Append(s.out, c) \in Seq(Byte)
    BY <1>1, <2>1, FrameGrows, AppendProperties
  <2>5. v = [out |-> p, left |-> c - 1, code |-> c] /\ v \in Unstuffing
    BY <1>1, <2>1, CodeRead, UnstuffTypes
  <2>6. unstuffLoop(With(t, c)) = unstuffByte(v, b)
    BY <2>2, <2>3, <2>4, FrameGrows
  <2> HIDE DEF v
  <2>7. unstuffByte(v, b) = [v EXCEPT !.out = Append(v.out, b), !.left = v.left - 1]
    BY <2>1, <2>5, ByteRead
  <2>8. v.left - 1 = c - 2 /\ v.out = p
    BY <2>5
  <2> QED BY <2>5, <2>6, <2>7, <2>8
<1>7. Written(t)
  <2>1. \A i \in 1 .. Len(s.out) : s.out[i] # 0
    BY DEF Stuffed, Written
  <2>2. Len(t.out) = k + 1 /\ t.out[k + 1] = b /\ \A i \in 1 .. k : t.out[i] = o[i]
    BY <1>3, <1>5, AppendProperties
  <2>3. \A i \in 1 .. k + 1 : i # k => t.out[i] # 0
    <3> TAKE i \in 1 .. k + 1
    <3>1. i \in 1 .. Len(s.out) \/ i = k \/ i = k + 1
      BY <1>1
    <3>2. \A j \in 1 .. Len(s.out) : j \in 1 .. k - 1 /\ j \in 1 .. k
      BY <1>1
    <3>3. CASE i \in 1 .. Len(s.out)
      BY <1>3, <2>1, <2>2, <3>2, <3>3
    <3> QED BY <2>2, <3>1, <3>3
  <2> HIDE DEF k
  <2> QED BY <1>1, <1>5, <2>2, <2>3 DEF Written
<1>8. Counts(t, Append(p, b))
  <2>1. PICK f \in Nat : f * (K - 1) + s.chunk <= Len(p) /\ Len(s.out) = Len(p) + f
    BY DEF Stuffed, Counts
  <2>2. Len(Append(p, b)) = Len(p) + 1 /\ Len(t.out) = Len(s.out) + 2
    BY <1>1, <1>3, <1>5, AppendProperties
  <2> DEFINE m == f * (K - 1)
  <2>3. m \in Int
    BY KAssumption
  <2> HIDE DEF m
  <2>4. m + t.chunk <= Len(Append(p, b)) /\ Len(t.out) = Len(Append(p, b)) + f + 1
    BY <1>1, <1>5, <2>1, <2>2, <2>3 DEF m
  <2> QED BY <1>5, <2>4 DEF Counts, m
<1> QED BY <1>5, <1>6, <1>7, <1>8 DEF Stuffed, t

\* A zero closes the block.
LEMMA StuffZero ==
  ASSUME NEW p \in Seq(Byte), NEW s, Stuffed(s, p), s.chunk > 0
  PROVE  Stuffed(stuffByte(s, 0), Append(p, 0))
<1> DEFINE t == stuffByte(s, 0)
           c == s.chunk + 1
           e == [s.out EXCEPT ![s.code] = c]
<1>1. s.out \in Seq(Byte) /\ 0 \in Byte /\ c \in Byte /\ c \notin {0, K} /\ c \in s.chunk + 1 .. K
      /\ s.code \in 1 .. Len(s.out) /\ c - 1 - s.chunk = 0 /\ s.chunk # 0
  BY KAssumption DEF Stuffed, Stuffing, Byte, Written
<1>2. t = [s EXCEPT !.out[s.code] = c, !.chunk = 0]
  BY <1>1 DEF stuffByte, Closed
<1>3. /\ e \in Seq(Byte) /\ Len(e) = Len(s.out) /\ e[s.code] = c
      /\ \A i \in 1 .. Len(s.out) : i # s.code => e[i] = s.out[i]
  BY <1>1, PutInPlace
<1>4. t = [s EXCEPT !.out = e, !.chunk = 0]
  BY <1>2 DEF Stuffed, Stuffing
<1> HIDE DEF e, t
<1>5. t \in Stuffing /\ t.out = e /\ t.chunk = 0
  <2>1. s \in Stuffing /\ 0 \in 0 .. K - 2
    BY KAssumption DEF Stuffed
  <2> HIDE DEF c
  <2> QED BY <1>3, <1>4, <2>1 DEF Stuffing
<1>6. Reads(t, Append(p, 0))
  <2>1. unstuffLoop(e) = [out |-> p, left |-> 0, code |-> c]
    BY <1>1 DEF Stuffed, Reads, With, e
  <2> DEFINE w == unstuffLoop(e)
  <2>2. w \in Unstuffing
    BY <1>1, <2>1, KAssumption DEF Unstuffing, Byte
  <2> HIDE DEF w
  <2>3. w.left = 0 /\ Ended(w) = Append(p, 0)
    BY <1>1, <2>1 DEF Ended, w
  <2> QED BY <1>5, <2>2, <2>3 DEF Reads, w
<1>7. Written(t)
  BY <1>1, <1>3, <1>5 DEF Stuffed, Written
<1>8. Counts(t, Append(p, 0))
  <2>1. PICK f \in Nat : f * (K - 1) + s.chunk <= Len(p) /\ Len(s.out) = Len(p) + f + 1
    BY <1>1 DEF Stuffed, Counts
  <2>2. Len(Append(p, 0)) = Len(p) + 1 /\ Len(t.out) = Len(s.out)
    BY <1>1, <1>3, <1>5, AppendProperties
  <2> DEFINE m == f * (K - 1)
  <2>3. m \in Int /\ s.chunk \in Nat
    BY KAssumption DEF Stuffed, Stuffing
  <2> HIDE DEF m
  <2>4. m + t.chunk <= Len(Append(p, 0)) /\ Len(t.out) = Len(Append(p, 0)) + f
    BY <1>1, <1>5, <2>1, <2>2, <2>3 DEF m
  <2> QED BY <1>5, <2>4 DEF Counts, m
<1> QED BY <1>5, <1>6, <1>7, <1>8 DEF Stuffed, t

-----------------------------------------------------------------------------
\* A byte of the open block, which may be its last.
LEMMA StuffNext ==
  ASSUME NEW p \in Seq(Byte), NEW s, Stuffed(s, p), s.chunk > 0, NEW b \in Byte, b # 0
  PROVE  Stuffed(stuffByte(s, b), Append(p, b))
<1> DEFINE o == Append(s.out, b)
           n == s.chunk + 1
           x == [s EXCEPT !.out = o, !.chunk = n]
           t == stuffByte(s, b)
           q == Append(p, b)
<1>1. s.out \in Seq(Byte) /\ s.code \in 1 .. Len(s.out) /\ s.chunk \in 1 .. K - 2 /\ s.chunk # 0
      /\ s \in Stuffing /\ K \in Nat /\ K >= 3
  BY KAssumption DEF Stuffed, Stuffing, Written
<1>2. o \in Seq(Byte) /\ Len(o) = Len(s.out) + 1 /\ o[Len(s.out) + 1] = b
      /\ \A i \in 1 .. Len(s.out) : o[i] = s.out[i]
  BY <1>1, AppendProperties
<1>3. t = IF n = K - 1 THEN Closed(x) ELSE x
  <2>1. t = LET y == [s EXCEPT !.out = Append(@, b), !.chunk = @ + 1]
            IN  IF y.chunk = K - 1 THEN Closed(y) ELSE y
    BY <1>1 DEF stuffByte
  <2>2. [s EXCEPT !.out = Append(@, b), !.chunk = @ + 1] = x
    OBVIOUS
  <2>3. x.chunk = n
    BY <1>1 DEF Stuffing
  <2> QED BY <2>1, <2>2, <2>3
<1>4. x.out = o /\ x.chunk = n /\ x.code = s.code
  BY <1>1 DEF Stuffing
<1>5. q \in Seq(Byte) /\ Len(q) = Len(p) + 1
  BY AppendProperties
<1>6. \A c \in n + 1 .. K :
        unstuffLoop([o EXCEPT ![s.code] = c]) = [out |-> q, left |-> c - 1 - n, code |-> c]
  <2> SUFFICES ASSUME NEW c \in n + 1 .. K
               PROVE  unstuffLoop([o EXCEPT ![s.code] = c])
                        = [out |-> q, left |-> c - 1 - n, code |-> c]
    OBVIOUS
  <2>1. c \in s.chunk + 1 .. K /\ c \in Byte /\ c - 1 - s.chunk > 0 /\ c - 1 - s.chunk \in 0 .. K
        /\ c - 1 - s.chunk - 1 = c - 1 - n
    <3> DEFINE h == s.chunk
    <3>1. h \in 1 .. K - 2 /\ n = h + 1 /\ c \in n + 1 .. K
      BY <1>1
    <3> HIDE DEF h, n
    <3>2. c \in Int /\ h \in Int /\ h + 2 <= c /\ c <= K /\ h >= 1
      BY <1>1, <3>1
    <3>3. c \in h + 1 .. K /\ c \in 0 .. K /\ c - 1 - h > 0 /\ c - 1 - h \in 0 .. K
          /\ c - 1 - h - 1 = c - 1 - n
      BY <1>1, <3>1, <3>2
    <3> QED BY <3>3 DEF h, Byte
  <2> DEFINE e == [s.out EXCEPT ![s.code] = c]
             u == [out |-> p, left |-> c - 1 - s.chunk, code |-> c]
  <2>2. [o EXCEPT ![s.code] = c] = Append(e, b) /\ e \in Seq(Byte)
    BY <1>1, <2>1, PutInPlace, SMTT(30)
  <2>3. unstuffLoop(e) = u
    BY <1>1, <2>1 DEF Stuffed, Reads, With
  <2>4. u \in Unstuffing
    BY <1>1, <2>1 DEF Unstuffing, Byte
  <2>5. unstuffLoop(Append(e, b)) = unstuffByte(u, b)
    BY <2>2, <2>3, FrameGrows
  <2>6. unstuffByte(u, b) = [u EXCEPT !.out = Append(u.out, b), !.left = u.left - 1]
    BY <2>1, <2>4, ByteRead
  <2> HIDE DEF e
  <2> QED BY <2>1, <2>2, <2>5, <2>6
<1>7. \A i \in 1 .. Len(o) : i # s.code => o[i] # 0
  <2> TAKE i \in 1 .. Len(o)
  <2>1. i \in 1 .. Len(s.out) \/ i = Len(s.out) + 1
    BY <1>1, <1>2
  <2>2. \A j \in 1 .. Len(s.out) : j # s.code => s.out[j] # 0
    BY <1>1 DEF Stuffed, Written
  <2> QED BY <1>2, <2>1, <2>2
<1>8. PICK f \in Nat : f * (K - 1) + s.chunk <= Len(p) /\ Len(s.out) = Len(p) + f + 1
  BY <1>1 DEF Stuffed, Counts
<1>9. s.code \in 1 .. Len(o)
  BY <1>1, <1>2
<1>10. CASE n # K - 1
  <2>1. t = x
    BY <1>3, <1>10
  <2> HIDE DEF o, q, t, x
  <2>2. n \in 0 .. K - 2 /\ n > 0 /\ n # 0
    BY <1>1, <1>10
  <2>3. t \in Stuffing
    <3> HIDE DEF n
    <3> QED BY <1>1, <1>2, <2>1, <2>2 DEF x, Stuffing
  <2>4. Reads(t, q)
    <3> HIDE DEF n
    <3> QED BY <1>4, <1>6, <2>1, <2>2 DEF Reads, With
  <2>5. Written(t)
    <3> HIDE DEF n
    <3> QED BY <1>4, <1>7, <1>9, <2>1, <2>2 DEF Written
  <2>6. Counts(t, q)
    <3> DEFINE m == f * (K - 1)
    <3>1. m \in Int
      BY <1>1
    <3> HIDE DEF m
    <3>4. m + s.chunk <= Len(p) /\ Len(s.out) = Len(p) + f + 1
      BY <1>8 DEF m
    <3>5. t.chunk = s.chunk + 1 /\ Len(t.out) = Len(s.out) + 1 /\ Len(q) = Len(p) + 1
      BY <1>2, <1>4, <1>5, <2>1
    <3>6. Len(p) \in Int /\ Len(s.out) \in Int /\ s.chunk \in Int
      BY <1>1
    <3> HIDE DEF n
    <3>2. m + t.chunk <= Len(q) /\ Len(t.out) = Len(q) + f + 1
      BY <3>1, <3>4, <3>5, <3>6
    <3> QED BY <1>4, <2>1, <2>2, <3>2 DEF Counts, m
  <2> QED BY <2>3, <2>4, <2>5, <2>6 DEF Stuffed, t, q
<1>11. CASE n = K - 1
  <2> DEFINE e == [o EXCEPT ![s.code] = K]
  <2>1. t = [x EXCEPT !.out[x.code] = x.chunk + 1, !.chunk = 0]
    BY <1>3, <1>11 DEF Closed
  <2>2. x.chunk + 1 = K
    BY <1>1, <1>4, <1>11
  <2> HIDE DEF x
  <2>3. t = [x EXCEPT !.out[x.code] = K, !.chunk = 0]
    BY <2>1, <2>2
  <2>4. t = [s EXCEPT !.out = e, !.chunk = 0]
    <3> HIDE DEF n, o
    <3>1. x = [s EXCEPT !.out = o, !.chunk = n]
      BY DEF x
    <3> QED BY <1>1, <1>4, <2>3, <3>1 DEF Stuffing
  <2>5. K \in Byte /\ 0 \in 0 .. K - 2 /\ K \in n + 1 .. K /\ K - 1 - n = 0
    BY <1>1, <1>11 DEF Byte
  <2>6. e \in Seq(Byte) /\ Len(e) = Len(o) /\ e[s.code] = K
        /\ \A i \in 1 .. Len(o) : i # s.code => e[i] = o[i]
    <3> HIDE DEF o, n
    <3> QED BY <1>2, <1>9, <2>5, PutInPlace
  <2>7. unstuffLoop(e) = [out |-> q, left |-> 0, code |-> K]
    BY <1>6, <2>5
  <2> HIDE DEF e, t, o, q
  <2>8. t \in Stuffing /\ t.out = e /\ t.chunk = 0
    BY <1>1, <2>4, <2>5, <2>6 DEF Stuffing
  <2>9. Reads(t, q)
    <3> DEFINE w == unstuffLoop(e)
    <3>1. w \in Unstuffing
      BY <1>1, <1>5, <2>7 DEF Unstuffing
    <3> HIDE DEF w
    <3>2. w.left = 0 /\ Ended(w) = q
      BY <1>1, <2>7 DEF Ended, w
    <3> QED BY <2>8, <3>1, <3>2 DEF Reads, w
  <2>10. Written(t)
    BY <1>1, <1>7, <2>6, <2>8 DEF Written
  <2>11. Counts(t, q)
    <3> DEFINE m == f * (K - 1)
    <3>1. m \in Int /\ (f + 1) * (K - 1) = m + (K - 1)
      BY <1>1
    <3> HIDE DEF m
    <3>2. m + (K - 1) + t.chunk <= Len(q) /\ Len(t.out) = Len(q) + (f + 1)
      <4>1. n = K - 1
        BY <1>11
      <4>2. m + s.chunk <= Len(p)
        BY <1>8 DEF m
      <4> QED BY <1>1, <1>2, <1>5, <1>8, <2>6, <2>8, <3>1, <4>1, <4>2
    <3>3. f + 1 \in Nat /\ (f + 1) * (K - 1) + t.chunk <= Len(q)
      BY <3>1, <3>2
    <3> QED BY <2>8, <3>2, <3>3 DEF Counts
  <2> QED BY <2>8, <2>9, <2>10, <2>11 DEF Stuffed, t, q
<1> QED BY <1>10, <1>11

\* Whatever byte is stuffed.
LEMMA Stuffs ==
  ASSUME NEW p \in Seq(Byte), NEW s, Stuffed(s, p), NEW b \in Byte
  PROVE  Stuffed(stuffByte(s, b), Append(p, b))
<1>1. s.chunk = 0 \/ s.chunk > 0
  BY KAssumption DEF Stuffed, Stuffing
<1> QED BY <1>1, StuffEmpty, StuffFirst, StuffZero, StuffNext

\* What is unstuffed is no longer than its input.
LEMMA UnstuffShrinks ==
  ASSUME NEW e \in Seq(Byte), unstuffLoop(e) \in Unstuffing, Len(unstuffLoop(e).out) <= Len(e),
         NEW b \in Byte
  PROVE  /\ unstuffLoop(Append(e, b)) \in Unstuffing
         /\ Len(unstuffLoop(Append(e, b)).out) <= Len(Append(e, b))
<1> DEFINE u == unstuffLoop(e)
           w == unstuffByte(u, b)
<1>1. unstuffLoop(Append(e, b)) = w /\ Len(Append(e, b)) = Len(e) + 1 /\ 0 \in Byte
  BY FrameGrows, AppendProperties, KAssumption DEF Byte
<1>2. w \in Unstuffing /\ u.out \in Seq(Byte)
  BY UnstuffTypes DEF Unstuffing
<1> HIDE DEF u
<1>3. w.out \in {u.out, Append(u.out, 0), Append(u.out, b)}
  BY DEF unstuffByte, Unstuffing
<1>4. Len(w.out) <= Len(u.out) + 1
  BY <1>1, <1>2, <1>3, AppendProperties
<1> QED BY <1>1, <1>2, <1>4 DEF u, Unstuffing

\* No byte is stuffed yet.
LEMMA StuffsNothing == Stuffed(stuffLoop(<<>>), <<>>)
<1> DEFINE s == First("stuff")
<1>1. stuffLoop(<<>>) = s
  <2>1. 0 \in Byte /\ <<>> \in Seq(Byte)
    BY KAssumption DEF Byte
  <2>2. Loop("stuff", <<>>) = s
    BY <2>1, LoopGrows
  <2> QED BY <2>2 DEF Loop
<1>2. s.out = <<>> /\ s.chunk = 0 /\ s \in Stuffing
  BY KAssumption DEF First, Stuffing
<1> HIDE DEF s
<1>3. unstuffLoop(<<>>) = [out |-> <<>>, left |-> 0, code |-> K]
      /\ unstuffLoop(<<>>) \in Unstuffing
  BY FrameGrows DEF First
<1>4. Reads(s, <<>>)
  BY <1>2, <1>3 DEF Reads, Ended
<1>5. Written(s)
  BY <1>2 DEF Written
<1>6. Counts(s, <<>>)
  <2>1. 0 * (K - 1) = 0
    BY KAssumption
  <2> QED BY <1>2, <2>1 DEF Counts
<1> QED BY <1>1, <1>2, <1>4, <1>5, <1>6 DEF Stuffed

\* What the loops keep, for every input.
LEMMA AllInputs ==
  ASSUME NEW p \in Seq(Byte)
  PROVE  /\ Stuffed(stuffLoop(p), p)
         /\ unstuffLoop(p) \in Unstuffing /\ Len(unstuffLoop(p).out) <= Len(p)
<1> DEFINE Good(q) == /\ Stuffed(stuffLoop(q), q)
                      /\ unstuffLoop(q) \in Unstuffing /\ Len(unstuffLoop(q).out) <= Len(q)
           T == {n \in Nat : \A q \in Seq(Byte) : Len(q) = n => Good(q)}
<1>1. 0 \in T
  <2> SUFFICES ASSUME NEW q \in Seq(Byte), Len(q) = 0 PROVE Good(q)
    OBVIOUS
  <2>1. q = <<>>
    OBVIOUS
  <2>2. unstuffLoop(<<>>) \in Unstuffing /\ unstuffLoop(<<>>).out = <<>>
    BY FrameGrows DEF First
  <2> QED BY <2>1, <2>2, StuffsNothing
<1>2. ASSUME NEW n \in Nat, n \in T
      PROVE  n + 1 \in T
  <2> SUFFICES ASSUME NEW q \in Seq(Byte), Len(q) = n + 1 PROVE Good(q)
    OBVIOUS
  <2>1. PICK r \in Seq(Byte), b \in Byte : q = Append(r, b)
    <3>1. q # <<>>
      OBVIOUS
    <3> QED BY <3>1, SequenceEmptyOrAppend
  <2>2. Len(r) = n
    BY <2>1, AppendProperties
  <2>3. Good(r)
    BY <1>2, <2>2
  <2>4. stuffLoop(q) = stuffByte(stuffLoop(r), b)
    <3>1. Loop("stuff", Append(r, b)) = Turn("stuff", Loop("stuff", r), b)
      BY LoopGrows
    <3> QED BY <2>1, <3>1 DEF Loop, Turn
  <2>5. Stuffed(stuffLoop(q), q)
    BY <2>1, <2>3, <2>4, Stuffs
  <2>6. unstuffLoop(q) \in Unstuffing /\ Len(unstuffLoop(q).out) <= Len(q)
    BY <2>1, <2>3, UnstuffShrinks
  <2> QED BY <2>5, <2>6
<1>3. Nat \subseteq T
  BY <1>1, <1>2, Inductive
<1>4. Len(p) \in T
  BY <1>3
<1> QED BY <1>4

\* A quotient is the largest of the multiples that fit.
LEMMA Quotient ==
  ASSUME NEW a \in Nat, NEW k \in Nat \ {0}, NEW f \in Nat, f * k <= a
  PROVE  f <= a \div k
<1> DEFINE q == a \div k
<1>1. q \in Int /\ a < k * (q + 1)
  BY SMTT(30)
<1> HIDE DEF q
<1>2. SUFFICES ASSUME f >= q + 1 PROVE FALSE
  BY <1>1 DEF q
<1>3. k * f >= k * (q + 1)
  BY <1>1, <1>2, SMTT(30)
<1>4. f * k = k * f
  OBVIOUS
<1> QED BY <1>1, <1>3, <1>4, SMTT(30)

\* stuff and unstuff for any payload.
LEMMA StuffUnstuffs ==
  ASSUME NEW p \in Seq(Byte), p # <<>>
  PROVE  /\ stuff(p) \in Seq(Byte) /\ \A i \in DOMAIN stuff(p) : stuff(p)[i] # 0
         /\ unstuff(stuff(p)) = p
         /\ Len(stuff(p)) <= maxStuffedSize(Len(p))
<1> DEFINE s == stuffLoop(p)
           r == stuff(p)
           u == unstuffLoop(s.out)
<1>1. r = IF s.chunk # 0 THEN Closed(s).out
          ELSE IF Last(p) = 0 THEN Append(s.out, 1) ELSE s.out
  BY DEF stuff, stuffLoop
<1>2. Stuffed(s, p) /\ s \in Stuffing /\ s.out \in Seq(Byte) /\ s.chunk \in 0 .. K - 2
  BY AllInputs DEF Stuffed, Stuffing
<1> HIDE DEF s
<1> HIDE DEF r
<1>3. r \in Seq(Byte) /\ (\A i \in 1 .. Len(r) : r[i] # 0) /\ unstuff(r) = p
      /\ \E f \in Nat : f * (K - 1) <= Len(p) /\ Len(r) <= Len(p) + f + 1
  <2>1. CASE s.chunk # 0
    <3> DEFINE c == s.chunk + 1
    <3>1. c \in Byte /\ c # 0 /\ c \in s.chunk + 1 .. K /\ c - 1 - s.chunk = 0 /\ s.chunk > 0
          /\ s.code \in 1 .. Len(s.out)
      BY <1>2, <2>1, KAssumption DEF Byte, Stuffed, Written
    <3>2. Closed(s).out = With(s, c)
      BY <1>2 DEF Closed, With, Stuffing
    <3>3. r = With(s, c)
      BY <1>1, <2>1, <3>2
    <3>4. unstuffLoop(r) = [out |-> p, left |-> 0, code |-> c]
      BY <1>2, <3>1, <3>3 DEF Stuffed, Reads
    <3>5. unstuff(r) = p
      BY <3>4 DEF unstuff
    <3> HIDE DEF c
    <3>6. r \in Seq(Byte) /\ Len(r) = Len(s.out) /\ r[s.code] = c
          /\ \A i \in 1 .. Len(s.out) : i # s.code => r[i] = s.out[i]
      BY <1>2, <3>1, <3>3, PutInPlace DEF With
    <3>7. \A i \in 1 .. Len(r) : r[i] # 0
      BY <1>2, <3>1, <3>6 DEF Stuffed, Written
    <3>8. PICK f \in Nat : f * (K - 1) + s.chunk <= Len(p) /\ Len(s.out) = Len(p) + f + 1
      BY <1>2, <2>1 DEF Stuffed, Counts
    <3> DEFINE m == f * (K - 1)
    <3>9. m \in Int /\ m + s.chunk <= Len(p) /\ s.chunk \in Nat
      BY <1>2, <3>8, KAssumption
    <3> HIDE DEF m
    <3>10. m <= Len(p)
      BY <3>9
    <3> QED BY <3>5, <3>6, <3>7, <3>8, <3>10 DEF m
  <2>2. CASE s.chunk = 0
    <3>1. u \in Unstuffing /\ u.left = 0 /\ Ended(u) = p /\ \A i \in 1 .. Len(s.out) : s.out[i] # 0
      BY <1>2, <2>2 DEF Stuffed, Reads, Written
    <3>2. PICK f \in Nat : f * (K - 1) + s.chunk <= Len(p) /\ Len(s.out) = Len(p) + f
      BY <1>2, <2>2 DEF Stuffed, Counts
    <3> DEFINE m == f * (K - 1)
    <3>3. m \in Int /\ m + s.chunk <= Len(p)
      BY <3>2, KAssumption
    <3> HIDE DEF m
    <3>4. m <= Len(p)
      BY <2>2, <3>3
    <3>5. CASE Last(p) = 0
      <4>1. r = Append(s.out, 1) /\ 1 \in Byte /\ 1 # 0
        BY <1>1, <2>2, <3>5, KAssumption DEF Byte
      <4>2. r \in Seq(Byte) /\ Len(r) = Len(s.out) + 1 /\ r[Len(s.out) + 1] = 1
            /\ \A i \in 1 .. Len(s.out) : r[i] = s.out[i]
        BY <1>2, <4>1, AppendProperties
      <4>3. \A i \in 1 .. Len(r) : r[i] # 0
        BY <1>2, <3>1, <4>2, SMTT(30)
      <4>4. unstuffLoop(r) = unstuffByte(u, 1)
        BY <1>2, <4>1, FrameGrows
      <4>5. unstuffLoop(r) = [out |-> p, left |-> 0, code |-> 1]
        BY <3>1, <4>1, <4>4, CodeRead
      <4>6. unstuff(r) = p
        BY <4>5 DEF unstuff
      <4> QED BY <3>2, <3>4, <4>2, <4>3, <4>6 DEF m
    <3>6. CASE Last(p) # 0
      <4>1. r = s.out
        BY <1>1, <2>2, <3>6
      <4>2. u.out = p
        <5> SUFFICES ASSUME u.code # K PROVE FALSE
          BY <3>1 DEF Ended
        <5>1. p = Append(u.out, 0) /\ u.out \in Seq(Byte) /\ 0 \in Byte
          BY <3>1, KAssumption DEF Ended, Unstuffing, Byte
        <5>2. Len(p) = Len(u.out) + 1 /\ p[Len(u.out) + 1] = 0
          BY <5>1, AppendProperties
        <5> QED BY <3>6, <5>2 DEF Last
      <4>3. unstuff(r) = p
        BY <3>1, <4>1, <4>2 DEF unstuff
      <4> QED BY <1>2, <3>1, <3>2, <3>4, <4>1, <4>3 DEF m
    <3> QED BY <3>5, <3>6
  <2> QED BY <2>1, <2>2
<1>4. PICK f \in Nat : f * (K - 1) <= Len(p) /\ Len(r) <= Len(p) + f + 1
  BY <1>3
<1>5. f <= Len(p) \div (K - 1)
  <2> DEFINE k == K - 1
             a == Len(p)
  <2>1. k \in Nat \ {0} /\ a \in Nat /\ f * k <= a
    BY <1>3, <1>4, KAssumption
  <2> HIDE DEF k, a
  <2>2. f <= a \div k
    BY <2>1, Quotient
  <2> QED BY <2>2 DEF k, a
<1>6. Len(p) \div (K - 1) \in Int /\ Len(r) \in Int
  BY <1>3, KAssumption
<1>7. Len(r) <= maxStuffedSize(Len(p))
  BY <1>4, <1>5, <1>6 DEF maxStuffedSize
<1>8. DOMAIN r = 1 .. Len(r)
  BY <1>3
<1> QED BY <1>3, <1>7, <1>8 DEF r

-----------------------------------------------------------------------------
\* The decoder is well-formed in every reachable state.
LEMMA DecoderInvariance == DecoderSpec => []WellFormed(dec)
<1>1. DecoderInit => WellFormed(dec)
  BY SizeAssumption DEF DecoderInit, New, WellFormed, InBuffer, Decoder, State
<1>2. WellFormed(dec) /\ [DecoderNext]_decoderVars => WellFormed(dec)'
  <2> SUFFICES ASSUME WellFormed(dec), DecoderNext PROVE WellFormed(dec')
    BY DEF decoderVars, WellFormed, InBuffer
  <2>1. PICK b \in Byte, ok \in BOOLEAN : dec' = consume(dec, b, ok)
    BY DEF DecoderNext, ConsumeByte
  <2> QED
    BY <2>1, ConsumeLeaves
<1> QED
  BY <1>1, <1>2, PTL DEF DecoderSpec

(* Whatever the stream, finishPacket finds a last byte in the buffer, and  *)
(* a block that is under way is not finished (packet_decode_fsm.h:81,118). *)
THEOREM LastByteFound == DecoderSpec => []LastByteExists
<1>1. WellFormed(dec) => LastByteExists
  BY DEF WellFormed, LastByteExists
<1> QED
  BY <1>1, DecoderInvariance, PTL

-----------------------------------------------------------------------------
\* A byte of a frame neither starts a decoder that waits for a delimiter, nor,
\* while there is room, makes another one wait.
LEMMA WaitsOn ==
  ASSUME NEW r, WellFormed(r), NEW b \in Byte, b # 0, NEW ok \in BOOLEAN,
         consume(r, b, ok).error # "PacketTooBig"
  PROVE  consume(r, b, ok).state = "delimiter" <=> r.state = "delimiter"
<1> DEFINE s == Reset(r)
           t == consume(r, b, ok)
<1>1. /\ WellFormed(s) /\ s.error = "none" /\ s.state = r.state /\ r.state \in State
      /\ t = CASE r.state = "delimiter" -> delimiter(s, b)
               [] r.state = "start" -> start(s, b)
               [] r.state = "block" -> block(s, b)
               [] r.state = "nextBlock" -> nextBlock(s, b, ok)
  BY ConsumeResets
<1>2. t.error # "PacketTooBig" /\ InBuffer(s)
  BY <1>1 DEF WellFormed
<1> HIDE DEF s, t
<1>3. ASSUME NEW v, InBuffer(v), NEW to \in State, v.error \in {"none", "PacketTooBig"},
             Then(v, to).error # "PacketTooBig"
      PROVE  Then(v, to).state = to
  <2>1. Then(v, to).error = v.error
    BY <1>3 DEF Then, transit, InBuffer, Decoder
  <2> QED BY <1>3, <2>1, ThenFields
<1>4. ASSUME NEW v, InBuffer(v), v.error = "none", NEW c \in Byte
      PROVE  /\ InBuffer(append(v, c)) /\ append(v, c).error \in {"none", "PacketTooBig"}
             /\ InBuffer(finishBlock(v)) /\ finishBlock(v).state = v.state
             /\ finishBlock(v).error \in {"none", "PacketTooBig"}
  <2>1. InBuffer(append(v, c)) /\ InBuffer(finishBlock(v)) /\ finishBlock(v).state = v.state
    BY <1>4, AppendGrows, FinishBlockGrows DEF Grown
  <2>2. \A x : append(v, x).error \in {"none", "PacketTooBig"}
    BY <1>4 DEF append, InBuffer, Decoder
  <2> QED BY <1>4, <2>1, <2>2 DEF finishBlock
<1>5. b \in Byte \ {0} /\ InBuffer(startBlock(s, b)) /\ startBlock(s, b).error = "none"
      /\ startBlock(s, b).state = s.state
  BY <1>1, <1>2, StartBlockFields
<1>6. transit(startBlock(s, b), "block").state = "block"
  BY <1>5, ThenFields DEF State
<1>7. CASE r.state = "delimiter"
  BY <1>1, <1>7 DEF delimiter, t
<1>8. CASE r.state = "start"
  <2>1. CASE b = 1
    <3>1. t = Then(finishBlock(startBlock(s, b)), "nextBlock")
      BY <1>1, <1>8, <2>1 DEF start
    <3>2. t.state = "nextBlock"
      BY <1>2, <1>3, <1>4, <1>5, <3>1 DEF State
    <3> QED BY <1>8, <3>2 DEF t
  <2>2. CASE b # 1
    <3>1. t = transit(startBlock(s, b), "block")
      BY <1>1, <1>8, <2>2 DEF start
    <3> QED BY <1>6, <1>8, <3>1 DEF t
  <2> QED BY <2>1, <2>2
<1>9. CASE r.state = "block"
  <2> DEFINE v == append(s, b)
  <2>1. InBuffer(v) /\ v.error \in {"none", "PacketTooBig"}
    BY <1>1, <1>2, <1>4
  <2>2. t = IF v.error = "none" /\ v.left = 0 THEN Then(finishBlock(v), "nextBlock")
            ELSE Then(v, "block")
    BY <1>1, <1>9 DEF block
  <2> HIDE DEF v
  <2>3. CASE v.error = "none" /\ v.left = 0
    <3>1. InBuffer(finishBlock(v)) /\ finishBlock(v).error \in {"none", "PacketTooBig"}
      BY <1>4, <2>1, <2>3
    <3>2. t.state = "nextBlock"
      BY <1>2, <1>3, <2>2, <2>3, <3>1 DEF State
    <3> QED BY <1>9, <3>2 DEF t
  <2>4. CASE ~(v.error = "none" /\ v.left = 0)
    <3>1. t.state = "block"
      BY <1>2, <1>3, <2>1, <2>2, <2>4 DEF State
    <3> QED BY <1>9, <3>1 DEF t
  <2> QED BY <2>3, <2>4
<1>10. CASE r.state = "nextBlock"
  <2>1. CASE b = 1
    <3>1. t = finishBlock(startBlock(s, b))
      BY <1>1, <1>10, <2>1 DEF nextBlock
    <3>2. t.state = "nextBlock"
      BY <1>1, <1>4, <1>5, <1>10, <3>1
    <3> QED BY <1>10, <3>2 DEF t
  <2>2. CASE b # 1
    <3>1. t = transit(startBlock(s, b), "block")
      BY <1>1, <1>10, <2>2 DEF nextBlock
    <3> QED BY <1>6, <1>10, <3>1 DEF t
  <2> QED BY <2>1, <2>2
<1> QED BY <1>1, <1>7, <1>8, <1>9, <1>10 DEF State

(* What the frame so far has to do with the decoder. *)
Tracks ==
  /\ WellFormed(dec) /\ frame \in Seq(Byte)
  /\ begun \in BOOLEAN /\ clean \in BOOLEAN /\ whole \in BOOLEAN
  /\ unstuffLoop(frame) \in Unstuffing
  /\ frame = <<>> => dec.state \in {"start", "delimiter"}
  /\ whole /\ dec.state = "start" => frame = <<>> /\ (clean => dec.out = <<>>)
  /\ whole /\ clean => dec.state # "delimiter"
  /\ whole => (dec.state = "delimiter" <=> ~begun)
  /\ whole /\ frame # <<>> => Follows(dec, unstuffLoop(frame), clean)

\* A byte of the frame.
LEMMA ByteTracks ==
  ASSUME Tracks, NEW b \in Byte, b # 0, NEW ok \in BOOLEAN, ConsumeByte(b, ok)
  PROVE  Tracks'
<1> DEFINE s == Reset(dec)
           u == unstuffLoop(frame)
<1>1. /\ dec' = consume(dec, b, ok) /\ frame' = Append(frame, b) /\ begun' = begun /\ clean' = clean
      /\ whole' = (whole /\ dec'.error # "PacketTooBig")
  BY DEF ConsumeByte
<1>2. /\ WellFormed(dec) /\ clean \in BOOLEAN /\ whole \in BOOLEAN /\ frame \in Seq(Byte)
      /\ u \in Unstuffing
  BY DEF Tracks
<1>3. WellFormed(dec')
  BY <1>1, <1>2, ConsumeLeaves
<1>4. frame' \in Seq(Byte) /\ frame' # <<>> /\ unstuffLoop(frame') = unstuffByte(u, b)
      /\ unstuffLoop(frame)' = unstuffByte(u, b)
  BY <1>1, <1>2, FrameGrows, AppendProperties
<1>5. unstuffByte(u, b) \in Unstuffing
  BY <1>2, UnstuffTypes
<1>6. ASSUME whole' = TRUE
      PROVE  Follows(dec', unstuffByte(u, b), clean)
  <2>1. whole /\ consume(dec, b, ok).error # "PacketTooBig"
    BY <1>1, <1>6
  <2>2. /\ clean => dec.state # "delimiter"
        /\ dec.state = "start" => frame = <<>> /\ (clean => dec.out = <<>>)
        /\ frame = <<>> => dec.state \in {"start", "delimiter"}
        /\ frame # <<>> => Follows(dec, unstuffLoop(frame), clean)
    BY <2>1 DEF Tracks
  <2> QED BY <1>1, <1>2, <2>1, <2>2, ByteFollows
<1>7. whole' \in BOOLEAN /\ clean' \in BOOLEAN
  BY <1>1, <1>2
<1> HIDE DEF u, s
<1>8. whole' => Follows(dec', unstuffByte(u, b), clean')
  BY <1>1, <1>6, <1>7
<1>9. whole' => dec'.state # "start" /\ (clean' => dec'.state # "delimiter")
  BY <1>8 DEF Follows
<1>10. begun' \in BOOLEAN
  BY <1>1 DEF Tracks
<1>11. ASSUME whole'
       PROVE  dec'.state = "delimiter" <=> ~begun'
  <2>1. whole /\ consume(dec, b, ok).error # "PacketTooBig"
    BY <1>1, <1>11
  <2>2. dec'.state = "delimiter" <=> dec.state = "delimiter"
    BY <1>1, <1>2, <2>1, WaitsOn
  <2> QED BY <1>1, <2>1, <2>2 DEF Tracks
<1> DEFINE f == unstuffLoop(frame)
<1>12. f' \in Unstuffing /\ (whole' => Follows(dec', f', clean'))
  BY <1>4, <1>5, <1>8
<1> HIDE DEF f
<1> QED BY <1>3, <1>4, <1>7, <1>9, <1>10, <1>11, <1>12 DEF Tracks, f

\* The zero after a frame, or between two.
LEMMA ZeroTracks ==
  ASSUME Tracks, NEW ok \in BOOLEAN, ConsumeByte(0, ok)
  PROVE  /\ Tracks'
         /\ frame # <<>> /\ whole =>
              /\ clean => dec'.packet = unstuff(frame)
              /\ dec'.packet # <<>> => IsSuffix(unstuff(frame), dec'.packet)
              /\ unstuff(frame) # <<>> => Recovered
<1> DEFINE s == Reset(dec)
           u == unstuffLoop(frame)
<1>0. 0 \in Byte
  BY KAssumption DEF Byte
<1>1. /\ dec' = consume(dec, 0, ok) /\ frame' = <<>> /\ whole' = TRUE
      /\ begun' = (dec'.state = "start") /\ clean' = (begun' /\ dec'.out = <<>>)
  BY DEF ConsumeByte
<1>2. /\ WellFormed(dec) /\ clean \in BOOLEAN /\ whole \in BOOLEAN /\ frame \in Seq(Byte)
      /\ u \in Unstuffing
  BY DEF Tracks
<1>3. WellFormed(dec')
  BY <1>0, <1>1, <1>2, ConsumeLeaves
<1>4. /\ WellFormed(s) /\ s.error = "none" /\ s.packet = <<>>
      /\ s.state = dec.state /\ s.out = dec.out /\ s.left = dec.left /\ s.zero = dec.zero
      /\ dec.state \in State
      /\ dec' = CASE dec.state = "delimiter" -> delimiter(s, 0)
                  [] dec.state = "start" -> start(s, 0)
                  [] dec.state = "block" -> block(s, 0)
                  [] dec.state = "nextBlock" -> nextBlock(s, 0, ok)
  BY <1>1, <1>2, ConsumeResets
<1>5. unstuff(frame) = IF u.left > 0 THEN <<>> ELSE u.out
  BY DEF unstuff
<1>6. frame # <<>> /\ whole => Follows(dec, u, clean)
  BY DEF Tracks
<1>7. WellFormed(s) => s \in Decoder
  BY DEF WellFormed, InBuffer
<1> HIDE DEF s
<1>8. /\ dec'.state \in {"start", "delimiter"}
      /\ frame # <<>> /\ whole =>
              /\ clean => dec'.packet = unstuff(frame)
              /\ dec'.packet # <<>> => IsSuffix(unstuff(frame), dec'.packet)
              /\ unstuff(frame) # <<>> => Recovered
  <2>1. CASE dec.state = "delimiter"
    <3>1. dec' = transit(s, "start")
      BY <1>4, <2>1 DEF delimiter
    <3>2. dec'.packet = <<>> /\ dec'.state = "start"
      BY <1>4, <1>7, <3>1 DEF transit, Decoder
    <3>3. whole => clean = FALSE
      BY <1>2, <2>1 DEF Tracks
    <3>4. whole => Recovered
      BY <1>1, <1>2, <2>1, <3>2 DEF Recovered, Tracks
    <3> QED BY <3>2, <3>3, <3>4
  <2>2. CASE dec.state = "start"
    <3>1. dec' = s
      BY <1>4, <2>2 DEF start
    <3>2. whole => frame = <<>>
      BY <2>2 DEF Tracks
    <3> QED BY <1>4, <2>2, <3>1, <3>2
  <2>3. CASE dec.state = "block"
    <3>1. dec' = fail(s, "CobsBadEncoding")
      BY <1>4, <2>3 DEF block
    <3>2. dec'.packet = <<>> /\ dec'.state = "delimiter"
      BY <1>4, <1>7, <3>1 DEF fail, Decoder
    <3>3. dec.left > 0
      BY <1>2, <2>3 DEF WellFormed
    <3>4. frame # <<>> /\ whole => unstuff(frame) = <<>>
      BY <1>5, <1>6, <2>3, <3>3 DEF Follows, InBlock
    <3> QED BY <3>2, <3>4
  <2>4. CASE dec.state = "nextBlock"
    <3>1. dec' = finishPacket(s, ok)
      BY <1>4, <2>4 DEF nextBlock
    <3>2. frame # <<>>
      BY <2>4 DEF Tracks
    <3>3. dec'.state \in {"start", "delimiter"}
      BY <1>4, <2>4, <3>1, FinishPacketState
    <3>4. ASSUME whole
          PROVE  /\ clean => dec'.packet = unstuff(frame)
                 /\ dec'.packet # <<>> => IsSuffix(unstuff(frame), dec'.packet)
                 /\ unstuff(frame) # <<>> => Recovered
      <4>1. AfterBlock(s, u, clean)
        BY <1>4, <1>6, <2>4, <3>2, <3>4 DEF Follows, AfterBlock
      <4>2. unstuff(frame) = u.out
        BY <1>5, <4>1 DEF AfterBlock
      <4> HIDE DEF u
      <4>3. dec'.out = <<>>
        BY <1>4, <2>4, <3>1, FinishPacketWellFormed
      <4>4. /\ clean => dec'.packet = unstuff(frame)
            /\ dec'.packet # <<>> => IsSuffix(unstuff(frame), dec'.packet)
            /\ unstuff(frame) # <<>> => dec'.packet # <<>>
        BY <1>2, <1>4, <2>4, <3>1, <4>1, <4>2, PacketFinished
      <4>5. begun
        BY <2>4, <3>4 DEF Tracks
      <4> QED BY <4>3, <4>4, <4>5 DEF Recovered
    <3> QED BY <3>3, <3>4
  <2> QED BY <1>4, <2>1, <2>2, <2>3, <2>4 DEF State
<1>9. unstuffLoop(frame)' \in Unstuffing /\ frame' \in Seq(Byte)
  BY <1>1, FrameGrows
<1>10. begun' \in BOOLEAN /\ clean' \in BOOLEAN /\ whole' \in BOOLEAN
       /\ (dec'.state = "delimiter" <=> ~begun')
  BY <1>1, <1>8
<1>11. clean' => dec'.state = "start" /\ dec'.out = <<>>
  BY <1>1
<1>12. Tracks'
  BY <1>1, <1>3, <1>8, <1>9, <1>10, <1>11 DEF Tracks
<1> QED BY <1>8, <1>12

\* What the frame has to do with the decoder holds in every reachable state.
LEMMA TracksInvariance == DecoderSpec => []Tracks
<1>1. DecoderInit => Tracks
  <2> SUFFICES ASSUME DecoderInit PROVE Tracks
    OBVIOUS
  <2>1. WellFormed(dec) /\ dec.state = "delimiter"
    BY SizeAssumption DEF DecoderInit, New, WellFormed, InBuffer, Decoder, State
  <2>2. unstuffLoop(frame) \in Unstuffing /\ frame \in Seq(Byte)
    BY FrameGrows DEF DecoderInit
  <2> QED BY <2>1, <2>2 DEF DecoderInit, Tracks
<1>2. Tracks /\ [DecoderNext]_decoderVars => Tracks'
  <2> SUFFICES ASSUME Tracks, [DecoderNext]_decoderVars PROVE Tracks'
    OBVIOUS
  <2>1. CASE decoderVars' = decoderVars
    BY <2>1 DEF Tracks, decoderVars
  <2>2. ASSUME NEW b \in Byte, NEW ok \in BOOLEAN, ConsumeByte(b, ok)
        PROVE  Tracks'
    BY <2>2, ByteTracks, ZeroTracks
  <2> QED BY <2>1, <2>2 DEF DecoderNext
<1> QED
  BY <1>1, <1>2, PTL DEF DecoderSpec

\* Only a zero ends a frame.
LEMMA FrameEnded ==
  ASSUME Tracks, DecoderNext, EndsFrame, whole
  PROVE  /\ clean => dec'.packet = unstuff(frame)
         /\ dec'.packet # <<>> => IsSuffix(unstuff(frame), dec'.packet)
         /\ unstuff(frame) # <<>> => Recovered
<1>1. PICK b \in Byte, ok \in BOOLEAN : ConsumeByte(b, ok)
  BY DEF DecoderNext
<1>2. b = 0
  <2> SUFFICES ASSUME b # 0 PROVE FALSE
    OBVIOUS
  <2>1. frame' = Append(frame, b) /\ frame \in Seq(Byte)
    BY <1>1 DEF ConsumeByte, Tracks
  <2> QED BY <2>1, AppendProperties DEF EndsFrame
<1> QED BY <1>1, <1>2, ZeroTracks DEF EndsFrame

(* Whatever the stream and the errors before, a frame that finds room in   *)
(* the buffer is decoded to what unstuff returns for it when the decoder   *)
(* began it clean, and what is handed out ends with that in any case       *)
(* (packet_decode_fsm.h:50-136, cobs/cobs.h:57-69).                        *)
THEOREM FramesDecoded == DecoderSpec => DecodesFrames
<1>1. Tracks /\ [DecoderNext]_decoderVars =>
        [EndsFrame /\ whole =>
           /\ (clean => dec'.packet = unstuff(frame))
           /\ (dec'.packet # <<>> => IsSuffix(unstuff(frame), dec'.packet))]_decoderVars
  BY FrameEnded
<1> QED
  BY <1>1, TracksInvariance, PTL DEF DecoderSpec, DecodesFrames

(* Whatever the stream and the errors before, a good frame that finds room *)
(* in the buffer is handed out and leaves it empty, or was skipped from    *)
(* its first byte on and the next one is not (packet_decode_fsm.h:50-136). *)
THEOREM DecoderRecovers == DecoderSpec => Recovers
<1>1. Tracks /\ [DecoderNext]_decoderVars =>
        [EndsFrame /\ whole /\ unstuff(frame) # <<>> => Recovered]_decoderVars
  BY FrameEnded
<1> QED
  BY <1>1, TracksInvariance, PTL DEF DecoderSpec, Recovers

-----------------------------------------------------------------------------
\* A payload of the size that is said to fit does fit.
LEMMA Fits ==
  ASSUME NEW n \in Nat
  PROVE  /\ n >= 1 => maxStuffedSize(maxPayloadSize(n)) <= n
         /\ n >= 3 => maxStuffedAndDelimitedSize(maxPayloadSizeDelimited(n)) <= n
<1> DEFINE m(k) == (k * (K - 1)) \div K
<1>1. ASSUME NEW k \in Nat
      PROVE  m(k) + m(k) \div (K - 1) <= k
  <2> DEFINE a == m(k)
             q == a \div (K - 1)
  <2>0. K \in Nat /\ K >= 3 /\ K - 1 \in Nat \ {0} /\ k * (K - 1) \in Nat
    BY KAssumption
  <2>1. a \in Nat /\ K * a <= k * (K - 1)
    <3> DEFINE x == k * (K - 1)
    <3>1. x \in Nat
      BY <2>0
    <3> HIDE DEF x
    <3>2. x \div K \in Nat /\ K * (x \div K) <= x
      BY <2>0, <3>1, SMTT(30)
    <3> QED BY <3>2 DEF x
  <2> HIDE DEF a
  <2>2. q \in Nat /\ (K - 1) * q <= a
    <3> DEFINE j == K - 1
    <3>1. j \in Nat \ {0}
      BY <2>0
    <3> HIDE DEF j
    <3>2. a \div j \in Nat /\ j * (a \div j) <= a
      BY <2>1, <3>1, SMTT(30)
    <3> QED BY <3>2 DEF j
  <2> HIDE DEF q
  <2>3. SUFFICES ASSUME a + q >= k + 1 PROVE FALSE
    BY <2>1, <2>2 DEF a, q
  <2>4. (K - 1) * (a + q) >= (K - 1) * (k + 1)
    BY <2>0, <2>1, <2>2, <2>3, SMTT(30)
  <2>5. (K - 1) * (a + q) = (K - 1) * a + (K - 1) * q /\ (K - 1) * (k + 1) = k * (K - 1) + (K - 1)
        /\ K * a = (K - 1) * a + a
    BY <2>0, <2>1, <2>2, SMTT(30)
  <2>6. (K - 1) * a \in Int /\ (K - 1) * q \in Int /\ k * (K - 1) \in Int /\ K * a \in Int
    BY <2>0, <2>1, <2>2
  <2> DEFINE v == (K - 1) * a
             w == (K - 1) * q
             x == k * (K - 1)
             y == K * a
             z == (K - 1) * (a + q)
             c == (K - 1) * (k + 1)
  <2>7. v + w >= x + (K - 1) /\ y = v + a /\ y <= x /\ w <= a /\ v \in Int /\ w \in Int /\ x \in Int
    BY <2>1, <2>2, <2>4, <2>5, <2>6
  <2> HIDE DEF v, w, x, y
  <2> QED BY <2>0, <2>1, <2>7
<1>2. \A k \in Nat : m(k) \in Int /\ m(k) \div (K - 1) \in Int
  BY KAssumption
<1>3. n >= 1 => n - 1 \in Nat
  OBVIOUS
<1>4. n >= 3 => n - 2 - 1 \in Nat
  OBVIOUS
<1>5. maxPayloadSize(n) = m(n - 1) /\ maxPayloadSizeDelimited(n) = m(n - 2 - 1)
  BY DEF maxPayloadSize, maxPayloadSizeDelimited
<1>6. \A l : maxStuffedSize(l) = l + 1 + l \div (K - 1)
             /\ maxStuffedAndDelimitedSize(l) = l + 1 + l \div (K - 1) + 2
  BY DEF maxStuffedSize, maxStuffedAndDelimitedSize
<1> HIDE DEF m
<1> QED BY <1>1, <1>2, <1>3, <1>4, <1>5, <1>6

(* Every payload, of any length and for any block length, comes back from  *)
(* unstuff as it went into stuff, what is stuffed has no zero, and the     *)
(* buffers allocated by the size functions are large enough                *)
(* (cobs.h:7-63, cobs/cobs.h:9-69).                                        *)
THEOREM PayloadsReturn == PayloadSpec => []RoundTrip
<1>1. PayloadInit => bytes \in Seq(Byte)
  BY DEF PayloadInit
<1>2. bytes \in Seq(Byte) /\ [PayloadNext]_bytes => (bytes \in Seq(Byte))'
  <2> SUFFICES ASSUME bytes \in Seq(Byte), NEW b \in Byte, bytes' = Append(bytes, b)
               PROVE  bytes' \in Seq(Byte)
    BY DEF PayloadNext
  <2> QED BY AppendProperties
<1>3. bytes \in Seq(Byte) => RoundTrip
  <2> SUFFICES ASSUME bytes \in Seq(Byte) PROVE RoundTrip
    OBVIOUS
  <2>1. Len(bytes) \in Nat
    OBVIOUS
  <2>2. PayloadFits
    BY <2>1, Fits DEF PayloadFits
  <2> QED BY <2>2, AllInputs, StuffUnstuffs DEF RoundTrip, Unstuffs, BuffersSuffice
<1> QED BY <1>1, <1>2, <1>3, PTL DEF PayloadSpec

-----------------------------------------------------------------------------
(* s consists of the sequences in f, one after the other; the i-th of them *)
(* ends at pos[i].                                                         *)
Joined(s, f) ==
  \E pos \in [0 .. Len(f) -> 0 .. Len(s)] :
     /\ pos[0] = 0 /\ pos[Len(f)] = Len(s)
     /\ \A i, j \in 0 .. Len(f) : i <= j => pos[i] <= pos[j]
     /\ \A i \in 1 .. Len(f) :
           /\ pos[i] = pos[i - 1] + Len(f[i])
           /\ \A k \in 1 .. Len(f[i]) : s[pos[i - 1] + k] = f[i][k]

-----------------------------------------------------------------------------
\* Another one at the end.
LEMMA JoinedAppend ==
  ASSUME NEW s \in Seq(Byte), NEW f \in Seq(Seq(Byte)), Joined(s, f), NEW e \in Seq(Byte)
  PROVE  Joined(s \o e, Append(f, e))
<1> DEFINE n == Len(f)
           t == s \o e
           g == Append(f, e)
<1>1. n \in Nat /\ Len(s) \in Nat /\ Len(e) \in Nat
  OBVIOUS
<1>2. g \in Seq(Seq(Byte)) /\ Len(g) = n + 1 /\ g[n + 1] = e /\ \A i \in 1 .. n : g[i] = f[i]
  BY AppendProperties
<1>3. /\ Len(t) = Len(s) + Len(e)
      /\ \A i \in 1 .. Len(s) : t[i] = s[i]
      /\ \A i \in 1 .. Len(e) : t[Len(s) + i] = e[i]
  BY ConcatProperties
<1>4. PICK pos \in [0 .. n -> 0 .. Len(s)] :
        /\ pos[0] = 0 /\ pos[n] = Len(s)
        /\ \A i, j \in 0 .. n : i <= j => pos[i] <= pos[j]
        /\ \A i \in 1 .. n : /\ pos[i] = pos[i - 1] + Len(f[i])
                             /\ \A k \in 1 .. Len(f[i]) : s[pos[i - 1] + k] = f[i][k]
  BY DEF Joined
<1> DEFINE end == [i \in 0 .. n + 1 |-> IF i = n + 1 THEN Len(t) ELSE pos[i]]
<1> HIDE DEF t, g, n
<1>5. end \in [0 .. n + 1 -> 0 .. Len(t)] /\ end[n + 1] = Len(t) /\ end[0] = 0
      /\ \A i \in 0 .. n : end[i] = pos[i]
  BY <1>1, <1>3, <1>4
<1> HIDE DEF end
<1>6. \A i, j \in 0 .. n + 1 : i <= j => end[i] <= end[j]
  <2> SUFFICES ASSUME NEW i \in 0 .. n + 1, NEW j \in 0 .. n + 1, i <= j
               PROVE  end[i] <= end[j]
    OBVIOUS
  <2>1. CASE j = n + 1
    BY <1>1, <1>3, <1>5, <2>1
  <2>2. CASE i \in 0 .. n /\ j \in 0 .. n
    BY <1>4, <1>5, <2>2
  <2> QED BY <1>1, <2>1, <2>2
<1>7. ASSUME NEW i \in 1 .. n + 1
      PROVE  /\ end[i] = end[i - 1] + Len(g[i])
             /\ \A k \in 1 .. Len(g[i]) : t[end[i - 1] + k] = g[i][k]
  <2>1. CASE i = n + 1
    <3>1. i - 1 = n /\ n \in 0 .. n /\ end[i - 1] = Len(s) /\ end[i] = Len(t) /\ g[i] = e
      BY <1>1, <1>2, <1>4, <1>5, <2>1
    <3> QED BY <1>3, <3>1
  <2>2. CASE i \in 1 .. n
    <3>1. i - 1 \in 0 .. n /\ i \in 0 .. n /\ end[i - 1] = pos[i - 1] /\ end[i] = pos[i] /\ g[i] = f[i]
      BY <1>1, <1>2, <1>5, <2>2
    <3>2. pos[i] = pos[i - 1] + Len(f[i]) /\ pos[i] \in 0 .. Len(s) /\ pos[i - 1] \in 0 .. Len(s)
      BY <1>4, <2>2, <3>1
    <3>3. Len(f[i]) \in Nat
      BY <2>2, ElementOfSeq DEF n
    <3>4. ASSUME NEW k \in 1 .. Len(f[i]) PROVE t[end[i - 1] + k] = f[i][k]
      <4>1. pos[i - 1] + k \in 1 .. Len(s)
        BY <1>1, <3>2, <3>3, SMTT(30)
      <4>2. s[pos[i - 1] + k] = f[i][k]
        BY <1>4, <2>2
      <4> QED BY <1>3, <3>1, <4>1, <4>2
    <3> QED BY <3>1, <3>2, <3>4
  <2> QED BY <1>1, <2>1, <2>2
<1>8. /\ end \in [0 .. Len(g) -> 0 .. Len(t)] /\ end[0] = 0 /\ end[Len(g)] = Len(t)
      /\ \A i, j \in 0 .. Len(g) : i <= j => end[i] <= end[j]
      /\ \A i \in 1 .. Len(g) : /\ end[i] = end[i - 1] + Len(g[i])
                              /\ \A k \in 1 .. Len(g[i]) : t[end[i - 1] + k] = g[i][k]
  BY <1>2, <1>5, <1>6, <1>7
<1>9. Joined(t, g)
  BY <1>8, Zenon DEF Joined
<1> QED BY <1>9 DEF t, g

\* Where there is something, it begins with the first of them.
LEMMA JoinedFirst ==
  ASSUME NEW s \in Seq(Byte), NEW f \in Seq(Seq(Byte)), Joined(s, f), s # <<>>
  PROVE  /\ f # <<>> /\ f[1] \in Seq(Byte) /\ Len(f[1]) \in 0 .. Len(s)
         /\ \A k \in 1 .. Len(f[1]) : s[k] = f[1][k]
<1> DEFINE n == Len(f)
<1>1. PICK pos \in [0 .. n -> 0 .. Len(s)] :
        /\ pos[0] = 0 /\ pos[n] = Len(s)
        /\ \A i \in 1 .. n : /\ pos[i] = pos[i - 1] + Len(f[i])
                             /\ \A k \in 1 .. Len(f[i]) : s[pos[i - 1] + k] = f[i][k]
  BY DEF Joined
<1>2. n # 0
  BY <1>1
<1>3. 1 \in 1 .. n /\ f[1] \in Seq(Byte) /\ 1 - 1 = 0
  BY <1>2, ElementOfSeq
<1>4. pos[1] = pos[0] + Len(f[1]) /\ \A k \in 1 .. Len(f[1]) : s[pos[0] + k] = f[1][k]
  BY <1>1, <1>3
<1>5. Len(f[1]) \in Nat /\ pos[1] \in 0 .. Len(s)
  <2>1. 1 \in 0 .. n
    BY <1>2
  <2>2. pos[1] \in 0 .. Len(s)
    BY <1>1, <2>1, Zenon
  <2> QED BY <1>3, <2>2
<1>6. \A k \in 1 .. Len(f[1]) : 0 + k = k
  BY <1>5
<1> QED BY <1>1, <1>2, <1>3, <1>4, <1>5, <1>6

\* What comes after the first of them.
LEMMA JoinedTail ==
  ASSUME NEW q \in Seq(Byte), NEW s \in Seq(Byte), NEW f \in Seq(Seq(Byte)), f # <<>>,
         Joined(q \o s, f), Len(q) = Len(f[1])
  PROVE  Joined(s, Tail(f))
<1> DEFINE n == Len(f)
           t == q \o s
           g == Tail(f)
           a == Len(q)
<1>1. n \in Nat /\ n # 0 /\ Len(s) \in Nat /\ a \in Nat
  OBVIOUS
<1>2. g \in Seq(Seq(Byte)) /\ Len(g) = n - 1 /\ \A i \in 1 .. n - 1 : g[i] = f[i + 1]
  BY HeadTailProperties
<1>3. Len(t) = a + Len(s) /\ \A i \in 1 .. Len(s) : t[a + i] = s[i]
  <2>1. Len(t) = a + Len(s)
        /\ \A i \in 1 .. a + Len(s) : t[i] = IF i <= a THEN q[i] ELSE s[i - a]
    BY ConcatProperties
  <2>2. \A i \in 1 .. Len(s) : a + i \in 1 .. a + Len(s) /\ ~(a + i <= a) /\ (a + i) - a = i
    BY <1>1
  <2> HIDE DEF t, a
  <2> QED BY <2>1, <2>2
<1>4. PICK pos \in [0 .. n -> 0 .. Len(t)] :
        /\ pos[0] = 0 /\ pos[n] = Len(t)
        /\ \A i, j \in 0 .. n : i <= j => pos[i] <= pos[j]
        /\ \A i \in 1 .. n : /\ pos[i] = pos[i - 1] + Len(f[i])
                             /\ \A k \in 1 .. Len(f[i]) : t[pos[i - 1] + k] = f[i][k]
  BY DEF Joined
<1> HIDE DEF t, g, n, a
<1>5. pos[1] = a
  <2>1. pos[1] = pos[0] + Len(f[1])
    BY <1>1, <1>4
  <2> QED BY <1>1, <1>4, <2>1 DEF a
<1>6. ASSUME NEW i \in 1 .. n PROVE pos[i] - a \in 0 .. Len(s)
  <2>1. pos[1] <= pos[i] /\ pos[i] \in 0 .. Len(t)
    BY <1>1, <1>4
  <2> QED BY <1>1, <1>3, <1>5, <2>1
<1> DEFINE end == [i \in 0 .. n - 1 |-> pos[i + 1] - a]
<1>7. end \in [0 .. n - 1 -> 0 .. Len(s)] /\ \A i \in 0 .. n - 1 : end[i] = pos[i + 1] - a
  BY <1>1, <1>6
<1> HIDE DEF end
<1>8. end[0] = 0 /\ end[n - 1] = Len(s)
  BY <1>1, <1>3, <1>4, <1>5, <1>7
<1>9. \A i, j \in 0 .. n - 1 : i <= j => end[i] <= end[j]
  <2> SUFFICES ASSUME NEW i \in 0 .. n - 1, NEW j \in 0 .. n - 1, i <= j
               PROVE  end[i] <= end[j]
    OBVIOUS
  <2>1. i + 1 \in 0 .. n /\ j + 1 \in 0 .. n /\ i + 1 <= j + 1
    BY <1>1
  <2>2. pos[i + 1] <= pos[j + 1]
    BY <1>4, <2>1
  <2>3. pos[i + 1] \in 0 .. Len(t) /\ pos[j + 1] \in 0 .. Len(t)
    BY <2>1
  <2>4. end[i] = pos[i + 1] - a /\ end[j] = pos[j + 1] - a
    BY <1>7
  <2> QED BY <1>1, <2>2, <2>3, <2>4
<1>10. ASSUME NEW i \in 1 .. n - 1
       PROVE  /\ end[i] = end[i - 1] + Len(g[i])
              /\ \A k \in 1 .. Len(g[i]) : s[end[i - 1] + k] = g[i][k]
  <2>1. i + 1 \in 1 .. n /\ i \in 1 .. n /\ i - 1 \in 0 .. n - 1 /\ (i + 1) - 1 = i /\ (i - 1) + 1 = i
    BY <1>1
  <2>2. g[i] = f[i + 1] /\ f[i + 1] \in Seq(Byte) /\ Len(f[i + 1]) \in Nat
    BY <1>2, <2>1, ElementOfSeq DEF n
  <2>3. pos[i + 1] = pos[i] + Len(f[i + 1]) /\ \A k \in 1 .. Len(f[i + 1]) : t[pos[i] + k] = f[i + 1][k]
    BY <1>4, <2>1
  <2>4. end[i] = pos[i + 1] - a /\ end[i - 1] = pos[i] - a
    BY <1>7, <2>1
  <2>5. /\ pos[i] \in 0 .. Len(t) /\ pos[i + 1] \in 0 .. Len(t)
        /\ pos[i] - a \in 0 .. Len(s) /\ pos[i + 1] - a \in 0 .. Len(s)
    <3>1. i \in 0 .. n /\ i + 1 \in 0 .. n
      BY <1>1
    <3> QED BY <1>6, <2>1, <3>1
  <2>6. ASSUME NEW k \in 1 .. Len(g[i]) PROVE s[end[i - 1] + k] = g[i][k]
    <3> DEFINE m == pos[i]
               l == pos[i + 1]
    <3>1. m \in Nat /\ l \in Nat /\ m - a \in Nat /\ l - a <= Len(s) /\ l = m + Len(g[i])
          /\ k \in 1 .. Len(g[i]) /\ Len(g[i]) \in Nat
      BY <1>1, <2>2, <2>3, <2>5
    <3> HIDE DEF m, l
    <3>2. m - a + k \in 1 .. Len(s) /\ a + (m - a + k) = m + k
      BY <1>1, <3>1, SMTT(30)
    <3>3. t[a + (m - a + k)] = s[m - a + k]
      BY <1>3, <3>2
    <3>4. t[m + k] = g[i][k] /\ end[i - 1] = m - a
      BY <2>2, <2>3, <2>4 DEF m
    <3> QED BY <3>2, <3>3, <3>4
  <2>7. end[i] = end[i - 1] + Len(g[i])
    <3> DEFINE m == pos[i]
               l == pos[i + 1]
    <3>1. m \in Nat /\ l \in Nat /\ l = m + Len(g[i]) /\ end[i] = l - a /\ end[i - 1] = m - a
      BY <2>2, <2>3, <2>4, <2>5
    <3> HIDE DEF m, l
    <3> QED BY <1>1, <2>2, <3>1
  <2> QED BY <2>6, <2>7
<1>11. /\ end \in [0 .. Len(g) -> 0 .. Len(s)] /\ end[0] = 0 /\ end[Len(g)] = Len(s)
       /\ \A i, j \in 0 .. Len(g) : i <= j => end[i] <= end[j]
       /\ \A i \in 1 .. Len(g) : /\ end[i] = end[i - 1] + Len(g[i])
                               /\ \A k \in 1 .. Len(g[i]) : s[end[i - 1] + k] = g[i][k]
  BY <1>2, <1>7, <1>8, <1>9, <1>10
<1>12. Joined(s, g)
  BY <1>11, Zenon DEF Joined
<1> QED BY <1>12 DEF g

-----------------------------------------------------------------------------
(* The packet that carries a payload, and what a peer may have written. *)
Packed(x) == appendCrc(<<x[1]>> \o x[2])
Writable == {x \in (0 .. PeerChannels - 1) \X Payload : CanWrite(Packed(x))}

(* What a message holds is a buffer or nothing; a channel's has a buffer. *)
Message(m) == m.ok \in BOOLEAN
Delivery(m) == Message(m) /\ (m # None => m.ok)

Types ==
  /\ wire \in Seq(Byte) /\ lower \in Seq(Byte) /\ chunk \in Seq(Byte)
  /\ readThread = "consuming" <=> chunk # <<>>
  /\ WellFormed(d)
  /\ Message(readMailbox) /\ Message(hand) /\ (muxThread # "handling" => hand = None)
  /\ DOMAIN mailboxes = Channel /\ \A c \in Channel : Delivery(mailboxes[c])
  /\ lost \in BOOLEAN /\ free \in Nat /\ holds \subseteq Channel
  /\ sent \in Seq(Writable)

\* A packet that write is given, and the frame it makes of it.
LEMMA PacketFrame ==
  ASSUME NEW x \in (0 .. PeerChannels - 1) \X Payload
  PROVE  /\ Packed(x) \in Seq(Byte) /\ Packed(x) # <<>>
         /\ stuffAndDelim(Packed(x)) \in Seq(Byte)
<1> DEFINE c == x[1]
           p == x[2]
           h == <<c>> \o p
<1>1. c \in Byte /\ 0 \in Byte /\ p \in Seq(Byte) /\ c \in 0 .. PeerChannels - 1 /\ p \in Payload
  BY MuxAssumption, KAssumption DEF Byte
<1>2. Crc[h] \in Byte
  BY <1>1, MuxAssumption
<1>3. h \in Seq(Byte)
  BY <1>1, ConcatProperties
<1> HIDE DEF h
<1>4. appendCrc(h) \in Seq(Byte) /\ appendCrc(h) # <<>>
  BY <1>2, <1>3, AppendProperties DEF appendCrc
<1>5. stuff(appendCrc(h)) \in Seq(Byte)
  BY <1>4, StuffUnstuffs
<1>6. <<0>> \o stuff(appendCrc(h)) \in Seq(Byte)
  BY <1>1, <1>5, ConcatProperties
<1>7. stuffAndDelim(appendCrc(h)) \in Seq(Byte)
  BY <1>1, <1>6, ConcatProperties DEF stuffAndDelim
<1> QED BY <1>4, <1>7 DEF h, Packed

\* A message is nothing, an error or a packet.
LEMMA Messages ==
  /\ Message(None) /\ ~None.ok /\ Held(None) = 0 /\ Delivery(None)
  /\ \A e : Message(Error(e)) /\ ~Error(e).ok /\ Held(Error(e)) = 0
  /\ \A p : Message(Packet(p)) /\ Packet(p).ok /\ Held(Packet(p)) = 1 /\ Delivery(Packet(p))
  /\ \A m : Message(m) => Held(m) \in 0 .. 1
  BY DEF Message, None, Error, Packet, Held, Delivery

\* A call of the decoder.
LEMMA ConsumeCall ==
  ASSUME Types, Consume
  PROVE  /\ chunk # <<>> /\ Head(chunk) \in Byte /\ readThread = "consuming"
         /\ d' = consume(d, Head(chunk), free > 0) /\ WellFormed(d')
         /\ free = 0 => d'.error # "none" \/ d'.packet = <<>>
<1>1. chunk # <<>> /\ chunk \in Seq(Byte) /\ readThread = "consuming"
  BY DEF Consume, Types
<1>2. Head(chunk) \in Byte
  BY <1>1, HeadTailProperties
<1>3. d' = consume(d, Head(chunk), free > 0) /\ (free > 0) \in BOOLEAN /\ WellFormed(d)
  BY DEF Consume, Types
<1>4. WellFormed(d')
  BY <1>2, <1>3, ConsumeLeaves
<1>5. ASSUME free = 0 PROVE d' = consume(d, Head(chunk), FALSE)
  <2>1. (free > 0) = FALSE
    BY <1>5
  <2> QED BY <1>3, <2>1, Zenon
<1>6. free = 0 => d'.error # "none" \/ d'.packet = <<>>
  BY <1>2, <1>3, <1>5, RefusedWithoutBuffer
<1> QED BY <1>1, <1>2, <1>3, <1>4, <1>6

-----------------------------------------------------------------------------
\* The steps of the device.
LEMMA DeviceTypes == Types /\ Device => Types'
<1> SUFFICES ASSUME Types, Device PROVE Types'
  OBVIOUS
<1>0. UNCHANGED <<muxVars, sent>>
  BY DEF Device
<1>1. ASSUME NEW n \in 1 .. MaxChunk, Receive(n) PROVE Types'
  <2>1. n <= Len(wire) /\ wire' = SubSeq(wire, n + 1, Len(wire)) /\ wire \in Seq(Byte)
        /\ n \in Nat
    BY <1>1, DeviceAssumption DEF Receive, Types
  <2>2. wire' \in Seq(Byte) /\ SubSeq(wire, 1, n) \in Seq(Byte)
    BY <2>1
  <2>3. lower' \in Seq(Byte) /\ free' \in Nat /\ lost' \in BOOLEAN
    <3>1. CASE free = 0
      BY <1>1, <2>2, <3>1 DEF Receive, Types
    <3>2. CASE free # 0
      <4>1. free \in Nat /\ lower' = SubSeq(wire, 1, n) /\ free' = free - (IF lower = <<>> THEN 1 ELSE 0)
        BY <1>1, <3>2 DEF Receive, Types
      <4>2. lost' \in BOOLEAN
        BY <1>1 DEF Receive, Types
      <4> QED BY <2>2, <3>2, <4>1, <4>2
    <3> QED BY <3>1, <3>2
  <2> QED BY <1>0, <1>1, <2>2, <2>3 DEF Receive, Types, muxVars, Delivery, Message
<1>2. CASE Check
  BY <1>0, <1>2 DEF Check, Types, muxVars
<1>3. CASE ReadChunk
  <2>1. <<>> \in Seq(Byte)
    OBVIOUS
  <2> QED BY <1>0, <1>3, <2>1 DEF ReadChunk, Types, muxVars
<1>4. CASE ReadTimesOut
  BY <1>0, <1>4 DEF ReadTimesOut, Types, muxVars
<1>7. CASE ReadFails
  <2>1. free' \in Nat
    <3>1. free \in Nat /\ Held(readMailbox) \in 0 .. 1
      BY Messages DEF Types
    <3>2. free' = free + Held(readMailbox) + (IF lower = <<>> THEN 0 ELSE 1)
      BY <1>7 DEF ReadFails
    <3> QED BY <3>1, <3>2
  <2>2. lower' \in Seq(Byte) /\ lost' \in BOOLEAN /\ Message(readMailbox')
    BY <1>7, Messages DEF ReadFails, Types
  <2> QED BY <1>0, <1>7, <2>1, <2>2 DEF ReadFails, Types, muxVars
<1>5. CASE Consume
  <2>1. /\ chunk # <<>> /\ WellFormed(d') /\ free \in Nat /\ chunk \in Seq(Byte)
        /\ free = 0 => d'.error # "none" \/ d'.packet = <<>>
        /\ Held(readMailbox) \in 0 .. 1
    BY <1>5, ConsumeCall, Messages DEF Types
  <2>2. Tail(chunk) \in Seq(Byte) /\ Len(Tail(chunk)) = Len(chunk) - 1 /\ <<>> \in Seq(Byte)
        /\ (Len(chunk) = 1 <=> Tail(chunk) = <<>>)
    <3>1. Tail(chunk) \in Seq(Byte) /\ Len(Tail(chunk)) = Len(chunk) - 1 /\ Len(chunk) \in Nat
      BY <2>1, HeadTailProperties
    <3>2. \A t \in Seq(Byte) : t = <<>> <=> Len(t) = 0
      BY EmptySeq
    <3> DEFINE t == Tail(chunk)
    <3>3. t \in Seq(Byte) /\ Len(t) = Len(chunk) - 1 /\ (t = <<>> <=> Len(t) = 0)
      BY <3>1, <3>2
    <3> HIDE DEF t
    <3>4. Len(chunk) = 1 <=> t = <<>>
      BY <3>1, <3>3
    <3> QED BY <3>3, <3>4, EmptySeq DEF t
  <2>3. CASE d'.error # "none"
    <3>1. free' = free + 1 + Held(readMailbox) /\ readMailbox' = Error(d'.error) /\ chunk' = <<>>
          /\ readThread' = "check"
      BY <1>5, <2>3 DEF Consume, reportError
    <3>2. free' \in Nat /\ Message(readMailbox')
      BY <2>1, <3>1, Messages
    <3> QED BY <1>0, <1>5, <2>1, <2>2, <3>1, <3>2 DEF Consume, Types, muxVars, Message
  <2>4. CASE d'.error = "none" /\ d'.packet # <<>>
    <3>1. free' = free - 1 + Held(readMailbox) /\ readMailbox' = Packet(d'.packet)
          /\ chunk' = Tail(chunk)
          /\ readThread' = IF Len(chunk) = 1 THEN "release" ELSE "consuming"
      BY <1>5, <2>4 DEF Consume, packetFinished
    <3>2. free' \in Nat /\ Message(readMailbox')
      BY <2>1, <2>4, <3>1, Messages
    <3> QED BY <1>0, <1>5, <2>1, <2>2, <3>1, <3>2 DEF Consume, Types, muxVars, Message
  <2>5. CASE d'.error = "none" /\ d'.packet = <<>>
    <3>1. UNCHANGED <<free, readMailbox>> /\ chunk' = Tail(chunk)
          /\ readThread' = IF Len(chunk) = 1 THEN "release" ELSE "consuming"
      BY <1>5, <2>5 DEF Consume
    <3> QED BY <1>0, <1>5, <2>1, <2>2, <3>1 DEF Consume, Types, muxVars, Message
  <2> QED BY <2>3, <2>4, <2>5
<1>6. CASE Release
  BY <1>0, <1>6 DEF Release, Types, muxVars
<1> QED BY <1>1, <1>2, <1>3, <1>4, <1>5, <1>6, <1>7 DEF Device, ReadThread

\* The steps of the read thread of the multiplexer, of its clients and of
\* the peer.
LEMMA MuxTypes == Types /\ MuxThread => Types'
<1> SUFFICES ASSUME Types, MuxThread PROVE Types'
  OBVIOUS
<1>1. CASE MuxCheck
  BY <1>1 DEF MuxCheck, Types, deviceVars
<1>2. CASE MuxRead
  BY <1>2, Messages DEF MuxRead, read, Types, Message
<1>3. CASE MuxTimesOut
  BY <1>3 DEF MuxTimesOut, Types, deviceVars
<1>4. CASE Deliver
  <2> DEFINE c == Head(hand.packet)
             m == Packet(payload(hand.packet))
  <2>1. c \in Channel
    BY <1>4 DEF Deliver, Accepted
  <2>2. /\ mailboxes' = [mailboxes EXCEPT ![c] = m]
        /\ free' = free + Held(mailboxes[c])
        /\ hand' = None
    BY <1>4 DEF Deliver
  <2>3. Delivery(m) /\ Message(hand') /\ Held(mailboxes[c]) \in 0 .. 1
    BY <2>1, <2>2, Messages DEF Types, Delivery
  <2> HIDE DEF c, m
  <2>4. free' \in Nat /\ DOMAIN mailboxes' = Channel
        /\ \A a \in Channel : Delivery(mailboxes'[a])
    BY <2>1, <2>2, <2>3 DEF Types
  <2> QED BY <1>4, <2>2, <2>3, <2>4 DEF Deliver, Types, Message
<1>5. CASE Refuse
  <2>1. Held(hand) \in 0 .. 1 /\ Message(None)
    BY Messages DEF Types
  <2> QED BY <1>5, <2>1 DEF Refuse, Types, Message
<1> QED BY <1>1, <1>2, <1>3, <1>4, <1>5 DEF MuxThread

\* Likewise.
LEMMA StepTypes == Types /\ [Next]_vars => Types'
<1> SUFFICES ASSUME Types, [Next]_vars PROVE Types'
  OBVIOUS
<1>1. CASE UNCHANGED vars
  BY <1>1 DEF vars, deviceVars, muxVars, Types
<1>2. ASSUME NEW c \in 0 .. PeerChannels - 1, NEW p \in Payload, Write(c, p) PROVE Types'
  <2> DEFINE x == <<c, p>>
  <2>1. x \in (0 .. PeerChannels - 1) \X Payload /\ x[1] = c /\ x[2] = p
    OBVIOUS
  <2>2. /\ CanWrite(appendCrc(<<c>> \o p)) /\ sent' = Append(sent, x)
        /\ wire' = wire \o stuffAndDelim(appendCrc(<<c>> \o p))
    BY <1>2 DEF Write, write
  <2>3. Packed(x) = appendCrc(<<c>> \o p)
    BY <2>1 DEF Packed
  <2> HIDE DEF x
  <2>4. sent' \in Seq(Writable)
    <3>1. x \in Writable
      BY <2>1, <2>2, <2>3 DEF Writable
    <3> QED BY <2>2, <3>1, AppendProperties DEF Types
  <2>5. wire' \in Seq(Byte)
    BY <2>1, <2>2, <2>3, PacketFrame, ConcatProperties DEF Types
  <2> QED BY <1>2, <2>4, <2>5 DEF Write, muxVars, Types
<1>3. ASSUME NEW c \in Channel, Read(c) PROVE Types'
  <2>1. mailboxes' = [mailboxes EXCEPT ![c] = None] /\ holds' = holds \union {c}
    BY <1>3 DEF Read
  <2>2. DOMAIN mailboxes' = Channel /\ \A a \in Channel : Delivery(mailboxes'[a])
    BY <2>1, Messages DEF Types
  <2>3. holds' \subseteq Channel
    BY <2>1 DEF Types
  <2> QED BY <1>3, <2>2, <2>3 DEF Read, deviceVars, Types
<1>4. ASSUME NEW c \in Channel, Drop(c) PROVE Types'
  BY <1>4 DEF Drop, Types
<1>5. CASE DestroyMux
  BY <1>5 DEF DestroyMux, deviceVars, Types
<1>6. CASE DestroyDevice
  BY <1>6 DEF DestroyDevice, requestStop, muxVars, Types
<1> QED BY <1>1, <1>2, <1>3, <1>4, <1>5, <1>6, DeviceTypes, MuxTypes DEF Next

\* At the start.
LEMMA InitTypes == Init => Types
<1> SUFFICES ASSUME Init PROVE Types
  OBVIOUS
<1>1. WellFormed(New)
  BY SizeAssumption DEF New, WellFormed, InBuffer, Decoder, State
<1>2. mailboxes = [c \in Channel |-> None]
  BY DEF Init
<1>3. DOMAIN mailboxes = Channel /\ \A c \in Channel : Delivery(mailboxes[c])
  BY <1>2, Messages
<1>4. NumBuffers - 2 \in Nat
  BY DeviceAssumption
<1>5. <<>> \in Seq(Byte) /\ <<>> \in Seq(Writable)
  OBVIOUS
<1> QED BY <1>1, <1>3, <1>4, <1>5, Messages DEF Init, DeviceInit, Types

-----------------------------------------------------------------------------
(* The buffers outside of the device. *)
Waiting == {c \in Channel : mailboxes[c].ok}
MuxBuffers == Held(hand) + Cardinality(holds) + Cardinality(Waiting)

\* The sum of BuffersConserved and what its parts may be.
LEMMA Sums ==
  ASSUME Types
  PROVE  /\ BuffersConserved <=> NumBuffers = free + DeviceBuffers + MuxBuffers
         /\ MuxBuffers \in Nat /\ DeviceBuffers \in Nat /\ free \in Nat /\ NumBuffers \in Nat
         /\ Held(hand) \in 0 .. 1 /\ Held(readMailbox) \in 0 .. 1
         /\ Cardinality(holds) \in Nat /\ Cardinality(Waiting) \in Nat
         /\ IsFiniteSet(holds) /\ IsFiniteSet(Waiting)
<1>1. IsFiniteSet(Channel)
  BY MuxAssumption, FS_Interval DEF Channel
<1>2. holds \in SUBSET Channel /\ Waiting \in SUBSET Channel
  BY DEF Types, Waiting
<1>3. IsFiniteSet(holds) /\ IsFiniteSet(Waiting)
  BY <1>1, <1>2, FS_Subset
<1>4. Cardinality(holds) \in Nat /\ Cardinality(Waiting) \in Nat
  BY <1>3, FS_CardinalityType
<1>5. Held(hand) \in 0 .. 1 /\ Held(readMailbox) \in 0 .. 1 /\ free \in Nat /\ NumBuffers \in Nat
  BY DeviceAssumption, Messages DEF Types
<1>6. MuxBuffers \in Nat
  BY <1>4, <1>5 DEF MuxBuffers
<1>7. DeviceBuffers \in Nat
  BY <1>5 DEF DeviceBuffers
<1> DEFINE w == Cardinality(Waiting)
           h == Cardinality(holds)
<1>8. BuffersConserved <=> NumBuffers = free + DeviceBuffers + Held(hand) + h + w
  BY DEF BuffersConserved, Waiting
<1>9. MuxBuffers = Held(hand) + h + w /\ w \in Nat /\ h \in Nat
  BY <1>4 DEF MuxBuffers
<1> HIDE DEF w, h
<1> QED BY <1>3, <1>4, <1>5, <1>6, <1>7, <1>8, <1>9

\* The same after a step.
LEMMA SumsNext ==
  Types' => /\ BuffersConserved' <=> NumBuffers = free' + DeviceBuffers' + MuxBuffers'
            /\ MuxBuffers' \in Nat /\ DeviceBuffers' \in Nat /\ free' \in Nat
<1> DEFINE P == /\ BuffersConserved <=> NumBuffers = free + DeviceBuffers + MuxBuffers
                /\ MuxBuffers \in Nat /\ DeviceBuffers \in Nat /\ free \in Nat
<1>1. Types => P
  BY Sums
<1> HIDE DEF P
<1>2. Types' => P'
  BY <1>1, PTL
<1> QED BY <1>2 DEF P

\* What the device takes from the pool it holds, and the other way round.
LEMMA DeviceBalance ==
  ASSUME Types, Device PROVE free' + DeviceBuffers' = free + DeviceBuffers
<1> DEFINE l == IF lower = <<>> THEN 0 ELSE 1
           t == IF readThread \in {"consuming", "release"} THEN 1 ELSE 0
           m == Held(readMailbox)
<1>0. DeviceBuffers = 2 + l + m + t /\ DeviceBuffers' = 2 + l' + m' + t'
  BY DEF DeviceBuffers
<1>1. m \in 0 .. 1 /\ free \in Nat /\ m' \in 0 .. 1 /\ free' \in Nat
  BY DeviceTypes, Messages DEF Types
<1>2. ASSUME NEW n \in 1 .. MaxChunk, Receive(n) PROVE free' + l' + m' + t' = free + l + m + t
  <2>1. m' = m /\ t' = t
    BY <1>2 DEF Receive, Held
  <2>2. CASE free = 0
    BY <1>2, <2>1, <2>2 DEF Receive
  <2>3. CASE free # 0
    <3>1. lower' = SubSeq(wire, 1, n) /\ free' = free - (IF lower = <<>> THEN 1 ELSE 0)
      BY <1>2, <2>3 DEF Receive
    <3>2. n \in Nat /\ n >= 1 /\ n <= Len(wire) /\ wire \in Seq(Byte)
      BY <1>2, DeviceAssumption DEF Receive, Types
    <3>3. lower' # <<>>
      <4>1. Len(SubSeq(wire, 1, n)) = n
        BY <3>2, SubSeqProperties
      <4> QED BY <3>1, <3>2, <4>1
    <3> HIDE DEF m, t
    <3>4. l' = 1 /\ free' + l' = free + l
      BY <1>1, <3>1, <3>3
    <3> QED BY <1>1, <2>1, <3>4
  <2> QED BY <2>2, <2>3
<1>3. ASSUME Check PROVE free' + l' + m' + t' = free + l + m + t
  BY <1>3 DEF Check, Held
<1>4. ASSUME ReadChunk PROVE free' + l' + m' + t' = free + l + m + t
  <2>1. l = 1 /\ l' = 0 /\ t = 0 /\ t' = 1 /\ m' = m /\ free' = free
    BY <1>4 DEF ReadChunk, Held
  <2> HIDE DEF l, t, m
  <2> QED BY <1>1, <2>1
<1>5. ASSUME ReadTimesOut PROVE free' + l' + m' + t' = free + l + m + t
  BY <1>5 DEF ReadTimesOut, Held
<1>10. ASSUME ReadFails PROVE free' + l' + m' + t' = free + l + m + t
  <2>1. /\ free' = free + m + l /\ l' = 0 /\ t = 0 /\ t' = 0 /\ m' = 0
        /\ l \in 0 .. 1
    BY <1>10, Messages DEF ReadFails
  <2> HIDE DEF l, t, m
  <2> QED BY <1>1, <2>1
<1>6. ASSUME Consume PROVE free' + l' + m' + t' = free + l + m + t
  <2>1. l' = l /\ t = 1
    BY <1>6 DEF Consume
  <2>2. CASE d'.error # "none"
    <3>1. free' = free + 1 + m /\ m' = 0 /\ t' = 0
      BY <1>6, <2>2, Messages DEF Consume, reportError
    <3> HIDE DEF t, m
    <3> QED BY <1>1, <2>1, <3>1
  <2>3. CASE d'.error = "none" /\ d'.packet # <<>>
    <3>1. free' = free - 1 + m /\ m' = 1 /\ t' = 1
      BY <1>6, <2>3, Messages DEF Consume, packetFinished
    <3> HIDE DEF t, m
    <3> QED BY <1>1, <2>1, <3>1
  <2>4. CASE d'.error = "none" /\ d'.packet = <<>>
    <3>1. free' = free /\ m' = m /\ t' = 1
      BY <1>6, <2>4 DEF Consume, Held
    <3> HIDE DEF t, m
    <3> QED BY <1>1, <2>1, <3>1
  <2> QED BY <2>2, <2>3, <2>4
<1>7. ASSUME Release PROVE free' + l' + m' + t' = free + l + m + t
  <2>1. free' = free + 1 /\ l' = l /\ m' = m /\ t = 1 /\ t' = 0
    BY <1>7 DEF Release, Held
  <2> HIDE DEF t, m
  <2> QED BY <1>1, <2>1
<1>8. l \in 0 .. 1 /\ t \in 0 .. 1 /\ l' \in 0 .. 1 /\ t' \in 0 .. 1
  OBVIOUS
<1>9. free' + l' + m' + t' = free + l + m + t
  BY <1>2, <1>3, <1>4, <1>5, <1>6, <1>7, <1>10 DEF Device, ReadThread
<1> DEFINE l2 == l'
           t2 == t'
           m2 == m'
           f2 == free'
<1>11. /\ DeviceBuffers' = 2 + l2 + m2 + t2 /\ f2 + l2 + m2 + t2 = free + l + m + t
       /\ l2 \in 0 .. 1 /\ t2 \in 0 .. 1 /\ m2 \in 0 .. 1 /\ f2 \in Nat
  BY <1>0, <1>1, <1>8, <1>9
<1> HIDE DEF l, t, m, l2, t2, m2, f2
<1>12. f2 + DeviceBuffers' = free + DeviceBuffers
  <2>1. DeviceBuffers = 2 + l + m + t
    BY <1>0
  <2>2. /\ l \in Int /\ m \in Int /\ t \in Int /\ free \in Int
        /\ l2 \in Int /\ m2 \in Int /\ t2 \in Int /\ f2 \in Int
    BY <1>1, <1>8, <1>11
  <2>3. f2 + l2 + m2 + t2 = free + l + m + t
    BY <1>11
  <2>4. DeviceBuffers' = 2 + l2 + m2 + t2
    BY <1>11
  <2> QED BY <2>1, <2>2, <2>3, <2>4
<1> QED BY <1>12 DEF f2

\* A mailbox that takes a packet holds a buffer more unless it held one.
LEMMA MailboxFilled ==
  ASSUME Types, NEW c \in Channel, NEW m, Delivery(m), mailboxes' = [mailboxes EXCEPT ![c] = m]
  PROVE  /\ Cardinality(Waiting') + Held(mailboxes[c]) = Cardinality(Waiting) + Held(m)
         /\ Cardinality(Waiting') \in Nat
<1>1. mailboxes'[c] = m /\ \A a \in Channel : a # c => mailboxes'[a] = mailboxes[a]
  BY DEF Types
<1>2. Cardinality(Waiting) \in Nat /\ IsFiniteSet(Waiting)
  BY Sums
<1>3. m.ok \in BOOLEAN /\ mailboxes[c].ok \in BOOLEAN
  BY DEF Types, Delivery, Message
<1>4. CASE m.ok
  <2>1. Waiting' = Waiting \union {c}
    BY <1>1, <1>4 DEF Waiting
  <2>2. Cardinality(Waiting') = IF c \in Waiting THEN Cardinality(Waiting) ELSE Cardinality(Waiting) + 1
    BY <1>2, <2>1, FS_AddElement
  <2>3. c \in Waiting <=> mailboxes[c].ok
    BY DEF Waiting
  <2> QED BY <1>2, <1>4, <2>2, <2>3 DEF Held
<1>5. CASE ~m.ok
  <2>1. Waiting' = Waiting \ {c}
    BY <1>1, <1>5 DEF Waiting
  <2>2. Cardinality(Waiting') = IF c \in Waiting THEN Cardinality(Waiting) - 1 ELSE Cardinality(Waiting)
    BY <1>2, <2>1, FS_RemoveElement
  <2>3. c \in Waiting <=> mailboxes[c].ok
    BY DEF Waiting
  <2>4. Cardinality(Waiting') \in Nat
    BY <1>2, <2>1, FS_RemoveElement, FS_CardinalityType
  <2> QED BY <1>2, <1>5, <2>2, <2>3, <2>4 DEF Held
<1> QED BY <1>4, <1>5

\* A step of the multiplexer's read thread moves buffers, too.
LEMMA MuxBalance ==
  ASSUME Types, MuxThread
  PROVE  free' + DeviceBuffers' + MuxBuffers' = free + DeviceBuffers + MuxBuffers
<1>0. /\ MuxBuffers = Held(hand) + Cardinality(holds) + Cardinality(Waiting)
      /\ MuxBuffers' = Held(hand') + Cardinality(holds') + Cardinality(Waiting')
      /\ Cardinality(holds) \in Nat /\ Cardinality(Waiting) \in Nat
      /\ Held(hand) \in 0 .. 1 /\ Held(readMailbox) \in 0 .. 1 /\ free \in Nat
      /\ DeviceBuffers \in Nat /\ MuxBuffers \in Nat
  BY Sums DEF MuxBuffers, Held
<1>1. CASE MuxCheck \/ MuxTimesOut
  BY <1>1 DEF MuxCheck, MuxTimesOut, MuxBuffers, DeviceBuffers, Held, Waiting, deviceVars
<1>2. CASE MuxRead
  <2> DEFINE r == 2 + (IF lower = <<>> THEN 0 ELSE 1)
             t == IF readThread \in {"consuming", "release"} THEN 1 ELSE 0
  <2>1. hand = None /\ hand' = readMailbox /\ readMailbox' = None
    BY <1>2 DEF MuxRead, read, Types
  <2>2. UNCHANGED <<lower, readThread, free, holds, mailboxes>>
    BY <1>2 DEF MuxRead
  <2>3. Waiting' = Waiting
    BY <2>2 DEF Waiting
  <2>4. DeviceBuffers = r + Held(readMailbox) + t /\ DeviceBuffers' = r + Held(readMailbox') + t
    BY <2>2 DEF DeviceBuffers
  <2>5. Held(hand) = 0 /\ Held(readMailbox') = 0 /\ Held(hand') = Held(readMailbox)
    BY <2>1, Messages
  <2>6. r \in Nat /\ t \in Nat
    OBVIOUS
  <2> HIDE DEF r, t
  <2> QED BY <1>0, <2>2, <2>3, <2>4, <2>5, <2>6
<1>3. ASSUME Deliver \/ Refuse PROVE DeviceBuffers' = DeviceBuffers /\ holds' = holds
  BY <1>3 DEF Deliver, Refuse, DeviceBuffers, Held
<1>4. CASE Deliver
  <2> DEFINE c == Head(hand.packet)
             m == Packet(payload(hand.packet))
  <2>1. c \in Channel /\ hand.ok
    BY <1>4 DEF Deliver, Accepted
  <2>2. /\ mailboxes' = [mailboxes EXCEPT ![c] = m]
        /\ free' = free + Held(mailboxes[c])
        /\ hand' = None
    BY <1>4 DEF Deliver
  <2>3. Delivery(m) /\ Held(m) = 1 /\ Held(hand') = 0 /\ Held(mailboxes[c]) \in 0 .. 1
    BY <2>1, <2>2, Messages DEF Types, Delivery
  <2>4. Held(hand) = 1
    BY <2>1 DEF Held
  <2> HIDE DEF c, m
  <2>5. Cardinality(Waiting') + Held(mailboxes[c]) = Cardinality(Waiting) + 1
        /\ Cardinality(Waiting') \in Nat
    BY <2>1, <2>2, <2>3, MailboxFilled
  <2> QED BY <1>0, <1>3, <1>4, <2>2, <2>3, <2>4, <2>5
<1>5. CASE Refuse
  <2>1. free' = free + Held(hand) /\ hand' = None /\ mailboxes' = mailboxes
    BY <1>5 DEF Refuse
  <2>2. Waiting' = Waiting /\ Held(hand') = 0
    BY <2>1, Messages DEF Waiting
  <2> QED BY <1>0, <1>3, <1>5, <2>1, <2>2
<1> QED BY <1>1, <1>2, <1>4, <1>5 DEF MuxThread

\* No step changes the sum.
LEMMA StepBalance ==
  ASSUME Types, [Next]_vars
  PROVE  free' + DeviceBuffers' + MuxBuffers' = free + DeviceBuffers + MuxBuffers
<1>0. /\ MuxBuffers = Held(hand) + Cardinality(holds) + Cardinality(Waiting)
      /\ MuxBuffers' = Held(hand') + Cardinality(holds') + Cardinality(Waiting')
      /\ Cardinality(holds) \in Nat /\ Cardinality(Waiting) \in Nat
      /\ Held(hand) \in 0 .. 1 /\ free \in Nat
      /\ DeviceBuffers \in Nat /\ MuxBuffers \in Nat /\ IsFiniteSet(holds)
  BY Sums DEF MuxBuffers, Held
<1>1. ASSUME UNCHANGED <<mailboxes, hand, holds>> PROVE MuxBuffers' = MuxBuffers
  BY <1>1 DEF MuxBuffers, Held, Waiting
<1>2. ASSUME UNCHANGED <<lower, readMailbox, readThread>> PROVE DeviceBuffers' = DeviceBuffers
  BY <1>2 DEF DeviceBuffers, Held
<1>3. CASE UNCHANGED vars
  BY <1>1, <1>2, <1>3 DEF vars, deviceVars, muxVars
<1>4. CASE \E c \in 0 .. PeerChannels - 1, p \in Payload : Write(c, p)
  BY <1>1, <1>2, <1>4 DEF Write, muxVars
<1>5. CASE Device
  <2>1. MuxBuffers' = MuxBuffers
    BY <1>1, <1>5 DEF Device, muxVars
  <2>2. free' + DeviceBuffers' = free + DeviceBuffers
    BY <1>5, DeviceBalance
  <2> QED BY <2>1, <2>2
<1>6. CASE MuxThread
  BY <1>6, MuxBalance
<1>7. ASSUME NEW c \in Channel, Read(c)
      PROVE  free' + DeviceBuffers' + MuxBuffers' = free + DeviceBuffers + MuxBuffers
  <2>1. /\ mailboxes' = [mailboxes EXCEPT ![c] = None] /\ holds' = holds \union {c}
        /\ mailboxes[c] # None /\ c \notin holds /\ hand' = hand
        /\ UNCHANGED deviceVars
    BY <1>7 DEF Read
  <2>2. Cardinality(Waiting') + Held(mailboxes[c]) = Cardinality(Waiting) + Held(None)
        /\ Cardinality(Waiting') \in Nat
    BY <2>1, Messages, MailboxFilled
  <2>3. Held(mailboxes[c]) = 1 /\ Held(None) = 0
    BY <2>1, Messages DEF Types, Delivery, Held
  <2>4. Cardinality(holds') = Cardinality(holds) + 1
    BY <1>0, <2>1, FS_AddElement
  <2>5. DeviceBuffers' = DeviceBuffers /\ free' = free
    BY <1>2, <2>1 DEF deviceVars
  <2> QED BY <1>0, <2>1, <2>2, <2>3, <2>4, <2>5
<1>8. ASSUME NEW c \in Channel, Drop(c)
      PROVE  free' + DeviceBuffers' + MuxBuffers' = free + DeviceBuffers + MuxBuffers
  <2>1. c \in holds /\ holds' = holds \ {c} /\ free' = free + 1 /\ hand' = hand
        /\ mailboxes' = mailboxes
    BY <1>8 DEF Drop
  <2>2. Cardinality(holds') = Cardinality(holds) - 1
    BY <1>0, <2>1, FS_RemoveElement
  <2>3. Waiting' = Waiting
    BY <2>1 DEF Waiting
  <2>4. DeviceBuffers' = DeviceBuffers
    BY <1>2, <1>8 DEF Drop
  <2> QED BY <1>0, <2>1, <2>2, <2>3, <2>4
<1>9. CASE DestroyMux
  BY <1>1, <1>2, <1>9 DEF DestroyMux, deviceVars
<1>10. CASE DestroyDevice
  BY <1>1, <1>2, <1>10 DEF DestroyDevice, muxVars
<1> QED BY <1>3, <1>4, <1>5, <1>6, <1>7, <1>8, <1>9, <1>10 DEF Next

(* For any number of buffers, channels and packets, and however the bytes  *)
(* are cut into chunks: every buffer is in the pool or in exactly one hand *)
(* (packet_device_impl_base.h:108-153, multiplexer_impl_base.h:142-182).   *)
THEOREM BuffersKept == Spec => []BuffersConserved
<1> DEFINE Inv == Types /\ BuffersConserved
<1>1. Init => Inv
  <2> SUFFICES ASSUME Init PROVE BuffersConserved
    BY InitTypes
  <2>1. hand = None /\ holds = {} /\ readMailbox = None /\ lower = <<>> /\ readThread = "check"
        /\ free = NumBuffers - 2 /\ mailboxes = [c \in Channel |-> None]
    BY DEF Init, DeviceInit
  <2>2. Waiting = {} /\ Held(hand) = 0 /\ Held(readMailbox) = 0
    BY <2>1, Messages DEF Waiting
  <2>3. MuxBuffers = 0
    BY <2>1, <2>2, FS_EmptySet DEF MuxBuffers
  <2>4. DeviceBuffers = 2
    BY <2>1, <2>2 DEF DeviceBuffers
  <2> QED BY <2>1, <2>3, <2>4, DeviceAssumption, InitTypes, Sums
<1>2. Inv /\ [Next]_vars => Inv'
  <2> SUFFICES ASSUME Inv, [Next]_vars PROVE Inv'
    OBVIOUS
  <2>1. Types'
    BY StepTypes
  <2>2. NumBuffers = free + DeviceBuffers + MuxBuffers
    BY Sums
  <2>3. NumBuffers = free' + DeviceBuffers' + MuxBuffers'
    BY <2>2, StepBalance
  <2> QED BY <2>1, <2>3, SumsNext
<1> QED BY <1>1, <1>2, PTL DEF Spec

-----------------------------------------------------------------------------
(* The decoder r after the bytes q of a frame. *)
At(r, q) ==
  /\ q = <<>> => r.state \in {"start", "delimiter"} /\ r.out = <<>>
  /\ Len(q) = 1 => r.state = "start" /\ r.out = <<>>
  /\ Len(q) > 1 => Follows(r, unstuffLoop(Tail(q)), TRUE)

\* The parts of a frame.
LEMMA FrameBytes ==
  ASSUME NEW p \in Seq(Byte), p # <<>>
  PROVE  LET f == stuffAndDelim(p)
             e == stuff(p)
         IN  /\ f \in Seq(Byte) /\ e \in Seq(Byte) /\ Len(f) = Len(e) + 2 /\ Len(e) \in Nat
             /\ f[1] = 0 /\ f[Len(f)] = 0
             /\ \A i \in 1 .. Len(e) : f[i + 1] = e[i] /\ e[i] # 0
<1> DEFINE e == stuff(p)
           g == <<0>> \o e
           f == g \o <<0>>
<1>1. 0 \in Byte
  BY KAssumption DEF Byte
<1>2. e \in Seq(Byte) /\ \A i \in DOMAIN e : e[i] # 0
  BY StuffUnstuffs
<1> HIDE DEF e
<1>3. <<0>> \in Seq(Byte) /\ Len(<<0>>) = 1 /\ <<0>>[1] = 0
  BY <1>1
<1>4. /\ g \in Seq(Byte) /\ Len(g) = 1 + Len(e)
      /\ \A i \in 1 .. 1 + Len(e) : g[i] = IF i <= 1 THEN 0 ELSE e[i - 1]
  <2>1. /\ g \in Seq(Byte) /\ Len(g) = Len(<<0>>) + Len(e)
        /\ \A i \in 1 .. Len(<<0>>) + Len(e) :
             g[i] = IF i <= Len(<<0>>) THEN <<0>>[i] ELSE e[i - Len(<<0>>)]
    BY <1>2, <1>3, ConcatProperties
  <2>2. Len(e) \in Nat
    BY <1>2
  <2>3. ASSUME NEW i \in 1 .. 1 + Len(e) PROVE g[i] = IF i <= 1 THEN 0 ELSE e[i - 1]
    <3>1. i \in 1 .. Len(<<0>>) + Len(e)
      BY <1>3, <2>2
    <3>2. g[i] = IF i <= 1 THEN <<0>>[i] ELSE e[i - 1]
      BY <1>3, <2>1, <3>1
    <3>3. i <= 1 => i = 1
      BY <2>2
    <3> HIDE DEF g
    <3> QED BY <1>3, <3>2, <3>3
  <2> HIDE DEF g
  <2> QED BY <1>3, <2>1, <2>3
<1> HIDE DEF g
<1>5. /\ f \in Seq(Byte) /\ Len(f) = Len(g) + 1
      /\ \A i \in 1 .. Len(g) : f[i] = g[i]
      /\ f[Len(g) + 1] = 0
  <2>1. f = Append(g, 0)
    BY <1>1, <1>4, AppendIsConcat
  <2> HIDE DEF f
  <2> QED BY <1>1, <1>4, <2>1, AppendProperties
<1>6. f = stuffAndDelim(p)
  BY DEF f, g, e, stuffAndDelim
<1> HIDE DEF f
<1>7. Len(e) \in Nat /\ Len(f) = Len(e) + 2
  BY <1>2, <1>4, <1>5
<1>8. f[1] = 0 /\ f[Len(f)] = 0
  <2>1. 1 \in 1 .. 1 + Len(e)
    BY <1>7
  <2> QED BY <1>4, <1>5, <2>1
<1>9. ASSUME NEW i \in 1 .. Len(e) PROVE f[i + 1] = e[i] /\ e[i] # 0
  <2>1. i + 1 \in 1 .. 1 + Len(e) /\ ~(i + 1 <= 1) /\ (i + 1) - 1 = i
    BY <1>7
  <2>2. i \in DOMAIN e
    BY <1>2
  <2> QED BY <1>2, <1>4, <1>5, <2>1, <2>2
<1> QED BY <1>2, <1>5, <1>6, <1>7, <1>8, <1>9 DEF e

\* The zero before a frame.
LEMMA FirstZero ==
  ASSUME NEW r, WellFormed(r), At(r, <<>>), NEW ok \in BOOLEAN
  PROVE  /\ consume(r, 0, ok).error = "none" /\ consume(r, 0, ok).packet = <<>>
         /\ At(consume(r, 0, ok), <<0>>)
<1> DEFINE s == Reset(r)
           t == consume(r, 0, ok)
<1>1. /\ WellFormed(s) /\ s.error = "none" /\ s.packet = <<>>
      /\ s.state = r.state /\ s.out = r.out
      /\ t = CASE r.state = "delimiter" -> delimiter(s, 0)
               [] r.state = "start" -> start(s, 0)
               [] r.state = "block" -> block(s, 0)
               [] r.state = "nextBlock" -> nextBlock(s, 0, ok)
  BY ConsumeResets
<1>2. r.state \in {"start", "delimiter"} /\ r.out = <<>>
  BY DEF At
<1> HIDE DEF s
<1>3. t.error = "none" /\ t.packet = <<>> /\ t.state = "start" /\ t.out = <<>>
  <2>1. CASE r.state = "delimiter"
    BY <1>1, <1>2, <2>1 DEF delimiter, transit, WellFormed, InBuffer, Decoder
  <2>2. CASE r.state = "start"
    <3>1. t = s
      BY <1>1, <2>2 DEF start
    <3> QED BY <1>1, <1>2, <2>2, <3>1
  <2> QED BY <1>2, <2>1, <2>2
<1> HIDE DEF t
<1>4. <<0>> # <<>> /\ Len(<<0>>) = 1
  OBVIOUS
<1>5. At(t, <<0>>)
  BY <1>3, <1>4 DEF At
<1> QED BY <1>3, <1>5 DEF t

\* What the decoder has in its buffer is at most a byte more than what it
\* has read of the frame.
LEMMA BufferBound ==
  ASSUME NEW r, WellFormed(r), NEW e \in Seq(Byte), e # <<>>, Follows(r, unstuffLoop(e), TRUE)
  PROVE  Len(r.out) <= Len(e) + 1
<1> DEFINE u == unstuffLoop(e)
<1>1. u \in Unstuffing /\ Len(u.out) <= Len(e) /\ u.out \in Seq(Byte) /\ Len(e) \in Nat
  BY AllInputs DEF Unstuffing
<1>2. r.state \in State /\ r.state # "start" /\ r.state # "delimiter"
  BY DEF Follows, WellFormed, InBuffer, Decoder
<1>3. EndsWith(r.out, u.out, TRUE) \/ EndsWith(r.out, Ended(u), TRUE)
  BY <1>2 DEF Follows, InBlock, AfterBlock, State
<1>4. Ended(u) \in Seq(Byte) /\ Len(Ended(u)) <= Len(u.out) + 1 /\ Len(u.out) \in Nat
  <2>1. 0 \in Byte
    BY KAssumption DEF Byte
  <2> HIDE DEF u
  <2>2. Append(u.out, 0) \in Seq(Byte) /\ Len(Append(u.out, 0)) = Len(u.out) + 1
    BY <1>1, <2>1, AppendProperties
  <2> QED BY <1>1, <2>2 DEF Ended
<1> HIDE DEF u
<1>5. r.out = u.out \/ r.out = Ended(u)
  BY <1>1, <1>3, <1>4, ConcatEmptySeq DEF EndsWith
<1>6. Len(Ended(u)) \in Nat
  BY <1>4
<1> QED BY <1>1, <1>4, <1>5, <1>6

\* A byte between the zeros of a frame.
LEMMA InnerByte ==
  ASSUME NEW r, WellFormed(r), NEW p \in Seq(Byte), p # <<>>, CanWrite(p),
         NEW q \in Seq(Byte), q # <<>>, At(r, q), Len(q) <= Len(stuff(p)),
         NEW b \in Byte, b # 0, NEW ok \in BOOLEAN
  PROVE  /\ consume(r, b, ok).error = "none" /\ consume(r, b, ok).packet = <<>>
         /\ At(consume(r, b, ok), Append(q, b))
<1> DEFINE e == Tail(q)
           t == consume(r, b, ok)
<1>1. e \in Seq(Byte) /\ Len(q) = Len(e) + 1 /\ Len(e) \in Nat
  <2>1. e \in Seq(Byte) /\ Len(e) = Len(q) - 1 /\ Len(q) \in Nat
    BY HeadTailProperties
  <2> HIDE DEF e
  <2> QED BY <2>1
<1>2. Tail(Append(q, b)) = Append(e, b) /\ Len(Append(q, b)) = Len(q) + 1
  BY HeadTailAppend, AppendProperties
<1> HIDE DEF e
<1>3. e = <<>> <=> Len(e) = 0
  BY <1>1, EmptySeq
<1>4. /\ e = <<>> => r.state = "start" /\ r.out = <<>>
      /\ e # <<>> => Follows(r, unstuffLoop(e), TRUE)
  <2>1. e = <<>> => Len(q) = 1
    BY <1>1, <1>3
  <2>2. e # <<>> => Len(q) > 1
    BY <1>1, <1>3
  <2> QED BY <2>1, <2>2 DEF At, e
<1>5. Len(r.out) <= Len(e) + 1 /\ Len(r.out) \in Nat
  <2>1. r.out \in Seq(Byte)
    BY DEF WellFormed, InBuffer, Decoder
  <2>2. CASE e = <<>>
    BY <1>1, <1>4, <2>2
  <2>3. CASE e # <<>>
    <3>1. Len(r.out) <= Len(e) + 1
      BY <1>1, <1>4, <2>3, BufferBound
    <3> QED BY <2>1, <3>1
  <2> QED BY <2>1, <2>2, <2>3
<1>6. Len(r.out) + 2 <= maxSize
  <2>1. Len(stuff(p)) <= maxStuffedSize(Len(p)) /\ stuff(p) \in Seq(Byte)
    BY StuffUnstuffs
  <2>2. maxStuffedSize(Len(p)) + 2 <= maxSize
    BY DEF CanWrite, maxStuffedAndDelimitedSize
  <2>3. maxStuffedSize(Len(p)) \in Int
    <3>1. Len(p) \in Nat /\ K - 1 \in Nat \ {0}
      BY KAssumption
    <3>2. \A n \in Nat, k \in Nat \ {0} : n \div k \in Int
      OBVIOUS
    <3> DEFINE l == Len(p)
               v == l \div (K - 1)
    <3>3. v \in Int
      BY <3>1, <3>2, Zenon
    <3>4. maxStuffedSize(l) = l + 1 + v
      BY DEF maxStuffedSize
    <3> HIDE DEF v
    <3> QED BY <3>1, <3>3, <3>4
  <2>4. Len(stuff(p)) \in Nat
    BY <2>1
  <2> QED BY <1>1, <1>5, <2>1, <2>2, <2>3, <2>4, SizeAssumption
<1>7. t.error = "none" /\ t.packet = <<>>
  BY <1>6, RoomForByte
<1>8. Follows(t, unstuffByte(unstuffLoop(e), b), TRUE)
  <2>1. unstuffLoop(e) \in Unstuffing
    BY <1>1, AllInputs
  <2>2. /\ r.state # "delimiter"
        /\ r.state = "start" => e = <<>> /\ r.out = <<>>
        /\ e = <<>> => r.state \in {"start", "delimiter"}
    BY <1>4 DEF Follows
  <2>3. consume(r, b, ok).error # "PacketTooBig"
    BY <1>7
  <2> HIDE DEF t
  <2> QED BY <1>1, <1>4, <2>1, <2>2, <2>3, ByteFollows DEF t
<1>9. unstuffLoop(Append(e, b)) = unstuffByte(unstuffLoop(e), b)
  BY <1>1, FrameGrows
<1> HIDE DEF t
<1>10. At(t, Append(q, b))
  <2>1. Append(q, b) # <<>> /\ Len(Append(q, b)) > 1
    <3>1. Append(q, b) # <<>>
      BY AppendProperties
    <3>2. Len(q) \in Nat \ {0}
      BY EmptySeq
    <3> QED BY <1>2, <3>1, <3>2
  <2>2. Len(Append(q, b)) # 1
    BY <1>1, <1>2
  <2> QED BY <1>2, <1>8, <1>9, <2>1, <2>2 DEF At
<1> QED BY <1>7, <1>10 DEF t

\* The zero after a frame.
LEMMA LastZero ==
  ASSUME NEW r, WellFormed(r), NEW p \in Seq(Byte), p # <<>>,
         NEW q \in Seq(Byte), q # <<>>, At(r, q), Tail(q) = stuff(p), NEW ok \in BOOLEAN
  PROVE  /\ consume(r, 0, ok).packet = p
         /\ consume(r, 0, ok).error = IF ok THEN "none" ELSE "callback"
         /\ ok => At(consume(r, 0, ok), <<>>)
<1> DEFINE e == stuff(p)
           u == unstuffLoop(e)
           t == consume(r, 0, ok)
<1>1. e \in Seq(Byte) /\ unstuff(e) = p
  BY StuffUnstuffs
<1>2. u \in Unstuffing
  BY <1>1, AllInputs
<1>3. u.left = 0 /\ u.out = p
  BY <1>1, <1>2 DEF unstuff, Unstuffing
<1>4. e # <<>>
  <2> SUFFICES ASSUME e = <<>> PROVE FALSE
    OBVIOUS
  <2>1. u.out = <<>>
    BY FrameGrows DEF First
  <2> QED BY <1>3, <2>1
<1>5. Len(q) > 1
  <2>1. Len(Tail(q)) = Len(q) - 1 /\ Len(q) \in Nat
    BY HeadTailProperties
  <2>2. Len(e) \in Nat \ {0}
    BY <1>1, <1>4, EmptySeq
  <2> HIDE DEF e
  <2> QED BY <2>1, <2>2 DEF e
<1>6. Follows(r, u, TRUE)
  BY <1>5 DEF At
<1> HIDE DEF u
<1>7. r.state = "nextBlock" /\ AfterBlock(r, u, TRUE)
  <2>1. r.state \in State /\ (r.state = "block" => r.left > 0)
    BY DEF WellFormed, InBuffer, Decoder
  <2>2. r.state = "block" => u.left = r.left
    BY <1>6 DEF Follows, InBlock
  <2>3. r.state # "block"
    BY <1>3, <2>1, <2>2
  <2> QED BY <1>6, <2>1, <2>3 DEF Follows, State
<1>8. /\ t.packet = u.out /\ t.error = IF ok THEN "none" ELSE "callback"
      /\ ok => t.state = "start" /\ t.out = <<>>
  BY <1>2, <1>3, <1>7, PacketHandedOut
<1> HIDE DEF t
<1>9. Len(<<>>) = 0
  OBVIOUS
<1>10. ok => At(t, <<>>)
  BY <1>8, <1>9 DEF At
<1> QED BY <1>3, <1>8, <1>10 DEF t

\* A byte of a frame: the decoder goes on to the next place in it, and with
\* the last byte it hands out the packet or misses a buffer.
LEMMA FrameByte ==
  ASSUME NEW r, WellFormed(r), NEW p \in Seq(Byte), p # <<>>, CanWrite(p),
         NEW q \in Seq(Byte), At(r, q), NEW f \in Seq(Byte), f = stuffAndDelim(p), NEW b \in Byte,
         Len(q) < Len(f), \A k \in 1 .. Len(q) : q[k] = f[k], b = f[Len(q) + 1], NEW ok \in BOOLEAN
  PROVE  /\ Len(q) + 1 < Len(f) => /\ consume(r, b, ok).error = "none"
                                   /\ consume(r, b, ok).packet = <<>>
                                   /\ At(consume(r, b, ok), Append(q, b))
         /\ Len(q) + 1 = Len(f) => /\ consume(r, b, ok).packet = p
                                   /\ consume(r, b, ok).error = IF ok THEN "none" ELSE "callback"
                                   /\ ok => At(consume(r, b, ok), <<>>)
<1> DEFINE e == stuff(p)
           n == Len(q)
<1>1. /\ e \in Seq(Byte) /\ Len(f) = Len(e) + 2 /\ Len(e) \in Nat
      /\ f[1] = 0 /\ f[Len(f)] = 0
      /\ \A i \in 1 .. Len(e) : f[i + 1] = e[i] /\ e[i] # 0
  BY FrameBytes
<1>2. n \in Nat /\ (q # <<>> <=> n # 0)
  BY EmptySeq
<1> HIDE DEF e
<1>3. CASE n = 0
  <2>1. q = <<>> /\ b = 0 /\ Append(q, b) = <<0>> /\ n + 1 < Len(f)
    BY <1>1, <1>2, <1>3
  <2> QED BY <1>1, <2>1, FirstZero
<1>4. CASE n \in 1 .. Len(e)
  <2>1. b # 0 /\ n + 1 < Len(f)
    BY <1>1, <1>2, <1>4
  <2>2. q # <<>> /\ Len(q) <= Len(stuff(p))
    BY <1>1, <1>2, <1>4 DEF e
  <2> HIDE DEF n
  <2>3. /\ consume(r, b, ok).error = "none"
        /\ consume(r, b, ok).packet = <<>>
        /\ At(consume(r, b, ok), Append(q, b))
    BY <2>1, <2>2, InnerByte
  <2> QED BY <1>1, <1>2, <2>1, <2>3 DEF n
<1>5. CASE n = Len(e) + 1
  <2>1. b = 0 /\ n + 1 = Len(f) /\ q # <<>>
    BY <1>1, <1>2, <1>5
  <2>2. Tail(q) = e
    <3>1. Tail(q) \in Seq(Byte) /\ Len(Tail(q)) = n - 1
          /\ \A i \in 1 .. Len(Tail(q)) : Tail(q)[i] = q[i + 1]
      BY <2>1, HeadTailProperties
    <3>2. Len(Tail(q)) = Len(e)
      BY <1>1, <1>5, <3>1
    <3>3. ASSUME NEW i \in 1 .. Len(e) PROVE Tail(q)[i] = e[i]
      <4>1. i + 1 \in 1 .. n /\ i \in 1 .. Len(Tail(q))
        BY <1>1, <1>5, <3>2
      <4> QED BY <1>1, <3>1, <4>1
    <3> HIDE DEF n
    <3> QED BY <1>1, <3>1, <3>2, <3>3, SeqEqual
  <2>3. /\ consume(r, b, ok).packet = p
        /\ consume(r, b, ok).error = IF ok THEN "none" ELSE "callback"
        /\ ok => At(consume(r, b, ok), <<>>)
    <3>1. Tail(q) = stuff(p)
      BY <2>2 DEF e
    <3> HIDE DEF e, n
    <3>2. /\ consume(r, 0, ok).packet = p
          /\ consume(r, 0, ok).error = IF ok THEN "none" ELSE "callback"
          /\ ok => At(consume(r, 0, ok), <<>>)
      BY <2>1, <3>1, LastZero, SMTT(30)
    <3> QED BY <2>1, <3>2
  <2>4. ~(n + 1 < Len(f))
    BY <1>1, <1>2, <2>1
  <2> HIDE DEF n
  <2> QED BY <2>3, <2>4 DEF n
<1> QED BY <1>1, <1>2, <1>3, <1>4, <1>5

-----------------------------------------------------------------------------
(* The frames of the packets in s after the first n. *)
Frame(x) == stuffAndDelim(Packed(x))
Frames(s, n) == [i \in 1 .. Len(s) - n |-> Frame(s[n + i])]

\* How they grow with a packet more, and shrink with the first of them.
LEMMA FramesMove ==
  ASSUME NEW s \in Seq(Writable), NEW n \in 0 .. Len(s)
  PROVE  /\ Frames(s, n) \in Seq(Seq(Byte)) /\ Len(Frames(s, n)) = Len(s) - n
         /\ \A x \in Writable : Frames(Append(s, x), n) = Append(Frames(s, n), Frame(x))
         /\ n < Len(s) => Frames(s, n)[1] = Frame(s[n + 1]) /\ Frames(s, n + 1) = Tail(Frames(s, n))
<1> DEFINE l == Len(s)
           f == Frames(s, n)
<1>1. l \in Nat /\ n \in Nat /\ l - n \in Nat
  OBVIOUS
<1>2. \A x \in Writable : Frame(x) \in Seq(Byte)
  BY PacketFrame DEF Writable, Frame
<1>3. \A i \in 1 .. l - n : Frame(s[n + i]) \in Seq(Byte)
  <2> SUFFICES ASSUME NEW i \in 1 .. l - n PROVE Frame(s[n + i]) \in Seq(Byte)
    OBVIOUS
  <2>1. n + i \in 1 .. Len(s)
    BY <1>1
  <2>2. s[n + i] \in Writable
    BY <2>1, ElementOfSeq
  <2> QED BY <1>2, <2>2
<1>4. f \in Seq(Seq(Byte)) /\ Len(f) = l - n /\ \A i \in 1 .. l - n : f[i] = Frame(s[n + i])
  <2>1. f = [i \in 1 .. l - n |-> Frame(s[n + i])]
    BY DEF Frames
  <2>2. f \in [1 .. l - n -> Seq(Byte)]
    BY <1>3, <2>1
  <2>3. DOMAIN f = 1 .. l - n
    BY <2>2
  <2>4. f \in Seq(Seq(Byte))
    BY <1>1, <2>2
  <2> HIDE DEF f, l
  <2>5. Len(f) = l - n
    <3>1. DOMAIN f = 1 .. Len(f) /\ Len(f) \in Nat
      BY <2>4, LenProperties
    <3>2. ASSUME NEW a \in Nat, NEW b \in Nat, 1 .. a = 1 .. b PROVE a = b
      <4>1. a # 0 => a \in 1 .. b
        BY <3>2
      <4>2. b # 0 => b \in 1 .. a
        BY <3>2
      <4> QED BY <4>1, <4>2
    <3> QED BY <1>1, <2>3, <3>1, <3>2
  <2> QED BY <2>1, <2>4, <2>5
<1> HIDE DEF f
<1>5. ASSUME NEW x \in Writable PROVE Frames(Append(s, x), n) = Append(f, Frame(x))
  <2> DEFINE t == Append(s, x)
             g == Append(f, Frame(x))
  <2>1. Len(t) = l + 1 /\ (\A i \in 1 .. l : t[i] = s[i]) /\ t[l + 1] = x
    BY AppendProperties
  <2>2. g \in Seq(Seq(Byte)) /\ Len(g) = l - n + 1
        /\ (\A i \in 1 .. l - n : g[i] = f[i]) /\ g[l - n + 1] = Frame(x)
    BY <1>2, <1>4, AppendProperties
  <2> HIDE DEF t, g
  <2>3. ASSUME NEW i \in 1 .. l - n + 1 PROVE Frame(t[n + i]) = g[i]
    <3>1. CASE i = l - n + 1
      <4>1. n + i = l + 1
        BY <1>1, <3>1
      <4> HIDE DEF l
      <4> QED BY <2>1, <2>2, <3>1, <4>1
    <3>2. CASE i \in 1 .. l - n
      <4>1. n + i \in 1 .. l
        BY <1>1, <3>2
      <4> HIDE DEF l
      <4> QED BY <1>4, <2>1, <2>2, <3>2, <4>1
    <3> QED BY <1>1, <3>1, <3>2
  <2>4. Len(t) - n = l - n + 1
    BY <1>1, <2>1
  <2>5. Frames(t, n) = [i \in 1 .. l - n + 1 |-> Frame(t[n + i])]
    BY <2>4, Zenon DEF Frames
  <2>6. DOMAIN g = 1 .. l - n + 1 /\ g = [i \in 1 .. l - n + 1 |-> g[i]]
    BY <2>2, LenProperties
  <2> HIDE DEF l
  <2>7. Frames(t, n) = g
    BY <2>3, <2>5, <2>6
  <2> QED BY <2>7 DEF t, g
<1>6. ASSUME n < l
      PROVE  f[1] = Frame(s[n + 1]) /\ Frames(s, n + 1) = Tail(f)
  <2> DEFINE g == Tail(f)
  <2>1. 1 \in 1 .. l - n /\ f # <<>>
    <3>1. Len(f) # 0
      BY <1>1, <1>4, <1>6
    <3> QED BY <1>1, <1>4, <1>6, <3>1, EmptySeq
  <2>2. g \in Seq(Seq(Byte)) /\ Len(g) = l - n - 1 /\ \A i \in 1 .. Len(g) : g[i] = f[i + 1]
    BY <1>4, <2>1, HeadTailProperties
  <2> HIDE DEF g
  <2>3. ASSUME NEW i \in 1 .. l - n - 1 PROVE Frame(s[n + 1 + i]) = g[i]
    <3>1. i + 1 \in 1 .. l - n /\ n + (i + 1) = n + 1 + i /\ i \in 1 .. Len(g)
      <4>1. l \in Nat /\ n \in Nat /\ i \in Nat /\ i >= 1 /\ i <= l - n - 1 /\ Len(g) = l - n - 1
        BY <1>1, <2>2
      <4> HIDE DEF l
      <4> QED BY <4>1
    <3>2. g[i] = f[i + 1] /\ f[i + 1] = Frame(s[n + (i + 1)])
      BY <1>4, <2>2, <3>1
    <3> QED BY <3>1, <3>2
  <2>4. l - (n + 1) = l - n - 1
    BY <1>1
  <2>5. Frames(s, n + 1) = [i \in 1 .. l - n - 1 |-> Frame(s[n + 1 + i])]
    BY <2>4, Zenon DEF Frames
  <2>6. DOMAIN g = 1 .. l - n - 1 /\ g = [i \in 1 .. l - n - 1 |-> g[i]]
    BY <2>2, LenProperties
  <2> HIDE DEF l
  <2>7. Frames(s, n + 1) = g
    BY <2>3, <2>5, <2>6
  <2> QED BY <1>4, <2>1, <2>7 DEF g
<1> QED BY <1>4, <1>5, <1>6 DEF f

-----------------------------------------------------------------------------
(* The bytes under way are the frames that are not decoded yet, but for q, *)
(* what the decoder has read of the first of them.                         *)
UnderWay(q, rest, f, r) ==
  /\ Joined(q \o rest, f) /\ At(r, q)
  /\ q # <<>> => f # <<>> /\ Len(q) < Len(f[1])

Stream == chunk \o (lower \o wire)

InStream ==
  ~lost =>
    /\ finished \in Seq(Seq(Byte)) /\ Len(finished) <= Len(sent)
    /\ \A i \in 1 .. Len(finished) : finished[i] = Packed(sent[i])
    /\ readMailbox.ok \/ readMailbox \in {None, Error("SerialDeviceReadError")}
    /\ \E q \in Seq(Byte) : UnderWay(q, Stream, Frames(sent, Len(finished)), d)

\* The first byte of a chunk moves to what is read.
LEMMA HeadMoves ==
  ASSUME NEW q \in Seq(Byte), NEW c \in Seq(Byte), c # <<>>, NEW s \in Seq(Byte)
  PROVE  /\ q \o (c \o s) = Append(q, Head(c)) \o (Tail(c) \o s)
         /\ Append(q, Head(c)) \in Seq(Byte) /\ Tail(c) \o s \in Seq(Byte)
         /\ Head(c) \in Byte /\ Tail(c) \in Seq(Byte)
<1> DEFINE h == Head(c)
           t == Tail(c)
           x == <<h>> \o t
<1>1. /\ h \in Byte /\ t \in Seq(Byte) /\ Len(c) = Len(t) + 1 /\ c[1] = h /\ Len(t) \in Nat
      /\ \A i \in 1 .. Len(t) : t[i] = c[i + 1]
  <2>1. /\ h \in Byte /\ t \in Seq(Byte) /\ Len(t) = Len(c) - 1 /\ c[1] = h /\ Len(c) \in Nat
        /\ \A i \in 1 .. Len(t) : t[i] = c[i + 1]
    BY HeadTailProperties
  <2> HIDE DEF t, h
  <2> QED BY <2>1
<1> HIDE DEF t, h
<1>2. c = x
  <2>1. <<h>> \in Seq(Byte) /\ Len(<<h>>) = 1 /\ <<h>>[1] = h
    BY <1>1
  <2>2. /\ x \in Seq(Byte) /\ Len(x) = Len(<<h>>) + Len(t)
        /\ \A i \in 1 .. Len(<<h>>) + Len(t) :
             x[i] = IF i <= Len(<<h>>) THEN <<h>>[i] ELSE t[i - Len(<<h>>)]
    BY <1>1, <2>1, ConcatProperties
  <2>3. Len(x) = Len(c)
    BY <1>1, <2>1, <2>2
  <2>4. ASSUME NEW i \in 1 .. Len(c) PROVE c[i] = x[i]
    <3>1. x[i] = IF i <= 1 THEN <<h>>[i] ELSE t[i - 1]
      BY <1>1, <2>1, <2>2
    <3>2. CASE i = 1
      BY <1>1, <2>1, <3>1, <3>2
    <3>3. CASE i # 1
      <4>1. ~(i <= 1) /\ i - 1 \in 1 .. Len(t) /\ (i - 1) + 1 = i
        BY <1>1, <3>3
      <4> QED BY <1>1, <3>1, <4>1
    <3> QED BY <3>2, <3>3
  <2> HIDE DEF x
  <2> QED BY <2>2, <2>3, <2>4, SeqEqual
<1>3. <<h>> \in Seq(Byte) /\ t \o s \in Seq(Byte) /\ q \o <<h>> \in Seq(Byte)
  BY <1>1, ConcatProperties
<1>4. c \o s = <<h>> \o (t \o s)
  BY <1>1, <1>2, <1>3, ConcatAssociative
<1>5. Append(q, h) = q \o <<h>>
  BY <1>1, AppendIsConcat
<1>6. q \o (<<h>> \o (t \o s)) = (q \o <<h>>) \o (t \o s)
  BY <1>3, ConcatAssociative, SMTT(30)
<1> QED BY <1>1, <1>3, <1>4, <1>5, <1>6 DEF h, t

\* A byte is consumed.
LEMMA ConsumeInStream ==
  ASSUME Types, InStream, Consume, sent' = sent
  PROVE  InStream'
<1> SUFFICES ASSUME ~lost'
             PROVE  /\ finished' \in Seq(Seq(Byte)) /\ Len(finished') <= Len(sent)
                    /\ \A i \in 1 .. Len(finished') : finished'[i] = Packed(sent[i])
                    /\ readMailbox'.ok \/ readMailbox' \in {None, Error("SerialDeviceReadError")}
                    /\ \E q \in Seq(Byte) :
                         UnderWay(q, Stream', Frames(sent, Len(finished')), d')
  BY DEF InStream
<1> DEFINE b == Head(chunk)
           n == Len(finished)
           fs == Frames(sent, n)
           s == lower \o wire
           rest == Tail(chunk) \o s
<1>0. PICK ok \in BOOLEAN : d' = consume(d, b, ok)
  <2>1. (free > 0) \in BOOLEAN
    OBVIOUS
  <2>2. d' = consume(d, b, free > 0)
    BY DEF Consume
  <2> QED BY <2>1, <2>2, Zenon
<1>1. /\ chunk # <<>> /\ b \in Byte /\ d' = consume(d, b, ok) /\ WellFormed(d)
      /\ chunk \in Seq(Byte) /\ lower \in Seq(Byte) /\ wire \in Seq(Byte) /\ sent \in Seq(Writable)
  BY <1>0, ConsumeCall DEF Types
<1>2. s \in Seq(Byte)
  BY <1>1, ConcatProperties
<1>3. lost = FALSE /\ d'.error # "callback"
  BY DEF Consume, Types
<1>4. /\ finished \in Seq(Seq(Byte)) /\ n <= Len(sent)
      /\ \A i \in 1 .. n : finished[i] = Packed(sent[i])
      /\ readMailbox.ok \/ readMailbox \in {None, Error("SerialDeviceReadError")}
  BY <1>3 DEF InStream
<1>5. PICK q \in Seq(Byte) : UnderWay(q, Stream, fs, d)
  BY <1>3 DEF InStream
<1> DEFINE t == Append(q, b)
<1>6. n \in 0 .. Len(sent) /\ n \in Nat /\ Len(sent) \in Nat
  BY <1>1, <1>4
<1>7. /\ Stream = chunk \o s /\ q \o Stream = t \o rest
      /\ t \in Seq(Byte) /\ rest \in Seq(Byte)
  BY <1>1, <1>2, HeadMoves DEF Stream
<1>8. /\ Len(t) = Len(q) + 1 /\ (\A k \in 1 .. Len(q) : t[k] = q[k]) /\ t[Len(q) + 1] = b
      /\ Len(q) \in Nat
  BY <1>1, AppendProperties
<1>9. fs \in Seq(Seq(Byte)) /\ Len(fs) = Len(sent) - n
  BY <1>1, <1>6, FramesMove
<1> HIDE DEF b, n, s, rest, t, fs
<1>10. Joined(t \o rest, fs) /\ At(d, q) /\ (q # <<>> => Len(q) < Len(fs[1]))
  BY <1>5, <1>7 DEF UnderWay
<1>11. /\ t \o rest \in Seq(Byte) /\ Len(t \o rest) = Len(t) + Len(rest)
       /\ \A i \in 1 .. Len(t) : (t \o rest)[i] = t[i]
  <2>1. /\ t \o rest \in Seq(Byte) /\ Len(t \o rest) = Len(t) + Len(rest)
        /\ \A i \in 1 .. Len(t) + Len(rest) : (t \o rest)[i] = IF i <= Len(t) THEN t[i] ELSE rest[i - Len(t)]
    BY <1>7, ConcatProperties
  <2>2. Len(t) \in Nat /\ Len(rest) \in Nat
    BY <1>7
  <2> QED BY <2>1, <2>2
<1>12. t \o rest # <<>>
  <2>1. Len(rest) \in Nat
    BY <1>7
  <2>2. Len(t \o rest) # 0
    BY <1>8, <1>11, <2>1
  <2> QED BY <1>11, <2>2, EmptySeq
<1>13. fs # <<>> /\ fs[1] \in Seq(Byte) /\ \A k \in 1 .. Len(fs[1]) : (t \o rest)[k] = fs[1][k]
  BY <1>9, <1>10, <1>11, <1>12, JoinedFirst
<1>14. n < Len(sent) /\ n + 1 \in 1 .. Len(sent)
  <2>1. Len(fs) # 0
    BY <1>9, <1>13, EmptySeq
  <2> QED BY <1>6, <1>9, <2>1
<1> DEFINE p == Packed(sent[n + 1])
           f == fs[1]
<1>15. f = stuffAndDelim(p) /\ Frames(sent, n + 1) = Tail(fs)
  BY <1>1, <1>6, <1>14, FramesMove DEF fs, Frame
<1>16. p \in Seq(Byte) /\ p # <<>> /\ CanWrite(p)
  <2>1. sent[n + 1] \in Writable
    BY <1>1, <1>14, ElementOfSeq
  <2> QED BY <2>1, PacketFrame DEF Writable
<1> HIDE DEF p
<1>17. Len(f) >= 2 /\ Len(f) \in Nat
  <2>1. Len(f) = Len(stuff(p)) + 2 /\ Len(stuff(p)) \in Nat
    BY <1>15, <1>16, FrameBytes
  <2> HIDE DEF f
  <2> QED BY <2>1
<1>18. f \in Seq(Byte) /\ \A k \in 1 .. Len(f) : (t \o rest)[k] = f[k]
  BY <1>13
<1>19. Len(q) < Len(f)
  <2>1. q = <<>> => Len(q) = 0
    OBVIOUS
  <2> QED BY <1>10, <1>17, <2>1
<1> HIDE DEF f
<1>20. (\A k \in 1 .. Len(q) : q[k] = f[k]) /\ b = f[Len(q) + 1]
  <2>1. ASSUME NEW k \in 1 .. Len(q) PROVE q[k] = f[k]
    <3>1. k \in 1 .. Len(f) /\ k \in 1 .. Len(t)
      BY <1>8, <1>17, <1>19
    <3> QED BY <1>8, <1>11, <1>18, <3>1
  <2>2. Len(q) + 1 \in 1 .. Len(f) /\ Len(q) + 1 \in 1 .. Len(t)
    BY <1>8, <1>17, <1>19
  <2> QED BY <1>8, <1>11, <1>18, <2>1, <2>2
<1>21. /\ Len(q) + 1 < Len(f) => d'.error = "none" /\ d'.packet = <<>> /\ At(d', t)
       /\ Len(q) + 1 = Len(f) => /\ d'.packet = p
                                 /\ d'.error = IF ok THEN "none" ELSE "callback"
                                 /\ ok => At(d', <<>>)
  <2> DEFINE c == consume(d, b, ok)
  <2>0. /\ WellFormed(d) /\ At(d, q) /\ p \in Seq(Byte) /\ p # <<>> /\ CanWrite(p)
        /\ f \in Seq(Byte) /\ f = stuffAndDelim(p) /\ b \in Byte
        /\ Len(q) < Len(f) /\ (\A k \in 1 .. Len(q) : q[k] = f[k]) /\ b = f[Len(q) + 1]
    BY <1>1, <1>10, <1>15, <1>16, <1>18, <1>19, <1>20
  <2>1. /\ Len(q) + 1 < Len(f) => c.error = "none" /\ c.packet = <<>> /\ At(c, Append(q, b))
        /\ Len(q) + 1 = Len(f) => /\ c.packet = p
                                  /\ c.error = IF ok THEN "none" ELSE "callback"
                                  /\ ok => At(c, <<>>)
    <3>1. ASSUME Len(q) + 1 < Len(f)
          PROVE  /\ consume(d, b, ok).error = "none" /\ consume(d, b, ok).packet = <<>>
                 /\ At(consume(d, b, ok), Append(q, b))
      BY <2>0, <3>1, FrameByte
    <3>2. ASSUME Len(q) + 1 = Len(f)
          PROVE  /\ consume(d, b, ok).packet = p
                 /\ consume(d, b, ok).error = IF ok THEN "none" ELSE "callback"
                 /\ ok => At(consume(d, b, ok), <<>>)
      BY <2>0, <3>2, FrameByte
    <3> QED BY <3>1, <3>2
  <2>2. d' = c
    BY <1>1
  <2> HIDE DEF c
  <2> QED BY <2>1, <2>2 DEF t
<1>22. CASE Len(q) + 1 < Len(f)
  <2>1. d'.error = "none" /\ d'.packet = <<>> /\ At(d', t)
    BY <1>21, <1>22
  <2>2. finished' = finished /\ readMailbox' = readMailbox /\ Stream' = rest
    BY <2>1 DEF Consume, Record, Stream, rest, s
  <2>3. Len(t) < Len(f)
    BY <1>8, <1>22
  <2>4. UnderWay(t, rest, fs, d')
    BY <1>10, <1>13, <2>1, <2>3 DEF UnderWay, f
  <2>5. Frames(sent, Len(finished')) = fs
    BY <2>2 DEF fs, n
  <2> QED BY <1>4, <1>7, <2>2, <2>4, <2>5 DEF n
<1>23. CASE Len(q) + 1 = Len(f)
  <2>1. ok /\ d'.packet = p /\ d'.error = "none" /\ At(d', <<>>)
    BY <1>1, <1>3, <1>21, <1>23
  <2>2. finished' = Append(finished, p) /\ readMailbox' = Packet(p) /\ Stream' = rest
    BY <1>16, <2>1 DEF Consume, packetFinished, Record, Stream, rest, s
  <2>3. /\ finished' \in Seq(Seq(Byte)) /\ Len(finished') = n + 1
        /\ \A i \in 1 .. n : finished'[i] = finished[i]
        /\ finished'[n + 1] = p
    BY <1>4, <1>16, <2>2, AppendProperties DEF n
  <2>4. \A i \in 1 .. n + 1 : finished'[i] = Packed(sent[i])
    <3> SUFFICES ASSUME NEW i \in 1 .. n + 1 PROVE finished'[i] = Packed(sent[i])
      OBVIOUS
    <3>1. CASE i = n + 1
      BY <2>3, <3>1 DEF p
    <3>2. CASE i \in 1 .. n
      BY <1>4, <2>3, <3>2
    <3> QED BY <1>6, <3>1, <3>2
  <2>5. Joined(rest, Tail(fs))
    <3>1. Len(t) = Len(fs[1])
      BY <1>8, <1>23 DEF f
    <3> QED BY <1>7, <1>9, <1>10, <1>13, <3>1, JoinedTail
  <2>6. <<>> \o rest = rest
    BY <1>7, ConcatEmptySeq
  <2>7. UnderWay(<<>>, rest, Tail(fs), d')
    BY <2>1, <2>5, <2>6 DEF UnderWay
  <2>8. Frames(sent, Len(finished')) = Tail(fs)
    BY <1>15, <2>3
  <2>9. Packet(p).ok
    BY Messages
  <2>10. <<>> \in Seq(Byte)
    OBVIOUS
  <2>11. \E r \in Seq(Byte) : UnderWay(r, Stream', Frames(sent, Len(finished')), d')
    BY <2>2, <2>7, <2>8, <2>10
  <2>12. Len(finished') <= Len(sent)
    BY <1>6, <1>14, <2>3
  <2> QED BY <2>2, <2>3, <2>4, <2>9, <2>11, <2>12
<1> QED BY <1>8, <1>17, <1>19, <1>22, <1>23

\* Bytes move from one place to the next.
LEMMA SameStream ==
  ASSUME InStream, UNCHANGED <<d, sent>>,
         ~lost' => /\ ~lost /\ Stream' = Stream /\ finished' = finished
                   /\ readMailbox' = readMailbox \/ readMailbox' \in {None, Error("SerialDeviceReadError")}
  PROVE  InStream'
  BY DEF InStream

\* The two parts of what is on the wire.
LEMMA WireParts ==
  ASSUME NEW s \in Seq(Byte), NEW n \in Nat \ {0}, n <= Len(s)
  PROVE  /\ SubSeq(s, 1, n) \in Seq(Byte) /\ SubSeq(s, n + 1, Len(s)) \in Seq(Byte)
         /\ SubSeq(s, 1, n) \o SubSeq(s, n + 1, Len(s)) = s
<1> DEFINE a == SubSeq(s, 1, n)
           b == SubSeq(s, n + 1, Len(s))
           l == Len(s)
<1>3. l \in Nat /\ \A i \in 1 .. l : s[i] \in Byte
  BY ElementOfSeq
<1>4. a \in Seq(Byte) /\ Len(a) = n /\ \A i \in 1 .. n : a[i] = s[i]
  <2>1. \A i \in 1 .. n : s[i] \in Byte
    BY <1>3
  <2>2. /\ a \in Seq(Byte) /\ Len(a) = IF 1 <= n THEN n - 1 + 1 ELSE 0
        /\ \A i \in 1 .. n - 1 + 1 : a[i] = s[1 + i - 1]
    BY <1>3, <2>1, SubSeqProperties
  <2> HIDE DEF a
  <2> QED BY <1>3, <2>2
<1>5. b \in Seq(Byte) /\ Len(b) = l - n /\ \A i \in 1 .. l - n : b[i] = s[n + i]
  <2>1. \A i \in n + 1 .. l : s[i] \in Byte
    BY <1>3
  <2>2. /\ b \in Seq(Byte) /\ Len(b) = IF n + 1 <= l THEN l - (n + 1) + 1 ELSE 0
        /\ \A i \in 1 .. l - (n + 1) + 1 : b[i] = s[(n + 1) + i - 1]
    BY <1>3, <2>1, SubSeqProperties
  <2>3. n <= l
    OBVIOUS
  <2> HIDE DEF b, l
  <2>4. ASSUME NEW i \in 1 .. l - n PROVE b[i] = s[n + i]
    <3>1. i \in 1 .. l - (n + 1) + 1 /\ (n + 1) + i - 1 = n + i
      BY <1>3
    <3> QED BY <2>2, <3>1
  <2>5. Len(b) = l - n
    BY <1>3, <2>2, <2>3
  <2> QED BY <2>2, <2>4, <2>5
<1> HIDE DEF a, b
<1>6. /\ a \o b \in Seq(Byte) /\ Len(a \o b) = Len(a) + Len(b)
      /\ \A i \in 1 .. Len(a) + Len(b) : (a \o b)[i] = IF i <= Len(a) THEN a[i] ELSE b[i - Len(a)]
  BY <1>4, <1>5, ConcatProperties
<1>7. Len(a \o b) = l
  BY <1>3, <1>4, <1>5, <1>6
<1>8. ASSUME NEW i \in 1 .. l PROVE (a \o b)[i] = s[i]
  <2> HIDE DEF l
  <2>1. (a \o b)[i] = IF i <= n THEN a[i] ELSE b[i - n]
    BY <1>3, <1>4, <1>5, <1>6
  <2>2. CASE i <= n
    BY <1>3, <1>4, <2>1, <2>2
  <2>3. CASE ~(i <= n)
    <3>1. i - n \in 1 .. l - n /\ n + (i - n) = i
      BY <1>3, <2>3
    <3> QED BY <1>5, <2>1, <2>3, <3>1
  <2> QED BY <2>2, <2>3
<1>9. a \o b = s
  BY <1>6, <1>7, <1>8, SeqEqual
<1> QED BY <1>4, <1>5, <1>9 DEF a, b

\* Some of the bytes on the wire are received.
LEMMA ReceiveInStream ==
  ASSUME Types, InStream, UNCHANGED sent, NEW n \in 1 .. MaxChunk, Receive(n)
  PROVE  InStream'
<1> SUFFICES ASSUME ~lost' PROVE ~lost /\ Stream' = Stream /\ finished' = finished
  BY SameStream DEF Receive
<1>1. ~lost /\ lower = <<>> /\ free # 0 /\ finished' = finished
  BY DEF Receive, Record, Types
<1>2. /\ lower' = SubSeq(wire, 1, n) /\ wire' = SubSeq(wire, n + 1, Len(wire))
      /\ chunk' = chunk /\ n <= Len(wire)
  BY <1>1 DEF Receive
<1>3. wire \in Seq(Byte) /\ n \in Nat \ {0}
  BY DeviceAssumption DEF Types
<1>4. lower' \o wire' = wire
  BY <1>2, <1>3, WireParts
<1>5. lower \o wire = wire
  BY <1>1, <1>3, ConcatEmptySeq
<1> QED BY <1>1, <1>2, <1>4, <1>5 DEF Stream

\* Sequences of bytes may be joined in any order.
LEMMA Associative ==
  \A s, t, u \in Seq(Byte) : s \o (t \o u) = (s \o t) \o u
<1> QED BY ConcatAssociative

\* A packet more is written.
LEMMA WriteInStream ==
  ASSUME Types, InStream, NEW c \in 0 .. PeerChannels - 1, NEW p \in Payload, Write(c, p)
  PROVE  InStream'
<1> SUFFICES ASSUME ~lost
             PROVE  /\ finished \in Seq(Seq(Byte)) /\ Len(finished) <= Len(sent')
                    /\ \A i \in 1 .. Len(finished) : finished[i] = Packed(sent'[i])
                    /\ readMailbox.ok \/ readMailbox \in {None, Error("SerialDeviceReadError")}
                    /\ \E q \in Seq(Byte) :
                         UnderWay(q, Stream', Frames(sent', Len(finished)), d)
  BY DEF InStream, Write
<1> DEFINE x == <<c, p>>
           n == Len(finished)
           f == Frames(sent, n)
           e == Frame(x)
<1>1. /\ finished \in Seq(Seq(Byte)) /\ n <= Len(sent)
      /\ \A i \in 1 .. n : finished[i] = Packed(sent[i])
      /\ readMailbox.ok \/ readMailbox \in {None, Error("SerialDeviceReadError")}
  BY DEF InStream
<1>2. PICK q \in Seq(Byte) : UnderWay(q, Stream, f, d)
  BY DEF InStream
<1>3. x \in Writable /\ sent' = Append(sent, x) /\ wire' = wire \o e
      /\ UNCHANGED <<chunk, lower>>
  <2>1. x \in (0 .. PeerChannels - 1) \X Payload /\ x[1] = c /\ x[2] = p
    OBVIOUS
  <2>2. Packed(x) = appendCrc(<<c>> \o p)
    BY <2>1 DEF Packed
  <2> HIDE DEF x
  <2> QED BY <2>1, <2>2 DEF Write, write, Writable, Frame, x
<1> HIDE DEF x
<1>4. /\ chunk \in Seq(Byte) /\ lower \in Seq(Byte) /\ wire \in Seq(Byte) /\ sent \in Seq(Writable)
      /\ e \in Seq(Byte)
  BY <1>3, PacketFrame DEF Types, Frame, Writable
<1>5. n \in 0 .. Len(sent) /\ Len(sent) \in Nat
  BY <1>1, <1>4
<1> HIDE DEF e, n
<1>6. /\ f \in Seq(Seq(Byte)) /\ Len(f) = Len(sent) - n
      /\ Frames(sent', n) = Append(f, e)
  BY <1>3, <1>4, <1>5, FramesMove DEF e
<1> HIDE DEF f
<1>7. /\ Len(sent') = Len(sent) + 1
      /\ \A i \in 1 .. Len(sent) : sent'[i] = sent[i]
  BY <1>3, <1>4, AppendProperties
<1>8. lower \o wire \in Seq(Byte) /\ Stream \in Seq(Byte) /\ q \o Stream \in Seq(Byte)
  BY <1>4, ConcatProperties DEF Stream
<1>9. Stream' = Stream \o e
  <2>1. lower \o (wire \o e) = (lower \o wire) \o e
    BY <1>4, Associative
  <2>2. chunk \o ((lower \o wire) \o e) = (chunk \o (lower \o wire)) \o e
    <3> DEFINE u == lower \o wire
    <3>1. u \in Seq(Byte) /\ chunk \in Seq(Byte) /\ e \in Seq(Byte)
      BY <1>4, <1>8
    <3> HIDE DEF u
    <3>2. chunk \o (u \o e) = (chunk \o u) \o e
      BY <3>1, Associative
    <3> QED BY <3>2 DEF u
  <2> QED BY <1>3, <2>1, <2>2 DEF Stream
<1>10. q \o Stream' = (q \o Stream) \o e
  BY <1>4, <1>8, <1>9, Associative, SMTT(30)
<1>11. Joined((q \o Stream) \o e, Append(f, e))
  BY <1>2, <1>4, <1>6, <1>8, JoinedAppend DEF UnderWay
<1>12. ASSUME q # <<>> PROVE Append(f, e) # <<>> /\ Append(f, e)[1] = f[1]
  <2>1. f # <<>>
    BY <1>2, <1>12 DEF UnderWay
  <2>2. Len(f) \in Nat \ {0}
    BY <1>6, <2>1, EmptySeq
  <2> QED BY <1>4, <1>6, <2>2, AppendProperties
<1>13. UnderWay(q, Stream', Frames(sent', n), d)
  BY <1>2, <1>6, <1>10, <1>11, <1>12 DEF UnderWay
<1>14. ASSUME NEW i \in 1 .. n PROVE finished[i] = Packed(sent'[i])
  <2>1. i \in 1 .. Len(sent)
    BY <1>5
  <2>2. sent'[i] = sent[i]
    BY <1>7, <2>1
  <2>3. finished[i] = Packed(sent[i])
    BY <1>1
  <2> QED BY <2>2, <2>3, Zenon
<1>15. n <= Len(sent')
  BY <1>5, <1>7
<1> QED BY <1>1, <1>13, <1>14, <1>15 DEF n

\* No step leaves the invariant.
LEMMA StepInStream == Types /\ InStream /\ [Next]_vars => InStream'
<1> SUFFICES ASSUME Types, InStream, [Next]_vars PROVE InStream'
  OBVIOUS
<1>1. ASSUME UNCHANGED <<d, sent, chunk, lower, wire, finished, lost, readMailbox>> PROVE InStream'
  BY <1>1, SameStream DEF Stream
<1>2. CASE UNCHANGED vars
  BY <1>1, <1>2 DEF vars, deviceVars
<1>3. CASE \E c \in 0 .. PeerChannels - 1, p \in Payload : Write(c, p)
  BY <1>3, WriteInStream
<1>4. CASE Device
  <2>1. sent' = sent
    BY <1>4 DEF Device
  <2>2. CASE \E n \in 1 .. MaxChunk : Receive(n)
    BY <2>1, <2>2, ReceiveInStream
  <2>3. CASE Check \/ ReadTimesOut \/ Release
    BY <1>1, <2>1, <2>3 DEF Check, ReadTimesOut, Release
  <2>4. CASE ReadChunk
    <3>1. chunk = <<>> /\ lower \in Seq(Byte) /\ wire \in Seq(Byte)
      BY <2>4 DEF ReadChunk, Types
    <3>2. <<>> \o (lower \o wire) = lower \o wire /\ <<>> \o wire = wire
      BY <3>1, ConcatProperties, ConcatEmptySeq
    <3>3. Stream' = Stream
      BY <2>4, <3>1, <3>2 DEF ReadChunk, Stream
    <3> QED BY <2>1, <2>4, <3>3, SameStream DEF ReadChunk
  <2>5. CASE Consume
    BY <2>1, <2>5, ConsumeInStream
  <2>6. CASE ReadFails
    <3>1. /\ ~lost' => ~lost /\ Stream' = Stream /\ finished' = finished
          /\ readMailbox' = Error("SerialDeviceReadError") /\ d' = d
      BY <2>6 DEF ReadFails, Record, Stream, Types
    <3> QED BY <2>1, <3>1, SameStream
  <2> QED BY <1>4, <2>2, <2>3, <2>4, <2>5, <2>6 DEF Device, ReadThread
<1>5. CASE MuxThread
  <2>1. CASE MuxRead
    BY <2>1, SameStream DEF MuxRead, read, Stream
  <2>2. CASE MuxCheck \/ MuxTimesOut \/ Deliver \/ Refuse
    BY <1>1, <2>2 DEF MuxCheck, MuxTimesOut, Deliver, Refuse, deviceVars
  <2> QED BY <1>5, <2>1, <2>2 DEF MuxThread
<1>6. CASE \E c \in Channel : Read(c) \/ Drop(c)
  BY <1>1, <1>6 DEF Read, Drop, deviceVars
<1>7. CASE DestroyMux \/ DestroyDevice
  BY <1>1, <1>7 DEF DestroyMux, DestroyDevice, deviceVars
<1> QED BY <1>2, <1>3, <1>4, <1>5, <1>6, <1>7 DEF Next

(* For packets of any length that write lets pass, any block length and    *)
(* buffer size and any chunks: as long as no chunk is replaced and no      *)
(* buffer missing, the decoder hands out exactly what was written and      *)
(* takes nothing for an error (packet_decode_fsm.h:50-136, cobs/cobs.h:    *)
(* 9-69, packet_device_impl_base.h:108-182).                               *)
THEOREM SentIsDecoded == Spec => []AllDecoded
<1> DEFINE Inv == Types /\ InStream
<1>1. Init => Inv
  <2> SUFFICES ASSUME Init PROVE InStream
    BY InitTypes
  <2>1. /\ chunk = <<>> /\ lower = <<>> /\ wire = <<>> /\ finished = <<>> /\ sent = <<>>
        /\ readMailbox = None /\ d = New
    BY DEF Init, DeviceInit
  <2>2. <<>> \in Seq(Byte) /\ <<>> \in Seq(Seq(Byte)) /\ Len(<<>>) = 0 /\ <<>> \in Seq(Writable)
    OBVIOUS
  <2>3. <<>> \o <<>> = <<>>
    BY <2>2, ConcatEmptySeq
  <2>4. Stream = <<>>
    BY <2>1, <2>3 DEF Stream
  <2>5. Frames(<<>>, 0) = <<>>
    <3>1. 0 \in 0 .. Len(<<>>) /\ Len(<<>>) - 0 = 0
      BY <2>2
    <3>2. Frames(<<>>, 0) \in Seq(Seq(Byte)) /\ Len(Frames(<<>>, 0)) = Len(<<>>) - 0
      BY <2>2, <3>1, FramesMove
    <3> QED BY <3>1, <3>2, EmptySeq
  <2>6. Joined(<<>>, <<>>)
    <3> DEFINE pos == [i \in 0 .. 0 |-> 0]
    <3>1. pos \in [0 .. 0 -> 0 .. 0] /\ pos[0] = 0
      OBVIOUS
    <3> HIDE DEF pos
    <3> QED BY <2>2, <3>1 DEF Joined
  <2>7. At(New, <<>>)
    BY <2>2 DEF At, New
  <2>8. UnderWay(<<>>, <<>>, <<>>, New)
    BY <2>3, <2>6, <2>7 DEF UnderWay
  <2>9. UnderWay(<<>>, Stream, Frames(sent, Len(finished)), d)
    BY <2>1, <2>2, <2>4, <2>5, <2>8
  <2>10. \A i \in 1 .. Len(finished) : finished[i] = Packed(sent[i])
    BY <2>1, <2>2
  <2>11. finished \in Seq(Seq(Byte)) /\ Len(finished) <= Len(sent)
    BY <2>1, <2>2
  <2> QED BY <2>1, <2>2, <2>9, <2>10, <2>11 DEF InStream
<1>2. Inv /\ [Next]_vars => Inv'
  BY StepTypes, StepInStream
<1>3. Inv => AllDecoded
  <2> SUFFICES ASSUME Types, InStream, ~lost
               PROVE  /\ IsPrefix(finished, [i \in DOMAIN sent |-> Packed(sent[i])])
                      /\ readMailbox.ok \/ readMailbox \in {None, Error("SerialDeviceReadError")}
    BY DEF AllDecoded, Packed
  <2> DEFINE t == [i \in DOMAIN sent |-> Packed(sent[i])]
             n == Len(finished)
  <2>1. finished \in Seq(Seq(Byte)) /\ n <= Len(sent) /\ n \in Nat
        /\ \A i \in 1 .. n : finished[i] = Packed(sent[i])
    BY DEF InStream
  <2>2. sent \in Seq(Writable) /\ DOMAIN sent = 1 .. Len(sent) /\ Len(sent) \in Nat
    BY LenProperties DEF Types
  <2>3. \A i \in 1 .. Len(sent) : Packed(sent[i]) \in Seq(Byte)
    BY <2>2, ElementOfSeq, PacketFrame DEF Writable
  <2>4. t \in Seq(Seq(Byte)) /\ Len(t) = Len(sent) /\ \A i \in 1 .. Len(sent) : t[i] = Packed(sent[i])
    <3>1. t \in [1 .. Len(sent) -> Seq(Byte)]
      BY <2>2, <2>3
    <3>2. t \in Seq(Seq(Byte))
      BY <2>2, <3>1
    <3>3. Len(t) = Len(sent)
      BY <2>2, <3>1, <3>2, LenProperties
    <3> QED BY <2>2, <3>2, <3>3
  <2> HIDE DEF t, n
  <2>5. SubSeq(finished, 1, n) = SubSeq(t, 1, n)
    <3>1. \A i \in 1 .. n : finished[i] \in Seq(Byte) /\ t[i] \in Seq(Byte) /\ t[i] = finished[i]
      BY <2>1, <2>2, <2>3, <2>4
    <3>2. /\ SubSeq(finished, 1, n) \in Seq(Seq(Byte)) /\ SubSeq(t, 1, n) \in Seq(Seq(Byte))
          /\ Len(SubSeq(finished, 1, n)) = Len(SubSeq(t, 1, n))
          /\ \A i \in 1 .. n - 1 + 1 : /\ SubSeq(finished, 1, n)[i] = finished[1 + i - 1]
                                       /\ SubSeq(t, 1, n)[i] = t[1 + i - 1]
          /\ Len(SubSeq(finished, 1, n)) = IF 1 <= n THEN n - 1 + 1 ELSE 0
      BY <2>1, <3>1, SubSeqProperties
    <3>3. ASSUME NEW i \in 1 .. Len(SubSeq(finished, 1, n))
          PROVE  SubSeq(finished, 1, n)[i] = SubSeq(t, 1, n)[i]
      <4>1. i \in 1 .. n /\ i \in 1 .. n - 1 + 1 /\ 1 + i - 1 = i
        BY <2>1, <3>2
      <4> QED BY <3>1, <3>2, <4>1
    <3> QED BY <3>2, <3>3, SeqEqual
  <2> QED BY <2>1, <2>4, <2>5 DEF IsPrefix, InStream, n, t
<1> QED BY <1>1, <1>2, <1>3, PTL DEF Spec

-----------------------------------------------------------------------------
(* The multiplexer's thread is gone before the device is asked to stop:    *)
(* it never reads from a device that may go away                           *)
(* (multiplexer_impl_base.h:88-92, packet_device_impl_base.h:102-106).     *)
THEOREM DeviceIsLast == Spec => []DeviceOutlivesMux
<1> DEFINE Inv == /\ DeviceOutlivesMux
                  /\ stopMux \in BOOLEAN /\ (stopRead => stopMux)
<1>1. Init => Inv
  BY DEF Init, DeviceInit, DeviceOutlivesMux
<1>2. Inv /\ [Next]_vars => Inv'
  <2> SUFFICES ASSUME Inv, [Next]_vars PROVE Inv'
    OBVIOUS
  <2>1. CASE UNCHANGED vars
    BY <2>1 DEF vars, deviceVars, muxVars, DeviceOutlivesMux
  <2>2. CASE \E c \in 0 .. PeerChannels - 1, p \in Payload : Write(c, p)
    BY <2>2 DEF Write, muxVars, DeviceOutlivesMux
  <2>3. CASE Device
    BY <2>3 DEF Device, muxVars, Receive, ReadThread, Check, ReadChunk, ReadTimesOut,
                ReadFails, Consume, Release, DeviceOutlivesMux
  <2>4. CASE MuxThread
    BY <2>4 DEF MuxThread, MuxCheck, MuxRead, MuxTimesOut, Deliver, Refuse, deviceVars,
                DeviceOutlivesMux
  <2>5. CASE \E c \in Channel : Read(c) \/ Drop(c)
    BY <2>5 DEF Read, Drop, deviceVars, DeviceOutlivesMux
  <2>6. CASE DestroyMux
    BY <2>6 DEF DestroyMux, deviceVars, DeviceOutlivesMux
  <2>7. CASE DestroyDevice
    BY <2>7 DEF DestroyDevice, wait, requestStop, muxVars, DeviceOutlivesMux
  <2> QED BY <2>1, <2>2, <2>3, <2>4, <2>5, <2>6, <2>7 DEF Next
<1>3. Inv => DeviceOutlivesMux
  OBVIOUS
<1> QED BY <1>1, <1>2, <1>3, PTL DEF Spec

-----------------------------------------------------------------------------
(* Of the bytes the decoder t holds after it was given b as r: none but    *)
(* those of r, b and zeros; and none is left when it hands out a packet,   *)
(* which has bytes of r only.                                              *)
MadeOf(t, r, b) ==
  /\ Range(t.out) \subseteq Range(r.out) \union {0, b}
  /\ t.packet # <<>> => t.out = <<>> /\ Range(t.packet) \subseteq Range(r.out)

\* append adds its byte to the buffer, or none.
LEMMA AppendBytes ==
  ASSUME NEW s, InBuffer(s), NEW b \in Byte
  PROVE  Range(append(s, b).out) \subseteq Range(s.out) \union {b} /\ append(s, b).packet = s.packet
<1>1. s \in Decoder /\ s.out \in Seq(Byte)
  BY DEF InBuffer, Decoder
<1>2. append(s, b).packet = s.packet /\ append(s, b).out \in {s.out, Append(s.out, b)}
  BY <1>1 DEF append, Decoder
<1>3. Range(Append(s.out, b)) \subseteq Range(s.out) \union {b}
  <2>1. /\ Len(Append(s.out, b)) = Len(s.out) + 1 /\ Len(s.out) \in Nat
        /\ \A i \in 1 .. Len(s.out) : Append(s.out, b)[i] = s.out[i]
        /\ Append(s.out, b)[Len(s.out) + 1] = b
    BY <1>1, AppendProperties
  <2>2. DOMAIN Append(s.out, b) = 1 .. Len(s.out) + 1 /\ DOMAIN s.out = 1 .. Len(s.out)
    BY <1>1, <2>1
  <2> QED BY <2>1, <2>2 DEF Range
<1> QED BY <1>2, <1>3

\* finishBlock adds a zero, or none.
LEMMA FinishBlockBytes ==
  ASSUME NEW s, InBuffer(s)
  PROVE  /\ Range(finishBlock(s).out) \subseteq Range(s.out) \union {0}
         /\ finishBlock(s).packet = s.packet
<1>1. 0 \in Byte
  BY KAssumption DEF Byte
<1> QED BY <1>1, AppendBytes DEF finishBlock

\* The buffer and the packet of a decoder that only changes its state.
LEMMA StateBytes ==
  ASSUME NEW s, InBuffer(s), NEW to \in State, NEW b \in Byte \ {0}
  PROVE  /\ Then(s, to).out = s.out /\ Then(s, to).packet = s.packet
         /\ transit(s, to).out = s.out /\ transit(s, to).packet = s.packet
         /\ startBlock(s, b).out = s.out /\ startBlock(s, b).packet = s.packet
  BY DEF Then, transit, startBlock, InBuffer, Decoder

\* The state "start".
LEMMA StartMakes ==
  ASSUME NEW s, InBuffer(s), s.packet = <<>>, NEW b \in Byte
  PROVE  MadeOf(start(s, b), s, b)
<1>1. CASE b = 0
  BY <1>1 DEF start, MadeOf
<1>2. CASE b = 1
  <2> DEFINE u == startBlock(s, b)
             t == finishBlock(u)
  <2>0. b \in Byte \ {0} /\ "block" \in State
    BY <1>2 DEF State
  <2>1. InBuffer(u) /\ u.out = s.out /\ u.packet = <<>>
    BY <2>0, StartBlockFields, StateBytes
  <2>2. InBuffer(t)
    BY <2>1, FinishBlockGrows DEF Grown
  <2>3. Range(t.out) \subseteq Range(s.out) \union {0} /\ t.packet = <<>>
    BY <2>1, FinishBlockBytes
  <2>4. start(s, b) = Then(t, "nextBlock")
    BY <1>2 DEF start
  <2> HIDE DEF t, u
  <2>5. start(s, b).out = t.out /\ start(s, b).packet = t.packet
    BY <1>2, <2>2, <2>4, StateBytes DEF State
  <2> QED BY <2>3, <2>5 DEF MadeOf
<1>3. CASE b \notin {0, 1}
  <2> DEFINE u == startBlock(s, b)
  <2>0. b \in Byte \ {0} /\ "block" \in State
    BY <1>3 DEF State
  <2>1. InBuffer(u) /\ u.out = s.out /\ u.packet = <<>>
    BY <2>0, StartBlockFields, StateBytes
  <2>2. start(s, b) = transit(u, "block")
    BY <1>3 DEF start
  <2> HIDE DEF u
  <2>3. start(s, b).out = s.out /\ start(s, b).packet = <<>>
    BY <2>0, <2>1, <2>2, StateBytes
  <2> QED BY <2>3 DEF MadeOf
<1> QED BY <1>1, <1>2, <1>3

\* The state "block".
LEMMA BlockMakes ==
  ASSUME NEW s, InBuffer(s), s.packet = <<>>, NEW b \in Byte
  PROVE  MadeOf(block(s, b), s, b)
<1>1. CASE b = 0
  <2>1. block(s, b) = [s EXCEPT !.state = "delimiter", !.error = "CobsBadEncoding"]
    BY <1>1 DEF block, fail
  <2>2. block(s, b).out = s.out /\ block(s, b).packet = <<>>
    BY <2>1 DEF InBuffer, Decoder
  <2> QED BY <2>2 DEF MadeOf
<1>2. CASE b # 0
  <2> DEFINE t == append(s, b)
             u == finishBlock(t)
  <2>1. InBuffer(t) /\ InBuffer(u)
    BY AppendGrows, FinishBlockGrows DEF Grown
  <2>2. /\ Range(t.out) \subseteq Range(s.out) \union {b} /\ t.packet = <<>>
        /\ Range(u.out) \subseteq Range(t.out) \union {0} /\ u.packet = <<>>
    BY <2>1, AppendBytes, FinishBlockBytes
  <2>3. block(s, b) \in {Then(u, "nextBlock"), Then(t, "block")}
    BY <1>2 DEF block
  <2> HIDE DEF t, u
  <2>4. /\ Then(u, "nextBlock").out = u.out /\ Then(u, "nextBlock").packet = u.packet
        /\ Then(t, "block").out = t.out /\ Then(t, "block").packet = t.packet
    BY <1>2, <2>1, StateBytes DEF State
  <2> QED BY <2>2, <2>3, <2>4 DEF MadeOf
<1> QED BY <1>1, <1>2

\* finishPacket hands out bytes of the buffer and empties it.
LEMMA FinishPacketMakes ==
  ASSUME NEW s, WellFormed(s), s.state = "nextBlock", s.error = "none", s.packet = <<>>,
         NEW ok \in BOOLEAN, NEW b
  PROVE  MadeOf(finishPacket(s, ok), s, b)
<1> DEFINE n == Len(s.out) - (IF Last(s.out) = 0 THEN 1 ELSE 0)
           p == SubSeq(s.out, 1, n)
<1>1. s \in Decoder /\ s.out \in Seq(Byte) /\ Len(s.out) \in Nat \ {0}
  BY DEF WellFormed, InBuffer, Decoder
<1>2. n \in 0 .. Len(s.out)
  <2>1. CASE Last(s.out) = 0
    BY <1>1, <2>1
  <2>2. CASE Last(s.out) # 0
    BY <1>1, <2>2
  <2> QED
    BY <2>1, <2>2
<1>3. finishPacket(s, ok).packet \in {<<>>, p}
  <2>1. CASE n = 0
    <3>1. finishPacket(s, ok) = fail([s EXCEPT !.out = <<>>], "CobsBadEncoding")
      BY <2>1 DEF finishPacket
    <3> QED BY <1>1, <3>1 DEF fail, Decoder
  <2>2. CASE n # 0
    <3> DEFINE t == [s EXCEPT !.packet = p, !.out = <<>>, !.error = IF ok THEN "none" ELSE "callback"]
    <3>1. finishPacket(s, ok) = Then(t, "start")
      BY <2>2 DEF finishPacket
    <3> HIDE DEF p, n
    <3>2. Then(t, "start").packet = p
      BY <1>1 DEF Then, transit, Decoder
    <3> QED BY <3>1, <3>2
  <2> QED BY <2>1, <2>2
<1>4. Range(p) \subseteq Range(s.out)
  <2> HIDE DEF n
  <2>1. Len(p) = n /\ \A i \in 1 .. n : p[i] = s.out[i]
    BY <1>1, <1>2
  <2>2. DOMAIN p = 1 .. n /\ DOMAIN s.out = 1 .. Len(s.out)
    BY <1>1, <1>2, <2>1
  <2> QED BY <1>1, <1>2, <2>1, <2>2 DEF Range
<1>5. finishPacket(s, ok).out = <<>>
  BY FinishPacketWellFormed
<1> HIDE DEF n, p
<1>6. Range(<<>>) = {}
  BY DEF Range
<1> QED BY <1>3, <1>4, <1>5, <1>6 DEF MadeOf

\* The state "nextBlock".
LEMMA NextBlockMakes ==
  ASSUME NEW s, WellFormed(s), s.state = "nextBlock", s.error = "none", s.packet = <<>>,
         NEW b \in Byte, NEW ok \in BOOLEAN
  PROVE  MadeOf(nextBlock(s, b, ok), s, b)
<1>1. CASE b = 0
  BY <1>1, FinishPacketMakes DEF nextBlock
<1>2. CASE b # 0
  <2> DEFINE u == startBlock(s, b)
             t == finishBlock(u)
  <2>0. b \in Byte \ {0} /\ "block" \in State /\ InBuffer(s)
    BY <1>2 DEF State, WellFormed
  <2>1. InBuffer(u) /\ u.out = s.out /\ u.packet = <<>>
    BY <2>0, StartBlockFields, StateBytes
  <2>2. Range(t.out) \subseteq Range(s.out) \union {0} /\ t.packet = <<>>
    BY <2>1, FinishBlockBytes
  <2>3. nextBlock(s, b, ok) \in {t, transit(u, "block")}
    BY <1>2 DEF nextBlock
  <2> HIDE DEF t, u
  <2>4. transit(u, "block").out = u.out /\ transit(u, "block").packet = u.packet
    BY <1>2, <2>1, StateBytes DEF State
  <2> QED BY <2>1, <2>2, <2>3, <2>4 DEF MadeOf
<1> QED BY <1>1, <1>2

\* Whatever state the decoder is in.
LEMMA ConsumeMakes ==
  ASSUME NEW r, WellFormed(r), NEW b \in Byte, NEW ok \in BOOLEAN
  PROVE  MadeOf(consume(r, b, ok), r, b)
<1> DEFINE s == [r EXCEPT !.error = "none", !.packet = <<>>]
<1>1. /\ WellFormed(s) /\ InBuffer(s) /\ s.error = "none" /\ s.packet = <<>>
      /\ s.out = r.out /\ s.state \in State
  <2>1. <<>> \in Seq(Byte)
    OBVIOUS
  <2>2. s \in Decoder /\ s.error = "none" /\ s.packet = <<>> /\ s.state = r.state /\ s.out = r.out
        /\ s.left = r.left
    BY <2>1 DEF WellFormed, InBuffer, Decoder
  <2> HIDE DEF s
  <2> QED BY <2>2 DEF WellFormed, InBuffer, Decoder
<1>2. consume(r, b, ok) = CASE s.state = "delimiter" -> delimiter(s, b)
                            [] s.state = "start" -> start(s, b)
                            [] s.state = "block" -> block(s, b)
                            [] s.state = "nextBlock" -> nextBlock(s, b, ok)
  BY DEF consume
<1> HIDE DEF s
<1>3. MadeOf(delimiter(s, b), s, b)
  BY <1>1 DEF delimiter, transit, MadeOf, InBuffer, Decoder
<1>4. MadeOf(consume(r, b, ok), s, b)
  BY <1>1, <1>2, <1>3, StartMakes, BlockMakes, NextBlockMakes DEF State
<1> QED BY <1>1, <1>4 DEF MadeOf

(* A byte that is the CRC of some packet; and one that is the CRC of no    *)
(* packet but x, without its CRC.                                          *)
IsCrc(v) == \E p \in DOMAIN Crc : Crc[p] = v
Header(x) == <<x[1]>> \o x[2]
CrcOf(v, x) == \A p \in DOMAIN Crc : Crc[p] = v => p = Header(x)

(* The CRCs in s are those of packets of t after the first a, in the order *)
(* of t.                                                                   *)
Ascends(s, a, t) ==
  \E from \in [1 .. Len(s) -> Nat] :
     /\ \A i \in 1 .. Len(s) : IsCrc(s[i]) => from[i] \in a + 1 .. Len(t) /\ CrcOf(s[i], t[from[i]])
     /\ \A i, j \in 1 .. Len(s) : i < j /\ IsCrc(s[i]) /\ IsCrc(s[j]) => from[i] < from[j]

\* In a frame only the last byte of the packet is a CRC, and it is the packet's.
LEMMA FrameCrc ==
  ASSUME NEW x \in Writable
  PROVE  /\ Frame(x) \in Seq(Byte)
         /\ \A i \in 1 .. Len(Frame(x)) :
              IsCrc(Frame(x)[i]) => i = Len(Frame(x)) - 1 /\ CrcOf(Frame(x)[i], x)
         /\ ~IsCrc(0)
<1> DEFINE f == Frame(x)
<1>1. x \in (0 .. PeerChannels - 1) \X Payload
  BY DEF Writable
<1>2. Packed(x) \in Seq(Byte) /\ Packed(x) # <<>> /\ f \in Seq(Byte)
  BY <1>1, PacketFrame DEF Frame
<1>3. DOMAIN f = 1 .. Len(f) /\ Len(f) \in Nat
  BY <1>2
<1>4. f[Len(f)] = 0 /\ Len(f) # 0
  BY <1>2, FrameBytes DEF Frame
<1>5. f = stuffAndDelim(appendCrc(<<x[1]>> \o x[2])) /\ x[1] \in 0 .. PeerChannels - 1 /\ x[2] \in Payload
  BY <1>1 DEF Frame, Packed
<1> HIDE DEF f
<1>6. \A p \in DOMAIN Crc, i \in DOMAIN f : f[i] = Crc[p] => p = Header(x) /\ i = Len(f) - 1
  BY <1>5, IdealCrc DEF Header
<1>7. \A i \in 1 .. Len(f) : IsCrc(f[i]) => i = Len(f) - 1 /\ CrcOf(f[i], x)
  BY <1>3, <1>6 DEF IsCrc, CrcOf
<1>8. ~IsCrc(0)
  <2> DEFINE n == Len(f)
  <2>0. n \in Nat /\ n # 0
    BY <1>3, <1>4
  <2> HIDE DEF n
  <2>1. n \in 1 .. n /\ n # n - 1
    BY <2>0
  <2>2. ~IsCrc(f[n])
    BY <1>7, <2>1 DEF n
  <2> QED BY <1>4, <2>2, Zenon DEF n
<1> QED BY <1>2, <1>7, <1>8 DEF f

\* Bytes may be lost.
LEMMA Thinned ==
  ASSUME NEW s \in Seq(Byte), NEW u \in Seq(Byte), NEW m \in [1 .. Len(u) -> 1 .. Len(s)],
         \A i \in 1 .. Len(u) : u[i] = s[m[i]],
         \A i, j \in 1 .. Len(u) : i < j => m[i] < m[j],
         NEW a, NEW t, Ascends(s, a, t)
  PROVE  Ascends(u, a, t)
<1>1. PICK from \in [1 .. Len(s) -> Nat] :
        /\ \A i \in 1 .. Len(s) : IsCrc(s[i]) => from[i] \in a + 1 .. Len(t) /\ CrcOf(s[i], t[from[i]])
        /\ \A i, j \in 1 .. Len(s) : i < j /\ IsCrc(s[i]) /\ IsCrc(s[j]) => from[i] < from[j]
  BY DEF Ascends
<1> DEFINE g == [i \in 1 .. Len(u) |-> from[m[i]]]
<1>2. g \in [1 .. Len(u) -> Nat] /\ \A i \in 1 .. Len(u) : m[i] \in 1 .. Len(s) /\ g[i] = from[m[i]]
  OBVIOUS
<1> HIDE DEF g
<1>3. \A i \in 1 .. Len(u) : IsCrc(u[i]) => g[i] \in a + 1 .. Len(t) /\ CrcOf(u[i], t[g[i]])
  BY <1>1, <1>2
<1>4. \A i, j \in 1 .. Len(u) : i < j /\ IsCrc(u[i]) /\ IsCrc(u[j]) => g[i] < g[j]
  BY <1>1, <1>2
<1> QED BY <1>2, <1>3, <1>4 DEF Ascends

\* The first byte is taken.
LEMMA FirstTaken ==
  ASSUME NEW u \in Seq(Byte), NEW s \in Seq(Byte), Len(u) = Len(s) + 1,
         \A i \in 1 .. Len(s) : s[i] = u[i + 1],
         NEW t \in Seq(Writable), NEW a \in 0 .. Len(t), Ascends(u, a, t)
  PROVE  \E b \in a .. Len(t) :
            /\ Ascends(s, b, t)
            /\ IsCrc(u[1]) => \E k \in a + 1 .. b : CrcOf(u[1], t[k])
<1>1. PICK from \in [1 .. Len(u) -> Nat] :
        /\ \A i \in 1 .. Len(u) : IsCrc(u[i]) => from[i] \in a + 1 .. Len(t) /\ CrcOf(u[i], t[from[i]])
        /\ \A i, j \in 1 .. Len(u) : i < j /\ IsCrc(u[i]) /\ IsCrc(u[j]) => from[i] < from[j]
  BY DEF Ascends
<1> DEFINE g == [i \in 1 .. Len(s) |-> from[i + 1]]
           b == IF IsCrc(u[1]) THEN from[1] ELSE a
<1>2. Len(s) \in Nat /\ 1 \in 1 .. Len(u) /\ Len(t) \in Nat
  OBVIOUS
<1>3. \A i \in 1 .. Len(s) : i + 1 \in 1 .. Len(u) /\ from[i + 1] \in Nat /\ g[i] = from[i + 1]
  <2>1. \A i \in 1 .. Len(s) : i + 1 \in 1 .. Len(u)
    BY <1>2
  <2> QED BY <2>1
<1>4. g \in [1 .. Len(s) -> Nat]
  BY <1>3
<1>5. b \in a .. Len(t) /\ (IsCrc(u[1]) => b \in a + 1 .. b /\ CrcOf(u[1], t[b]))
  <2>1. CASE IsCrc(u[1])
    BY <1>1, <1>2, <2>1
  <2>2. CASE ~IsCrc(u[1])
    BY <1>2, <2>2
  <2> QED BY <2>1, <2>2
<1>6. ASSUME NEW i \in 1 .. Len(s), IsCrc(s[i]) PROVE g[i] \in b + 1 .. Len(t) /\ CrcOf(s[i], t[g[i]])
  <2>1. IsCrc(u[i + 1]) /\ i + 1 \in 1 .. Len(u) /\ s[i] = u[i + 1] /\ g[i] = from[i + 1]
    BY <1>3, <1>6
  <2>2. from[i + 1] \in a + 1 .. Len(t) /\ CrcOf(u[i + 1], t[from[i + 1]])
    BY <1>1, <2>1
  <2>3. b < from[i + 1]
    <3>1. CASE IsCrc(u[1])
      BY <1>1, <1>2, <2>1, <3>1
    <3>2. CASE ~IsCrc(u[1])
      BY <2>2, <3>2
    <3> QED BY <3>1, <3>2
  <2> HIDE DEF b, g
  <2> QED BY <1>5, <2>1, <2>2, <2>3
<1>7. ASSUME NEW i \in 1 .. Len(s), NEW j \in 1 .. Len(s), i < j, IsCrc(s[i]), IsCrc(s[j])
      PROVE  g[i] < g[j]
  <2>1. /\ i + 1 \in 1 .. Len(u) /\ j + 1 \in 1 .. Len(u) /\ i + 1 < j + 1
        /\ IsCrc(u[i + 1]) /\ IsCrc(u[j + 1]) /\ g[i] = from[i + 1] /\ g[j] = from[j + 1]
    BY <1>3, <1>7
  <2> HIDE DEF g
  <2> QED BY <1>1, <2>1
<1> HIDE DEF g, b
<1>8. Ascends(s, b, t)
  BY <1>4, <1>6, <1>7 DEF Ascends
<1> QED BY <1>5, <1>8

\* A frame more at the end.
LEMMA FrameAdded ==
  ASSUME NEW s \in Seq(Byte), NEW t \in Seq(Writable), NEW x \in Writable, NEW a \in 0 .. Len(t),
         Ascends(s, a, t)
  PROVE  Ascends(s \o Frame(x), a, Append(t, x))
<1> DEFINE f == Frame(x)
           u == s \o f
           n == Len(s)
           r == Append(t, x)
<1>1. f \in Seq(Byte) /\ \A i \in 1 .. Len(f) : IsCrc(f[i]) => i = Len(f) - 1 /\ CrcOf(f[i], x)
  BY FrameCrc
<1> HIDE DEF f
<1>2. /\ u \in Seq(Byte) /\ Len(u) = n + Len(f) /\ n \in Nat /\ Len(f) \in Nat
      /\ \A i \in 1 .. n + Len(f) : u[i] = IF i <= n THEN s[i] ELSE f[i - n]
  BY <1>1, ConcatProperties
<1>3. /\ Len(r) = Len(t) + 1 /\ Len(t) \in Nat /\ r[Len(t) + 1] = x
      /\ \A i \in 1 .. Len(t) : r[i] = t[i]
  BY AppendProperties
<1>4. PICK from \in [1 .. n -> Nat] :
        /\ \A i \in 1 .. n : IsCrc(s[i]) => from[i] \in a + 1 .. Len(t) /\ CrcOf(s[i], t[from[i]])
        /\ \A i, j \in 1 .. n : i < j /\ IsCrc(s[i]) /\ IsCrc(s[j]) => from[i] < from[j]
  BY DEF Ascends
<1> HIDE DEF u, n, r
<1> DEFINE g == [i \in 1 .. Len(u) |-> IF i <= n THEN from[i] ELSE Len(t) + 1]
<1>5. g \in [1 .. Len(u) -> Nat]
      /\ \A i \in 1 .. Len(u) : g[i] = IF i <= n THEN from[i] ELSE Len(t) + 1
  BY <1>2, <1>3
<1> HIDE DEF g
<1>6. ASSUME NEW i \in 1 .. Len(u), IsCrc(u[i]) PROVE g[i] \in a + 1 .. Len(r) /\ CrcOf(u[i], r[g[i]])
  <2>1. CASE i <= n
    <3>1. i \in 1 .. n /\ u[i] = s[i] /\ g[i] = from[i]
      BY <1>2, <1>5, <2>1
    <3>2. from[i] \in a + 1 .. Len(t) /\ CrcOf(s[i], t[from[i]])
      BY <1>4, <1>6, <3>1
    <3> QED BY <1>3, <3>1, <3>2
  <2>2. CASE ~(i <= n)
    <3>1. i - n \in 1 .. Len(f) /\ u[i] = f[i - n] /\ g[i] = Len(t) + 1
      BY <1>2, <1>5, <2>2
    <3>2. CrcOf(f[i - n], x)
      BY <1>1, <1>6, <3>1
    <3> QED BY <1>3, <3>1, <3>2
  <2> QED BY <2>1, <2>2
<1>7. ASSUME NEW i \in 1 .. Len(u), NEW j \in 1 .. Len(u), i < j, IsCrc(u[i]), IsCrc(u[j])
      PROVE  g[i] < g[j]
  <2>1. CASE j <= n
    <3>1. i \in 1 .. n /\ u[i] = s[i] /\ g[i] = from[i] /\ j \in 1 .. n /\ u[j] = s[j] /\ g[j] = from[j]
      BY <1>2, <1>5, <1>7, <2>1
    <3> QED BY <1>4, <1>7, <3>1
  <2>2. CASE ~(j <= n) /\ i <= n
    <3>1. i \in 1 .. n /\ u[i] = s[i] /\ g[i] = from[i] /\ g[j] = Len(t) + 1
      BY <1>2, <1>5, <2>2
    <3>2. from[i] \in a + 1 .. Len(t)
      BY <1>4, <1>7, <3>1
    <3> QED BY <1>3, <3>1, <3>2
  <2>3. CASE ~(i <= n)
    <3>1. i - n \in 1 .. Len(f) /\ u[i] = f[i - n] /\ j - n \in 1 .. Len(f) /\ u[j] = f[j - n]
      BY <1>2, <1>7, <2>3
    <3>2. i - n = j - n
      BY <1>1, <1>7, <3>1
    <3> QED BY <1>2, <1>7, <3>2
  <2> QED BY <2>1, <2>2, <2>3
<1>8. Ascends(u, a, r)
  BY <1>5, <1>6, <1>7 DEF Ascends
<1> QED BY <1>8 DEF u, r, f

(* The CRCs that arrive, or are with the decoder, are those of packets     *)
(* sent after the first b.                                                 *)
Incoming(b) ==
  \E a \in b .. Len(sent) :
     /\ Ascends(Stream, a, sent)
     /\ \A v \in Range(d.out) : IsCrc(v) => \E k \in b + 1 .. a : CrcOf(v, sent[k])

(* A packet that passes the check was sent after the first l, as one of    *)
(* the first h.                                                            *)
Sits(message, l, h) ==
  message.ok =>
     /\ message.packet \in Seq(Byte)
     /\ check(message.packet) => \E k \in l + 1 .. h : Front(message.packet) = Header(sent[k])

(* What the clients have read or can read are packets of the first h, and  *)
(* each client's mailbox has a later one than it has read.                 *)
ReadUpTo(from, last, h) ==
  /\ \A i \in 1 .. Len(got) : /\ got[i] = sent[from[i]] /\ got[i][1] \in Channel
                              /\ from[i] <= last[got[i][1]]
  /\ \A i, j \in 1 .. Len(got) : i < j /\ got[i][1] = got[j][1] => from[i] < from[j]
  /\ \A c \in Channel :
        mailboxes[c].ok => \E k \in last[c] + 1 .. h : sent[k] = <<c, mailboxes[c].packet>>

Handled(h) ==
  \E from \in [1 .. Len(got) -> 1 .. h], last \in [Channel -> 0 .. h] : ReadUpTo(from, last, h)

(* So the packets of each place come after those of the next.              *)
Placed(b, c, e) ==
  /\ b \in 0 .. Len(sent) /\ c \in 0 .. b /\ e \in 0 .. c
  /\ Incoming(b) /\ Sits(readMailbox, c, b) /\ Sits(hand, e, c) /\ Handled(e)

InOrder ==
  /\ Stream # <<>> => sent # <<>>
  /\ got \in Seq(Writable)
  /\ \E b, c, e \in Nat : Placed(b, c, e)

\* A part of the bytes under way is lost.
LEMMA PartLost ==
  ASSUME NEW x \in Seq(Byte), NEW y \in Seq(Byte), NEW z \in Seq(Byte), NEW a, NEW t,
         Ascends(x \o (y \o z), a, t)
  PROVE  Ascends(x \o z, a, t)
<1> DEFINE s == x \o (y \o z)
           u == x \o z
           n == Len(x)
           l == Len(y)
<1>1. n \in Nat /\ l \in Nat /\ Len(z) \in Nat
  OBVIOUS
<1>2. /\ y \o z \in Seq(Byte) /\ Len(y \o z) = l + Len(z)
      /\ \A i \in 1 .. l + Len(z) : (y \o z)[i] = IF i <= l THEN y[i] ELSE z[i - l]
  BY ConcatProperties
<1>3. /\ s \in Seq(Byte) /\ Len(s) = n + (l + Len(z))
      /\ \A i \in 1 .. n + (l + Len(z)) : s[i] = IF i <= n THEN x[i] ELSE (y \o z)[i - n]
  BY <1>2, ConcatProperties
<1>4. /\ u \in Seq(Byte) /\ Len(u) = n + Len(z)
      /\ \A i \in 1 .. n + Len(z) : u[i] = IF i <= n THEN x[i] ELSE z[i - n]
  BY ConcatProperties
<1> DEFINE m == [i \in 1 .. Len(u) |-> IF i <= n THEN i ELSE i + l]
<1> HIDE DEF s, u, n, l
<1>5. /\ m \in [1 .. Len(u) -> 1 .. Len(s)]
      /\ \A i \in 1 .. Len(u) : m[i] = IF i <= n THEN i ELSE i + l
  BY <1>1, <1>3, <1>4
<1> HIDE DEF m
<1>6. ASSUME NEW i \in 1 .. Len(u) PROVE u[i] = s[m[i]]
  <2>1. CASE i <= n
    BY <1>1, <1>3, <1>4, <1>5, <2>1
  <2>2. CASE ~(i <= n)
    <3> DEFINE k == i + l
    <3>1. /\ m[i] = k /\ k \in 1 .. n + (l + Len(z)) /\ ~(k <= n)
          /\ k - n \in 1 .. l + Len(z) /\ ~(k - n <= l) /\ k - n - l = i - n
      BY <1>1, <1>4, <1>5, <2>2
    <3> HIDE DEF k
    <3>2. s[k] = (y \o z)[k - n]
      BY <1>3, <3>1
    <3>3. (y \o z)[k - n] = z[i - n]
      <4> DEFINE q == k - n
      <4>1. q \in 1 .. l + Len(z) /\ ~(q <= l) /\ q - l = i - n
        BY <3>1
      <4> HIDE DEF q
      <4>2. (y \o z)[q] = z[q - l]
        BY <1>2, <4>1
      <4> QED BY <4>1, <4>2 DEF q
    <3> QED BY <1>4, <2>2, <3>1, <3>2, <3>3
  <2> QED BY <2>1, <2>2
<1>7. \A i, j \in 1 .. Len(u) : i < j => m[i] < m[j]
  BY <1>1, <1>4, <1>5
<1>8. Ascends(s, a, t)
  BY DEF s
<1>9. Ascends(u, a, t)
  BY <1>3, <1>4, <1>5, <1>6, <1>7, <1>8, Thinned
<1> QED BY <1>9 DEF u

\* Bytes move from one place to the next, or are lost.
LEMMA MovesInOrder ==
  ASSUME InOrder, UNCHANGED <<d, sent, hand, mailboxes, got>>,
         readMailbox' = readMailbox \/ ~readMailbox'.ok,
         Stream' # <<>> => Stream # <<>>,
         \A a \in Nat : Ascends(Stream, a, sent) => Ascends(Stream', a, sent)
  PROVE  InOrder'
<1>1. PICK b, c, e \in Nat : Placed(b, c, e)
  BY DEF InOrder
<1>2. Incoming(b)'
  <2>1. PICK a \in b .. Len(sent) :
          /\ Ascends(Stream, a, sent)
          /\ \A v \in Range(d.out) : IsCrc(v) => \E k \in b + 1 .. a : CrcOf(v, sent[k])
    BY <1>1 DEF Placed, Incoming
  <2>2. a \in Nat
    BY <2>1
  <2> QED BY <2>1, <2>2 DEF Incoming
<1>3. Placed(b, c, e)'
  <2>1. Sits(readMailbox, c, b)' /\ Sits(hand, e, c)'
    BY <1>1 DEF Placed, Sits, check
  <2>2. Handled(e)'
    <3>1. PICK from \in [1 .. Len(got) -> 1 .. e], last \in [Channel -> 0 .. e] : ReadUpTo(from, last, e)
      BY <1>1 DEF Placed, Handled
    <3>2. ReadUpTo(from, last, e)'
      BY <3>1 DEF ReadUpTo
    <3> QED BY <3>2 DEF Handled
  <2> QED BY <1>1, <1>2, <2>1, <2>2 DEF Placed
<1> QED BY <1>1, <1>3 DEF InOrder

\* Bytes are received, or lost.
LEMMA ReceiveInOrder ==
  ASSUME Types, InOrder, UNCHANGED <<muxVars, sent>>, NEW n \in 1 .. MaxChunk, Receive(n)
  PROVE  InOrder'
<1> DEFINE p == SubSeq(wire, 1, n)
           r == SubSeq(wire, n + 1, Len(wire))
<1>1. chunk \in Seq(Byte) /\ lower \in Seq(Byte) /\ wire \in Seq(Byte)
  BY DEF Types
<1>2. p \in Seq(Byte) /\ r \in Seq(Byte) /\ p \o r = wire
  <2>1. n \in Nat \ {0} /\ n <= Len(wire)
    BY DeviceAssumption DEF Receive
  <2> QED BY <1>1, <2>1, WireParts
<1>3. /\ UNCHANGED <<d, sent, readMailbox, hand, mailboxes, got, chunk>> /\ wire' = r
      /\ IF free = 0 THEN lower' = lower ELSE lower' = p
  BY DEF Receive, muxVars
<1> HIDE DEF p, r
<1>4. \A a \in Nat : Ascends(Stream, a, sent) => Ascends(Stream', a, sent)
  <2> SUFFICES ASSUME NEW a \in Nat, Ascends(Stream, a, sent) PROVE Ascends(Stream', a, sent)
    OBVIOUS
  <2>1. CASE free = 0
    <3> DEFINE x == chunk \o lower
    <3>1. x \in Seq(Byte) /\ p \o r \in Seq(Byte)
      BY <1>1, <1>2, ConcatProperties
    <3>2. Stream = x \o (p \o r)
      BY <1>1, <1>2, Associative DEF Stream
    <3>3. Stream' = x \o r
      <4>1. Stream' = chunk \o (lower \o r)
        BY <1>3, <2>1 DEF Stream
      <4>2. chunk \o (lower \o r) = (chunk \o lower) \o r
        BY <1>1, <1>2, Associative, ZenonT(60)
      <4> QED BY <4>1, <4>2
    <3> HIDE DEF x
    <3>4. Ascends(x \o (p \o r), a, sent)
      BY <3>2
    <3>5. Ascends(x \o r, a, sent)
      BY <1>2, <3>1, <3>4, PartLost
    <3> QED BY <3>3, <3>5
  <2>2. CASE free # 0
    <3>1. Stream' = chunk \o wire
      BY <1>2, <1>3, <2>2 DEF Stream
    <3>2. Ascends(chunk \o (lower \o wire), a, sent)
      BY DEF Stream
    <3>3. Ascends(chunk \o wire, a, sent)
      BY <1>1, <3>2, PartLost
    <3> QED BY <3>1, <3>3
  <2> QED BY <2>1, <2>2
<1>5. Stream' # <<>> => Stream # <<>>
  <2>1. wire # <<>>
    <3>1. n <= Len(wire) /\ n \in 1 .. MaxChunk /\ MaxChunk \in Nat
      BY DeviceAssumption, SizeAssumption DEF Receive
    <3> QED BY <3>1
  <2>2. lower \o wire \in Seq(Byte) /\ Len(lower \o wire) = Len(lower) + Len(wire)
    BY <1>1, ConcatProperties
  <2>3. Len(Stream) = Len(chunk) + (Len(lower) + Len(wire))
    BY <1>1, <2>2, ConcatProperties DEF Stream
  <2>4. Len(wire) \in Nat \ {0} /\ Len(lower) \in Nat /\ Len(chunk) \in Nat
    BY <1>1, <2>1
  <2> QED BY <2>3, <2>4
<1> QED BY <1>3, <1>4, <1>5, MovesInOrder

\* A read fails: a chunk is lost, and perhaps a packet that nobody has read.
LEMMA ReadFailsInOrder ==
  ASSUME Types, InOrder, UNCHANGED <<muxVars, sent>>, ReadFails
  PROVE  InOrder'
<1>1. chunk \in Seq(Byte) /\ lower \in Seq(Byte) /\ wire \in Seq(Byte)
  BY DEF Types
<1>2. /\ UNCHANGED <<d, sent, hand, mailboxes, got, chunk, wire>> /\ lower' = <<>>
      /\ ~readMailbox'.ok
  BY Messages DEF ReadFails, muxVars
<1>3. Stream' = chunk \o wire
  <2>1. <<>> \o wire = wire
    BY <1>1, ConcatEmptySeq
  <2> QED BY <1>2, <2>1 DEF Stream
<1>4. \A a \in Nat : Ascends(Stream, a, sent) => Ascends(Stream', a, sent)
  <2> SUFFICES ASSUME NEW a \in Nat, Ascends(Stream, a, sent) PROVE Ascends(Stream', a, sent)
    OBVIOUS
  <2>1. Ascends(chunk \o (lower \o wire), a, sent)
    BY DEF Stream
  <2>2. Ascends(chunk \o wire, a, sent)
    BY <1>1, <2>1, PartLost
  <2> QED BY <1>3, <2>2, <1>2
<1>5. Stream' # <<>> => Stream # <<>>
  <2>1. /\ lower \o wire \in Seq(Byte) /\ Len(lower \o wire) = Len(lower) + Len(wire)
        /\ chunk \o wire \in Seq(Byte) /\ Len(chunk \o wire) = Len(chunk) + Len(wire)
    BY <1>1, ConcatProperties
  <2>2. Stream \in Seq(Byte) /\ Len(Stream) = Len(chunk) + (Len(lower) + Len(wire))
    BY <1>1, <2>1, ConcatProperties DEF Stream
  <2>3. Len(wire) \in Nat /\ Len(lower) \in Nat /\ Len(chunk) \in Nat
    BY <1>1
  <2>4. ASSUME NEW i \in Nat, NEW j \in Nat, NEW k \in Nat, i + (j + k) = 0 PROVE i + k = 0
    BY <2>4
  <2>5. Len(Stream) = 0 => Len(chunk \o wire) = 0
    <3> DEFINE i == Len(chunk)
               j == Len(lower)
               k == Len(wire)
    <3>1. i \in Nat /\ j \in Nat /\ k \in Nat /\ Len(Stream) = i + (j + k)
          /\ Len(chunk \o wire) = i + k
      BY <2>1, <2>2, <2>3
    <3> HIDE DEF i, j, k
    <3> QED BY <2>4, <3>1
  <2> QED BY <1>3, <2>1, <2>2, <2>5
<1> QED BY <1>2, <1>4, <1>5, MovesInOrder

\* The decoder takes a byte.
LEMMA ConsumeInOrder ==
  ASSUME Types, InOrder, UNCHANGED <<muxVars, sent>>, Consume
  PROVE  InOrder'
<1> DEFINE h == Head(chunk)
           z == lower \o wire
           y == Tail(chunk)
           rest == y \o z
<1>1. PICK b, c, e \in Nat : Placed(b, c, e)
  BY DEF InOrder
<1>2. PICK a \in b .. Len(sent) :
        /\ Ascends(Stream, a, sent)
        /\ \A v \in Range(d.out) : IsCrc(v) => \E k \in b + 1 .. a : CrcOf(v, sent[k])
  BY <1>1 DEF Placed, Incoming
<1>3. /\ chunk \in Seq(Byte) /\ chunk # <<>> /\ lower \in Seq(Byte) /\ wire \in Seq(Byte)
      /\ sent \in Seq(Writable) /\ WellFormed(d) /\ WellFormed(d')
      /\ h \in Byte /\ d' = consume(d, h, free > 0)
  BY ConsumeCall DEF Types
<1>4. MadeOf(d', d, h)
  <2>1. (free > 0) \in BOOLEAN
    OBVIOUS
  <2> HIDE DEF h
  <2> QED BY <1>3, <2>1, ConsumeMakes
<1>5. y \in Seq(Byte) /\ z \in Seq(Byte) /\ rest \in Seq(Byte)
  BY <1>3, HeadTailProperties, ConcatProperties
<1>6. Stream = <<h>> \o rest
  <2>1. <<>> \in Seq(Byte) /\ <<>> \o Stream = Stream /\ Append(<<>>, h) = <<h>>
    BY <1>3, <1>5, ConcatProperties, ConcatEmptySeq DEF Stream
  <2>2. <<>> \o (chunk \o z) = Append(<<>>, h) \o rest
    BY <1>3, <1>5, <2>1, HeadMoves
  <2> QED BY <2>1, <2>2 DEF Stream
<1> HIDE DEF rest, z, y, h
<1>7. /\ Stream \in Seq(Byte) /\ Len(Stream) = Len(rest) + 1 /\ Stream[1] = h
      /\ \A i \in 1 .. Len(rest) : rest[i] = Stream[i + 1]
  <2>1. <<h>> \in Seq(Byte) /\ Len(<<h>>) = 1 /\ <<h>>[1] = h
    BY <1>3
  <2>2. /\ Stream \in Seq(Byte) /\ Len(Stream) = 1 + Len(rest)
        /\ \A i \in 1 .. 1 + Len(rest) : Stream[i] = IF i <= 1 THEN <<h>>[i] ELSE rest[i - 1]
    BY <1>5, <1>6, <2>1, ConcatProperties
  <2>3. Len(rest) \in Nat
    BY <1>5
  <2>4. ASSUME NEW i \in 1 .. Len(rest) PROVE rest[i] = Stream[i + 1]
    <3>1. i + 1 \in 1 .. 1 + Len(rest) /\ ~(i + 1 <= 1) /\ (i + 1) - 1 = i
      BY <2>3
    <3> QED BY <2>2, <3>1
  <2> QED BY <2>1, <2>2, <2>3, <2>4
<1>8. PICK n \in a .. Len(sent) :
        /\ Ascends(rest, n, sent)
        /\ IsCrc(Stream[1]) => \E k \in a + 1 .. n : CrcOf(Stream[1], sent[k])
  <2>1. a \in 0 .. Len(sent)
    BY <1>1, <1>2 DEF Placed
  <2> QED BY <1>2, <1>3, <1>5, <1>7, <2>1, FirstTaken
<1>9. /\ b \in Nat /\ a \in Nat /\ n \in Nat /\ Len(sent) \in Nat
      /\ c <= b /\ b <= a /\ a <= n /\ n <= Len(sent)
  BY <1>1, <1>2, <1>3, <1>8 DEF Placed
<1>10. sent # <<>>
  <2>1. Stream # <<>>
    BY <1>5, <1>7
  <2> QED BY <2>1 DEF InOrder
<1>11. ~IsCrc(0)
  <2>1. sent[1] \in Writable
    BY <1>3, <1>10
  <2> QED BY <2>1, FrameCrc
<1>12. ASSUME NEW v \in Range(d'.out), IsCrc(v) PROVE \E k \in b + 1 .. n : CrcOf(v, sent[k])
  <2>1. v \in Range(d.out) \/ v = h
    BY <1>4, <1>11, <1>12 DEF MadeOf
  <2>2. CASE v \in Range(d.out)
    BY <1>2, <1>9, <1>12, <2>2
  <2>3. CASE v = h
    BY <1>7, <1>8, <1>9, <1>12, <2>3
  <2> QED BY <2>1, <2>2, <2>3
<1>13. /\ UNCHANGED <<sent, got, hand, mailboxes, lower, wire>>
       /\ Sits(hand, e, c)' /\ Handled(e)'
  <2>1. UNCHANGED <<sent, got, hand, mailboxes, lower, wire>>
    BY DEF Consume, muxVars
  <2>2. Sits(hand, e, c)'
    BY <1>1, <2>1 DEF Placed, Sits, check
  <2>3. PICK from \in [1 .. Len(got) -> 1 .. e], last \in [Channel -> 0 .. e] : ReadUpTo(from, last, e)
    BY <1>1 DEF Placed, Handled
  <2>4. ReadUpTo(from, last, e)'
    BY <2>1, <2>3 DEF ReadUpTo
  <2> QED BY <2>1, <2>2, <2>4 DEF Handled
<1>14. Ascends(Stream', n, sent)
  <2>1. CASE chunk' = y
    <3>1. Stream' = rest
      BY <1>13, <2>1 DEF Stream, rest, z
    <3> QED BY <1>8, <3>1
  <2>2. CASE chunk' = <<>>
    <3>1. Stream' = <<>> \o z
      BY <1>13, <2>2 DEF Stream, z
    <3>2. <<>> \in Seq(Byte) /\ <<>> \o (y \o z) = rest
      BY <1>5, ConcatEmptySeq DEF rest
    <3>3. Ascends(<<>> \o z, n, sent)
      BY <1>5, <1>8, <3>2, PartLost
    <3> QED BY <3>1, <3>3
  <2> QED BY <2>1, <2>2 DEF Consume, y
<1>15. got' \in Seq(Writable) /\ (Stream' # <<>> => sent' # <<>>)
  BY <1>10, <1>13 DEF InOrder
<1>16. CASE readMailbox' = readMailbox \/ ~readMailbox'.ok
  <2>1. Incoming(b)'
    BY <1>9, <1>12, <1>13, <1>14 DEF Incoming
  <2>2. Sits(readMailbox, c, b)'
    BY <1>1, <1>13, <1>16 DEF Placed, Sits, check
  <2>3. Placed(b, c, e)'
    BY <1>1, <1>13, <2>1, <2>2 DEF Placed
  <2> QED BY <1>1, <1>15, <2>3 DEF InOrder
<1>17. CASE d'.packet # <<>> /\ readMailbox' = Packet(d'.packet)
  <2> DEFINE p == d'.packet
  <2>1. p \in Seq(Byte) /\ Range(p) \subseteq Range(d.out) /\ d'.out = <<>>
    BY <1>3, <1>4, <1>17 DEF MadeOf, WellFormed, InBuffer, Decoder
  <2>2. readMailbox'.ok /\ readMailbox'.packet = p
    BY <1>17 DEF Packet
  <2> HIDE DEF p
  <2>3. ASSUME check(p) PROVE \E k \in c + 1 .. n : Front(p) = Header(sent[k])
    <3>1. Len(p) >= 2 /\ Front(p) \in DOMAIN Crc /\ Crc[Front(p)] = Last(p)
      BY <2>3 DEF check
    <3>2. Last(p) \in Range(p)
      BY <2>1, <3>1 DEF Last, Range
    <3>3. PICK k \in b + 1 .. a : CrcOf(Last(p), sent[k])
      BY <1>2, <2>1, <3>1, <3>2 DEF IsCrc
    <3>4. Front(p) = Header(sent[k])
      BY <3>1, <3>3 DEF CrcOf
    <3> QED BY <1>1, <1>9, <3>3, <3>4
  <2>4. Sits(readMailbox, c, n)'
    BY <1>13, <2>1, <2>2, <2>3 DEF Sits, check
  <2>5. Incoming(n)'
    <3>1. Range(d'.out) = {}
      BY <2>1 DEF Range
    <3> QED BY <1>9, <1>13, <1>14, <3>1 DEF Incoming
  <2>6. Placed(n, c, e)'
    BY <1>1, <1>9, <1>13, <2>4, <2>5 DEF Placed
  <2> QED BY <1>1, <1>9, <1>15, <2>6 DEF InOrder
<1>18. \/ readMailbox' = readMailbox \/ ~readMailbox'.ok
       \/ d'.packet # <<>> /\ readMailbox' = Packet(d'.packet)
  BY Messages DEF Consume, reportError, packetFinished
<1> QED BY <1>16, <1>17, <1>18

\* What is under way stays so when bytes, decoder and packets sent do.
LEMMA IncomingStays ==
  ASSUME NEW b \in Nat, Incoming(b), UNCHANGED <<wire, lower, chunk, d, sent>>
  PROVE  Incoming(b)'
<1>1. Stream' = Stream
  BY DEF Stream
<1> QED BY <1>1 DEF Incoming

\* The multiplexer takes a packet from the device.
LEMMA MuxReadInOrder ==
  ASSUME Types, InOrder, MuxRead
  PROVE  InOrder'
<1>1. PICK b, c, e \in Nat : Placed(b, c, e)
  BY DEF InOrder
<1>2. /\ hand' = readMailbox /\ readMailbox' = None
      /\ UNCHANGED <<wire, lower, chunk, d, sent, got, mailboxes>>
  BY DEF MuxRead, read
<1>3. Incoming(b)'
  BY <1>1, <1>2, IncomingStays DEF Placed
<1>4. Sits(readMailbox, b, b)'
  BY <1>2, Messages DEF Sits
<1>5. Sits(hand, e, b)'
  <2>1. Sits(readMailbox, c, b) /\ c \in Nat /\ e \in Nat /\ e <= c
    BY <1>1 DEF Placed
  <2>2. ASSUME readMailbox.ok, check(readMailbox.packet)
        PROVE  \E k \in e + 1 .. b : Front(readMailbox.packet) = Header(sent[k])
    BY <1>1, <2>1, <2>2 DEF Sits
  <2> QED BY <1>2, <2>1, <2>2 DEF Sits, check
<1>6. Handled(e)'
  <2>1. PICK from \in [1 .. Len(got) -> 1 .. e], last \in [Channel -> 0 .. e] : ReadUpTo(from, last, e)
    BY <1>1 DEF Placed, Handled
  <2>2. ReadUpTo(from, last, e)'
    BY <1>2, <2>1 DEF ReadUpTo
  <2> QED BY <1>2, <2>2 DEF Handled
<1>7. Placed(b, b, e)'
  BY <1>1, <1>2, <1>3, <1>4, <1>5, <1>6 DEF Placed
<1>8. (Stream' # <<>> => sent' # <<>>) /\ got' \in Seq(Writable)
  BY <1>2 DEF InOrder, Stream
<1> QED BY <1>1, <1>7, <1>8 DEF InOrder

\* Channel and payload of a packet.
LEMMA Unpacked ==
  ASSUME NEW p \in Seq(Byte), Len(p) >= 2, NEW x \in Writable, Front(p) = Header(x)
  PROVE  x = <<Head(p), payload(p)>>
<1> DEFINE c == x[1]
           q == x[2]
           f == Front(p)
           t == Tail(p)
<1>1. c \in Byte /\ q \in Seq(Byte) /\ x = <<c, q>>
  <2>1. x \in (0 .. PeerChannels - 1) \X Payload
    BY DEF Writable
  <2> QED BY <2>1, MuxAssumption, KAssumption DEF Byte
<1>2. Len(f) = Len(p) - 1 /\ \A i \in 1 .. Len(p) - 1 : f[i] = p[i]
  BY DEF Front
<1>3. f = <<c>> \o q
  BY DEF Header
<1> HIDE DEF c, q
<1>4. /\ Len(f) = 1 + Len(q) /\ Len(q) \in Nat /\ f[1] = c
      /\ \A i \in 1 .. Len(q) : f[i + 1] = q[i]
  <2>1. <<c>> \in Seq(Byte) /\ Len(<<c>>) = 1 /\ <<c>>[1] = c
    BY <1>1
  <2> HIDE DEF f
  <2>2. /\ Len(f) = 1 + Len(q) /\ Len(q) \in Nat
        /\ \A i \in 1 .. 1 + Len(q) : f[i] = IF i <= 1 THEN <<c>>[i] ELSE q[i - 1]
    BY <1>1, <1>3, <2>1, ConcatProperties
  <2>3. ASSUME NEW i \in 1 .. Len(q) PROVE f[i + 1] = q[i]
    <3>1. i + 1 \in 1 .. 1 + Len(q) /\ ~(i + 1 <= 1) /\ (i + 1) - 1 = i
      BY <2>2
    <3> QED BY <2>2, <3>1
  <2> QED BY <2>1, <2>2, <2>3
<1>5. Head(p) = c
  BY <1>2, <1>4
<1>6. t \in Seq(Byte) /\ Len(t) = Len(p) - 1 /\ \A i \in 1 .. Len(p) - 1 : t[i] = p[i + 1]
  OBVIOUS
<1> HIDE DEF f, t
<1>7. payload(p) \in Seq(Byte) /\ Len(payload(p)) = Len(q) /\ \A i \in 1 .. Len(q) : payload(p)[i] = t[i]
  <2>1. payload(p) = SubSeq(t, 1, Len(t) - 1)
    BY DEF payload, Front, t
  <2>2. Len(t) \in Nat /\ Len(t) - 1 = Len(q)
    BY <1>2, <1>4, <1>6
  <2> QED BY <1>4, <1>6, <2>1, <2>2
<1>8. ASSUME NEW i \in 1 .. Len(q) PROVE payload(p)[i] = q[i]
  <2>1. i \in 1 .. Len(p) - 1 /\ i + 1 \in 1 .. Len(p) - 1
    BY <1>2, <1>4
  <2>2. payload(p)[i] = t[i] /\ t[i] = p[i + 1]
    BY <1>6, <1>7, <2>1
  <2>3. f[i + 1] = p[i + 1] /\ f[i + 1] = q[i]
    BY <1>2, <1>4, <2>1
  <2> QED BY <2>2, <2>3
<1>9. payload(p) = q
  BY <1>1, <1>7, <1>8, SeqEqual
<1> QED BY <1>1, <1>5, <1>9

\* It leaves it in the mailbox of its channel.
LEMMA DeliverInOrder ==
  ASSUME Types, InOrder, Deliver
  PROVE  InOrder'
<1> DEFINE p == hand.packet
           n == Head(p)
<1>1. PICK b, c, e \in Nat : Placed(b, c, e)
  BY DEF InOrder
<1>2. /\ hand' = None /\ mailboxes' = [mailboxes EXCEPT ![n] = Packet(payload(p))]
      /\ UNCHANGED <<wire, lower, chunk, d, sent, got, readMailbox>>
      /\ hand.ok /\ check(p) /\ n \in Channel
  BY DEF Deliver, Accepted
<1>3. PICK k \in e + 1 .. c : Front(p) = Header(sent[k])
  BY <1>1, <1>2 DEF Placed, Sits
<1>4. e \in Nat /\ c \in Nat /\ e <= c /\ c <= Len(sent) /\ k \in 1 .. Len(sent) /\ sent[k] \in Writable
  BY <1>1, <1>3 DEF Placed, Types
<1>5. sent[k] = <<n, payload(p)>>
  <2>1. p \in Seq(Byte) /\ Len(p) >= 2
    BY <1>1, <1>2 DEF Placed, Sits, check
  <2> QED BY <1>3, <1>4, <2>1, Unpacked
<1>6. Incoming(b)' /\ Sits(readMailbox, c, b)' /\ Sits(hand, c, c)'
  BY <1>1, <1>2, IncomingStays, Messages DEF Placed, Sits, check
<1> HIDE DEF n, p
<1>7. Handled(c)'
  <2>1. PICK from \in [1 .. Len(got) -> 1 .. e], last \in [Channel -> 0 .. e] : ReadUpTo(from, last, e)
    BY <1>1 DEF Placed, Handled
  <2>2. from \in [1 .. Len(got) -> 1 .. c] /\ last \in [Channel -> 0 .. c]
    BY <1>4
  <2>3. ASSUME NEW a \in Channel, mailboxes'[a].ok
        PROVE  \E j \in last[a] + 1 .. c : sent'[j] = <<a, mailboxes'[a].packet>>
    <3>1. CASE a = n
      <4>1. mailboxes'[a].packet = payload(p)
        BY <1>2, <3>1 DEF Types, Packet
      <4>2. k \in last[a] + 1 .. c
        BY <1>3, <1>4
      <4> QED BY <1>2, <1>5, <3>1, <4>1, <4>2
    <3>2. CASE a # n
      <4>1. mailboxes'[a] = mailboxes[a]
        BY <1>2, <3>2 DEF Types
      <4>2. PICK j \in last[a] + 1 .. e : sent[j] = <<a, mailboxes[a].packet>>
        BY <2>1, <2>3, <4>1 DEF ReadUpTo
      <4>3. j \in last[a] + 1 .. c
        BY <1>4, <4>2
      <4> QED BY <1>2, <4>1, <4>2, <4>3
    <3> QED BY <3>1, <3>2
  <2>4. ReadUpTo(from, last, c)'
    BY <1>2, <2>1, <2>3 DEF ReadUpTo
  <2> QED BY <1>2, <2>2, <2>4 DEF Handled
<1>8. Placed(b, c, c)'
  BY <1>1, <1>2, <1>4, <1>6, <1>7 DEF Placed
<1>9. (Stream' # <<>> => sent' # <<>>) /\ got' \in Seq(Writable)
  BY <1>2 DEF InOrder, Stream
<1> QED BY <1>1, <1>8, <1>9 DEF InOrder

\* It drops it.
LEMMA RefuseInOrder ==
  ASSUME Types, InOrder, Refuse
  PROVE  InOrder'
<1>1. PICK b, c, e \in Nat : Placed(b, c, e)
  BY DEF InOrder
<1>2. hand' = None /\ UNCHANGED <<wire, lower, chunk, d, sent, got, readMailbox, mailboxes>>
  BY DEF Refuse
<1>3. Incoming(b)' /\ Sits(readMailbox, c, b)' /\ Sits(hand, e, c)'
  BY <1>1, <1>2, IncomingStays, Messages DEF Placed, Sits, check
<1>4. Handled(e)'
  <2>1. PICK from \in [1 .. Len(got) -> 1 .. e], last \in [Channel -> 0 .. e] : ReadUpTo(from, last, e)
    BY <1>1 DEF Placed, Handled
  <2>2. ReadUpTo(from, last, e)'
    BY <1>2, <2>1 DEF ReadUpTo
  <2> QED BY <1>2, <2>2 DEF Handled
<1>5. Placed(b, c, e)'
  BY <1>1, <1>2, <1>3, <1>4 DEF Placed
<1>6. (Stream' # <<>> => sent' # <<>>) /\ got' \in Seq(Writable)
  BY <1>2 DEF InOrder, Stream
<1> QED BY <1>1, <1>5, <1>6 DEF InOrder

\* A client reads.
LEMMA ReadInOrder ==
  ASSUME Types, InOrder, NEW n \in Channel, Read(n)
  PROVE  InOrder'
<1>1. PICK b, c, e \in Nat : Placed(b, c, e)
  BY DEF InOrder
<1> DEFINE x == <<n, mailboxes[n].packet>>
           l == Len(got)
<1>2. /\ got' = Append(got, x) /\ mailboxes' = [mailboxes EXCEPT ![n] = None]
      /\ UNCHANGED <<wire, lower, chunk, d, sent, hand, readMailbox>>
  BY DEF Read, deviceVars
<1>3. mailboxes[n].ok
  BY DEF Read, Types, Delivery
<1>4. PICK from \in [1 .. l -> 1 .. e], last \in [Channel -> 0 .. e] : ReadUpTo(from, last, e)
  BY <1>1 DEF Placed, Handled
<1>5. PICK k \in last[n] + 1 .. e : sent[k] = x
  BY <1>3, <1>4 DEF ReadUpTo
<1>6. /\ e \in Nat /\ e <= Len(sent) /\ last[n] \in Nat /\ k \in 1 .. e /\ last[n] < k
      /\ sent[k] \in Writable
  <2>1. sent \in Seq(Writable) /\ Len(sent) \in Nat
    BY DEF Types
  <2>2. e \in Nat /\ e <= Len(sent)
    BY <1>1, <2>1 DEF Placed
  <2>3. last[n] \in 0 .. e
    OBVIOUS
  <2>4. k \in 1 .. e /\ last[n] < k
    BY <1>5, <2>2, <2>3
  <2> QED BY <2>1, <2>2, <2>3, <2>4
<1>7. x \in Writable /\ x[1] = n
  BY <1>5, <1>6
<1> HIDE DEF x
<1>8. /\ got' \in Seq(Writable) /\ Len(got') = l + 1 /\ l \in Nat /\ got'[l + 1] = x
      /\ \A i \in 1 .. l : got'[i] = got[i]
  BY <1>2, <1>7, AppendProperties DEF InOrder
<1> HIDE DEF l
<1>9. PICK from_ \in [1 .. l + 1 -> 1 .. e], last_ \in [Channel -> 0 .. e] :
        /\ from_[l + 1] = k /\ \A i \in 1 .. l : from_[i] = from[i]
        /\ last_[n] = k /\ \A a \in Channel : a # n => last_[a] = last[a]
  <2> DEFINE f == [i \in 1 .. l + 1 |-> IF i <= l THEN from[i] ELSE k]
             g == [last EXCEPT ![n] = k]
  <2>1. /\ f \in [1 .. l + 1 -> 1 .. e] /\ g \in [Channel -> 0 .. e]
        /\ f[l + 1] = k /\ \A i \in 1 .. l : f[i] = from[i]
        /\ g[n] = k /\ \A a \in Channel : a # n => g[a] = last[a]
    BY <1>6, <1>8 DEF l
  <2> QED BY <2>1
<1>10. ASSUME NEW i \in 1 .. Len(got')
       PROVE  got'[i] = sent[from_[i]] /\ got'[i][1] \in Channel /\ from_[i] <= last_[got'[i][1]]
  <2>1. CASE i = l + 1
    BY <1>5, <1>6, <1>7, <1>8, <1>9, <2>1
  <2>2. CASE i # l + 1
    <3>1. i \in 1 .. l
      BY <1>8, <2>2
    <3>2. got[i] = sent[from[i]] /\ got[i][1] \in Channel /\ from[i] <= last[got[i][1]]
      BY <1>4, <3>1 DEF ReadUpTo, l
    <3>3. from[i] <= last_[got[i][1]]
      <4>1. CASE got[i][1] = n
        <5>1. from[i] <= last[n] /\ from[i] \in Nat
          BY <1>4, <1>6, <3>1, <3>2, <4>1
        <5> QED BY <1>6, <1>9, <4>1, <5>1
      <4>2. CASE got[i][1] # n
        BY <1>9, <3>2, <4>2
      <4> QED BY <4>1, <4>2
    <3> QED BY <1>8, <1>9, <3>1, <3>2, <3>3
  <2> QED BY <2>1, <2>2
<1>11. ASSUME NEW i \in 1 .. Len(got'), NEW j \in 1 .. Len(got'), i < j, got'[i][1] = got'[j][1]
       PROVE  from_[i] < from_[j]
  <2>1. i \in 1 .. l /\ got'[i] = got[i] /\ from_[i] = from[i]
    BY <1>8, <1>9, <1>11
  <2>2. CASE j = l + 1
    <3>0. got[i][1] = n
      BY <1>7, <1>8, <1>11, <2>1, <2>2
    <3>1. from[i] <= last[n] /\ from[i] \in Nat
      <4>1. from[i] <= last[got[i][1]]
        BY <1>4, <2>1 DEF ReadUpTo, l
      <4> QED BY <1>6, <2>1, <3>0, <4>1
    <3> QED BY <1>6, <1>9, <2>1, <2>2, <3>1
  <2>3. CASE j # l + 1
    <3>1. j \in 1 .. l /\ got'[j] = got[j] /\ from_[j] = from[j]
      BY <1>8, <1>9, <2>3
    <3> QED BY <1>4, <1>11, <2>1, <3>1 DEF ReadUpTo, l
  <2> QED BY <2>2, <2>3
<1>12. ASSUME NEW a \in Channel, mailboxes'[a].ok
       PROVE  \E j \in last_[a] + 1 .. e : sent[j] = <<a, mailboxes'[a].packet>>
  <2>1. a # n
    BY <1>2, <1>12, Messages DEF Types
  <2>2. mailboxes'[a] = mailboxes[a]
    BY <1>2, <2>1 DEF Types
  <2>3. last_[a] = last[a]
    BY <1>9, <2>1
  <2>4. \E j \in last[a] + 1 .. e : sent[j] = <<a, mailboxes[a].packet>>
    BY <1>4, <1>12, <2>2 DEF ReadUpTo
  <2> QED BY <2>2, <2>3, <2>4
<1>13. Handled(e)'
  <2>1. ReadUpTo(from_, last_, e)'
    BY <1>2, <1>10, <1>11, <1>12 DEF ReadUpTo
  <2> QED BY <1>8, <2>1 DEF Handled
<1>14. Incoming(b)' /\ Sits(readMailbox, c, b)' /\ Sits(hand, e, c)'
  BY <1>1, <1>2, IncomingStays DEF Placed, Sits, check
<1>15. Placed(b, c, e)'
  BY <1>1, <1>2, <1>13, <1>14 DEF Placed
<1>16. Stream' # <<>> => sent' # <<>>
  BY <1>2 DEF InOrder, Stream
<1> QED BY <1>1, <1>8, <1>15, <1>16 DEF InOrder

\* A packet is written.
LEMMA WriteInOrder ==
  ASSUME Types, InOrder, NEW n \in 0 .. PeerChannels - 1, NEW p \in Payload, Write(n, p)
  PROVE  InOrder'
<1> DEFINE x == <<n, p>>
           f == Frame(x)
<1>1. PICK b, c, e \in Nat : Placed(b, c, e)
  BY DEF InOrder
<1>2. /\ x \in Writable /\ sent' = Append(sent, x) /\ wire' = wire \o f
      /\ UNCHANGED <<chunk, lower, d, readMailbox, hand, mailboxes, got>>
  <2>1. x \in (0 .. PeerChannels - 1) \X Payload /\ x[1] = n /\ x[2] = p
    OBVIOUS
  <2>2. Packed(x) = appendCrc(<<n>> \o p)
    BY <2>1 DEF Packed
  <2> HIDE DEF x
  <2> QED BY <2>1, <2>2 DEF Write, write, Writable, Frame, x, muxVars
<1>3. chunk \in Seq(Byte) /\ lower \in Seq(Byte) /\ wire \in Seq(Byte) /\ f \in Seq(Byte)
  BY <1>2, FrameCrc DEF Types
<1> HIDE DEF x
<1>4. /\ Len(sent') = Len(sent) + 1 /\ Len(sent) \in Nat /\ sent \in Seq(Writable) /\ sent' # <<>>
      /\ \A i \in 1 .. Len(sent) : sent'[i] = sent[i]
  BY <1>2, AppendProperties DEF Types
<1>5. b \in Nat /\ c \in Nat /\ e \in Nat /\ e <= c /\ c <= b /\ b <= Len(sent)
  BY <1>1, <1>4 DEF Placed
<1>6. Stream' = Stream \o f /\ Stream \in Seq(Byte)
  <2> HIDE DEF f
  <2>1. lower \o wire \in Seq(Byte) /\ lower \o (wire \o f) = (lower \o wire) \o f
    BY <1>3, Associative, ConcatProperties
  <2> DEFINE z == lower \o wire
  <2>2. z \in Seq(Byte)
    BY <2>1
  <2> HIDE DEF z
  <2>3. chunk \o (z \o f) = (chunk \o z) \o f /\ chunk \o z \in Seq(Byte)
    BY <1>3, <2>2, Associative, ConcatProperties
  <2> QED BY <1>2, <2>1, <2>3 DEF Stream, z
<1>7. Incoming(b)'
  <2>1. PICK a \in b .. Len(sent) :
          /\ Ascends(Stream, a, sent)
          /\ \A v \in Range(d.out) : IsCrc(v) => \E k \in b + 1 .. a : CrcOf(v, sent[k])
    BY <1>1 DEF Placed, Incoming
  <2>2. a \in 0 .. Len(sent)
    BY <1>5
  <2>3. Ascends(Stream', a, sent')
    BY <1>2, <1>4, <1>6, <2>1, <2>2, FrameAdded
  <2>4. ASSUME NEW v \in Range(d'.out), IsCrc(v) PROVE \E k \in b + 1 .. a : CrcOf(v, sent'[k])
    <3>1. PICK k \in b + 1 .. a : CrcOf(v, sent[k])
      BY <1>2, <2>1, <2>4
    <3>2. k \in 1 .. Len(sent)
      BY <1>5, <2>2
    <3> QED BY <1>4, <3>1, <3>2
  <2>5. a \in b .. Len(sent')
    BY <1>4, <1>5
  <2> QED BY <2>3, <2>4, <2>5 DEF Incoming
<1>8. ASSUME NEW m, NEW l \in Nat, NEW h \in Nat, h <= Len(sent), Sits(m, l, h), m.ok, check(m.packet)
      PROVE  \E k \in l + 1 .. h : Front(m.packet) = Header(sent'[k])
  <2>1. PICK k \in l + 1 .. h : Front(m.packet) = Header(sent[k])
    BY <1>8 DEF Sits
  <2>2. k \in 1 .. Len(sent)
    BY <1>4, <1>8
  <2> QED BY <1>4, <2>1, <2>2
<1>9. Sits(readMailbox, c, b)'
  <2>1. Sits(readMailbox, c, b)
    BY <1>1 DEF Placed
  <2>2. readMailbox.ok /\ check(readMailbox.packet)
          => \E k \in c + 1 .. b : Front(readMailbox.packet) = Header(sent'[k])
    BY <1>5, <1>8, <2>1
  <2> QED BY <1>2, <2>1, <2>2 DEF Sits, check
<1>10. Sits(hand, e, c)'
  <2>1. Sits(hand, e, c) /\ c <= Len(sent)
    BY <1>1, <1>4, <1>5 DEF Placed
  <2>2. hand.ok /\ check(hand.packet) => \E k \in e + 1 .. c : Front(hand.packet) = Header(sent'[k])
    BY <1>5, <1>8, <2>1
  <2> QED BY <1>2, <2>1, <2>2 DEF Sits, check
<1>11. Handled(e)'
  <2>1. PICK from \in [1 .. Len(got) -> 1 .. e], last \in [Channel -> 0 .. e] : ReadUpTo(from, last, e)
    BY <1>1 DEF Placed, Handled
  <2>2. \A i \in 1 .. Len(got) : sent'[from[i]] = sent[from[i]]
    <3>1. ASSUME NEW i \in 1 .. Len(got) PROVE from[i] \in 1 .. Len(sent)
      BY <1>4, <1>5
    <3> QED BY <1>4, <3>1
  <2>3. ASSUME NEW a \in Channel, mailboxes[a].ok
        PROVE  \E k \in last[a] + 1 .. e : sent'[k] = <<a, mailboxes[a].packet>>
    <3>1. PICK k \in last[a] + 1 .. e : sent[k] = <<a, mailboxes[a].packet>>
      BY <2>1, <2>3 DEF ReadUpTo
    <3>2. last[a] \in 0 .. e
      OBVIOUS
    <3>3. k \in 1 .. Len(sent)
      BY <1>4, <1>5, <3>2
    <3> QED BY <1>4, <3>1, <3>3
  <2>4. ReadUpTo(from, last, e)'
    BY <1>2, <2>1, <2>2, <2>3 DEF ReadUpTo
  <2> QED BY <1>2, <2>4 DEF Handled
<1>12. Placed(b, c, e)'
  <2>1. b \in 0 .. Len(sent')
    BY <1>4, <1>5
  <2> QED BY <1>1, <1>7, <1>9, <1>10, <1>11, <2>1 DEF Placed
<1> QED BY <1>1, <1>2, <1>4, <1>12 DEF InOrder

\* No step leaves the invariant.
LEMMA StepInOrder == Types /\ InOrder /\ [Next]_vars => InOrder'
<1> SUFFICES ASSUME Types, InOrder, [Next]_vars PROVE InOrder'
  OBVIOUS
<1>1. ASSUME UNCHANGED <<d, sent, readMailbox, hand, mailboxes, got, chunk, lower, wire>> PROVE InOrder'
  <2>1. Stream' = Stream
    BY <1>1 DEF Stream
  <2> QED BY <1>1, <2>1, MovesInOrder
<1>2. CASE UNCHANGED vars
  BY <1>1, <1>2 DEF vars, deviceVars, muxVars
<1>3. CASE \E c \in 0 .. PeerChannels - 1, p \in Payload : Write(c, p)
  BY <1>3, WriteInOrder
<1>4. CASE Device
  <2>1. UNCHANGED <<muxVars, sent>>
    BY <1>4 DEF Device
  <2>2. CASE \E n \in 1 .. MaxChunk : Receive(n)
    BY <2>1, <2>2, ReceiveInOrder
  <2>3. CASE Check \/ ReadTimesOut \/ Release
    BY <1>1, <2>1, <2>3 DEF Check, ReadTimesOut, Release, muxVars
  <2>4. CASE ReadChunk
    <3>1. chunk = <<>> /\ lower \in Seq(Byte) /\ wire \in Seq(Byte)
      BY <2>4 DEF ReadChunk, Types
    <3>2. <<>> \o (lower \o wire) = lower \o wire /\ <<>> \o wire = wire
      BY <3>1, ConcatProperties, ConcatEmptySeq
    <3>3. Stream' = Stream
      BY <2>4, <3>1, <3>2 DEF ReadChunk, Stream
    <3>4. UNCHANGED <<d, sent, readMailbox, hand, mailboxes, got>>
      BY <2>1, <2>4 DEF ReadChunk, muxVars
    <3> QED BY <3>3, <3>4, MovesInOrder
  <2>5. CASE Consume
    BY <2>1, <2>5, ConsumeInOrder
  <2>6. CASE ReadFails
    BY <2>1, <2>6, ReadFailsInOrder
  <2> QED BY <1>4, <2>2, <2>3, <2>4, <2>5, <2>6 DEF Device, ReadThread
<1>5. CASE MuxThread
  <2>1. CASE MuxCheck \/ MuxTimesOut
    BY <1>1, <2>1 DEF MuxCheck, MuxTimesOut, deviceVars
  <2> QED BY <1>5, <2>1, MuxReadInOrder, DeliverInOrder, RefuseInOrder DEF MuxThread
<1>6. CASE \E c \in Channel : Read(c)
  BY <1>6, ReadInOrder
<1>7. CASE \E c \in Channel : Drop(c)
  BY <1>1, <1>7 DEF Drop, deviceVars
<1>8. CASE DestroyMux \/ DestroyDevice
  BY <1>1, <1>8 DEF DestroyMux, DestroyDevice, deviceVars, muxVars
<1> QED BY <1>2, <1>3, <1>4, <1>5, <1>6, <1>7, <1>8 DEF Next

(* For any packets and channels, any block length, buffer size and chunks, *)
(* and whatever is lost: what a channel's client reads was written to that *)
(* channel, in the order it was written and not twice, also when the       *)
(* decoder joins the halves of different frames. It takes that the CRC is  *)
(* ideal (IdealCrc) (multiplexer_impl_base.h:120-160,                      *)
(* packet_device_impl_base.h:108-182, packet_decode_fsm.h:50-136).         *)
THEOREM DeliveriesWereSent == Spec => []DeliveredInOrder
<1> DEFINE Inv == Types /\ InOrder
<1>1. Init => Inv
  <2> SUFFICES ASSUME Init PROVE InOrder
    BY InitTypes
  <2>1. /\ chunk = <<>> /\ lower = <<>> /\ wire = <<>> /\ sent = <<>> /\ got = <<>> /\ d = New
        /\ readMailbox = None /\ hand = None /\ \A c \in Channel : mailboxes[c] = None
    BY DEF Init, DeviceInit
  <2>2. Stream = <<>> /\ Range(d.out) = {} /\ Len(sent) = 0 /\ Len(got) = 0 /\ got \in Seq(Writable)
    <3>1. <<>> \in Seq(Byte) /\ <<>> \o (<<>> \o <<>>) = <<>>
      BY ConcatEmptySeq
    <3> QED BY <2>1, <3>1 DEF Stream, New, Range
  <2>3. Ascends(Stream, 0, sent)
    <3> DEFINE f == [i \in 1 .. Len(Stream) |-> 0]
    <3>1. f \in [1 .. Len(Stream) -> Nat] /\ Len(Stream) = 0
      BY <2>2
    <3> HIDE DEF f
    <3>2. \A i \in 1 .. Len(Stream) : FALSE
      BY <3>1
    <3> QED BY <3>1, <3>2, Zenon DEF Ascends
  <2>4. Incoming(0)
    BY <2>2, <2>3 DEF Incoming
  <2>5. Sits(readMailbox, 0, 0) /\ Sits(hand, 0, 0)
    BY <2>1, Messages DEF Sits
  <2>6. Handled(0)
    <3> DEFINE f == [i \in 1 .. Len(got) |-> 1]
               g == [c \in Channel |-> 0]
    <3>1. f \in [1 .. Len(got) -> 1 .. 0] /\ g \in [Channel -> 0 .. 0]
      BY <2>2
    <3>2. ReadUpTo(f, g, 0)
      BY <2>1, <2>2, Messages DEF ReadUpTo
    <3> HIDE DEF f, g
    <3> QED BY <3>1, <3>2 DEF Handled
  <2>7. Placed(0, 0, 0)
    BY <2>2, <2>4, <2>5, <2>6 DEF Placed
  <2> QED BY <2>2, <2>7 DEF InOrder
<1>2. Inv /\ [Next]_vars => Inv'
  BY StepTypes, StepInOrder
<1>3. Inv => DeliveredInOrder
  <2> SUFFICES ASSUME Types, InOrder PROVE DeliveredInOrder
    OBVIOUS
  <2>1. PICK b, c, e \in Nat : Placed(b, c, e)
    BY DEF InOrder
  <2>2. PICK from \in [1 .. Len(got) -> 1 .. e], last \in [Channel -> 0 .. e] : ReadUpTo(from, last, e)
    BY <2>1 DEF Placed, Handled
  <2>3. DOMAIN got = 1 .. Len(got) /\ DOMAIN sent = 1 .. Len(sent) /\ Len(sent) \in Nat
    BY DEF InOrder, Types
  <2>4. e <= Len(sent)
    BY <2>1, <2>3 DEF Placed
  <2>5. from \in [DOMAIN got -> DOMAIN sent]
    BY <2>3, <2>4
  <2> QED BY <2>2, <2>3, <2>5 DEF ReadUpTo, DeliveredInOrder
<1> QED BY <1>1, <1>2, <1>3, PTL DEF Spec

=============================================================================
