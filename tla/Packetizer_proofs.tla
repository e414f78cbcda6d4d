-------------------------- MODULE Packetizer_proofs --------------------------
(***************************************************************************)
(* The packetizer and its two users, for every stream, however it is cut   *)
(* into buffers, for packets of any size and any bound of the stream: the  *)
(* frames that the thread handles, what it posts of them, and the frames   *)
(* that the calls of readPacket return.                                    *)
(*                                                                         *)
(* The invariants say where the packetizer is in the stream, by the last   *)
(* zero of it (At): it gathers what follows a zero that did not close a    *)
(* frame, or waits for a zero because the last one did, or because too     *)
(* much has followed it.  A reader goes on at the zero that closed the     *)
(* frame before, so that for it every zero opens a frame (ReaderAt); the   *)
(* packets it has returned enumerate the frames (Enumerates).              *)
(***************************************************************************)
EXTENDS PacketReader, PacketizerThread, WellFoundedInduction, SequenceTheorems, TLAPS

(* The place z holds the last zero before i. *)
LastZero(s, z, i) == z \in 1 .. i - 1 /\ s[z] = 0 /\ \A k \in z + 1 .. i - 1 : s[k] # 0

-----------------------------------------------------------------------------
\* If there is a zero, there is a last one.
LEMMA LastZeroExists ==
  ASSUME NEW s, NEW i \in Nat, NEW j \in 1 .. i - 1, s[j] = 0
  PROVE  \E z \in j .. i - 1 : LastZero(s, z, i)
<1> DEFINE T == {n \in 1 .. i - 1 : s[i - n] = 0}
<1>1. i - j \in 1 .. i - 1 /\ i - (i - j) = j
  OBVIOUS
<1>2. i - j \in T /\ T \subseteq Nat /\ T # {}
  BY <1>1
<1>3. PICK n \in T : \A m \in T : ~(m < n)
  <2> HIDE DEF T
  <2>1. PICK n \in T : \A m \in T : ~(<<m, n>> \in OpToRel(<, Nat))
    BY <1>2, NatLessThanWellFounded, WFMin
  <2>2. \A m \in T : ~(m < n)
    BY <1>2, <2>1 DEF OpToRel
  <2> QED BY <2>2
<1> DEFINE z == i - n
<1>4. n \in 1 .. i - 1 /\ s[z] = 0 /\ n <= i - j
  BY <1>2, <1>3
<1>5. z \in j .. i - 1 /\ z \in 1 .. i - 1
  BY <1>4
<1>6. ASSUME NEW k \in z + 1 .. i - 1 PROVE s[k] # 0
  <2>1. i - k \in 1 .. i - 1 /\ i - k < n /\ i - (i - k) = k
    BY <1>4, <1>6
  <2>2. s[k] = 0 => i - k \in T
    BY <2>1
  <2> QED BY <1>3, <2>1, <2>2
<1> QED BY <1>4, <1>5, <1>6 DEF LastZero

\* There is one at most, and it is what Opening chooses.
LEMMA LastZeroOpens ==
  ASSUME NEW s, NEW i \in Nat, NEW z, LastZero(s, z, i)
  PROVE  Opening(s, i) = z
<1>1. ASSUME NEW j \in 1 .. i - 1, s[j] = 0, \A k \in j + 1 .. i - 1 : s[k] # 0
      PROVE  j = z
  <2>1. CASE j < z
    BY <1>1, <2>1 DEF LastZero
  <2>2. CASE z < j
    BY <1>1, <2>2 DEF LastZero
  <2> QED BY <1>1, <2>1, <2>2 DEF LastZero
<1> DEFINE y == Opening(s, i)
<1>2. y \in 1 .. i - 1 /\ s[y] = 0 /\ \A k \in y + 1 .. i - 1 : s[k] # 0
  BY DEF Opening, LastZero
<1> HIDE DEF y
<1>3. y = z
  BY <1>1, <1>2
<1> QED BY <1>3 DEF y

\* What is said of the places before i is not changed by a byte behind them.
LEMMA OpeningStays ==
  ASSUME NEW s \in Seq(Byte), NEW b \in Byte, NEW i \in 1 .. Len(s) + 1
  PROVE  /\ \A z : LastZero(s, z, i) <=> LastZero(Append(s, b), z, i)
         /\ i \in FrameEnds(s) =>
              /\ i \in FrameEnds(Append(s, b))
              /\ Opening(Append(s, b), i) = Opening(s, i)
              /\ FrameAt(Append(s, b), i) = FrameAt(s, i)
              /\ Opening(s, i) \in 1 .. i - 1
<1> DEFINE t == Append(s, b)
           n == Len(s)
<1>1. n \in Nat /\ t \in Seq(Byte) /\ Len(t) = n + 1 /\ \A k \in 1 .. n : t[k] = s[k]
  BY AppendProperties
<1> HIDE DEF t
<1>2. ASSUME NEW z PROVE LastZero(s, z, i) <=> LastZero(t, z, i)
  <2>1. \A k \in 1 .. i - 1 : t[k] = s[k]
    BY <1>1
  <2>2. ASSUME NEW k \in z + 1 .. i - 1, z \in 1 .. i - 1 PROVE k \in 1 .. i - 1
    BY <2>2
  <2> QED BY <2>1, <2>2 DEF LastZero
<1>3. ASSUME i \in FrameEnds(s)
      PROVE  /\ i \in FrameEnds(t) /\ Opening(t, i) = Opening(s, i)
             /\ FrameAt(t, i) = FrameAt(s, i) /\ Opening(s, i) \in 1 .. i - 1
  <2>1. i \in 1 .. n /\ i > 1 /\ s[i] = 0 /\ s[i - 1] # 0
    BY <1>3 DEF FrameEnds
  <2>2. PICK j \in 1 .. i - 1 : s[j] = 0
    BY <1>3 DEF FrameEnds
  <2>3. i \in FrameEnds(t)
    <3>1. t[i] = s[i] /\ t[i - 1] = s[i - 1] /\ t[j] = s[j] /\ i \in 1 .. n + 1
      BY <1>1, <2>1, <2>2
    <3>2. DOMAIN t = 1 .. n + 1
      BY <1>1
    <3> QED BY <2>1, <2>2, <3>1, <3>2 DEF FrameEnds
  <2>4. PICK z : LastZero(s, z, i)
    BY <2>1, <2>2, LastZeroExists
  <2>5. Opening(s, i) = z /\ Opening(t, i) = z /\ z \in 1 .. i - 1
    BY <1>2, <2>1, <2>4, LastZeroOpens DEF LastZero
  <2>6. SubSeq(t, z + 1, i - 1) = SubSeq(s, z + 1, i - 1)
    <3> DEFINE u == SubSeq(s, z + 1, i - 1)
               v == SubSeq(t, z + 1, i - 1)
    <3>1. \A k \in z + 1 .. i - 1 : k \in 1 .. n /\ t[k] = s[k]
      BY <1>1, <2>1, <2>5
    <3> QED BY <1>1, <2>1, <2>5, <3>1 DEF t
  <2> QED BY <2>3, <2>5, <2>6 DEF FrameAt
<1> QED BY <1>2, <1>3 DEF t

-----------------------------------------------------------------------------
(* Packets may be of any size, also of none, and buffers too. *)
Bounds == 0 \in Byte /\ maxSize \in Nat /\ maxRead \in Nat /\ MaxRead \in Nat

Packetizer == [state : {"Sync", "SkipDelim", "Within"}, out : Seq(Byte)]

(* Behind a frame handled or too long, at a zero that opens one, or in a   *)
(* frame.                                                                  *)
Lost(p, s, h) ==
  p.out = <<>> /\ \A z : LastZero(s, z, Len(s) + 1) => z \in h \/ Len(s) - z > maxSize
Opened(p, s, h) == p.out = <<>> /\ LastZero(s, Len(s), Len(s) + 1) /\ Len(s) \notin h
Gathering(p, s, h) ==
  \E z : /\ LastZero(s, z, Len(s) + 1) /\ z \notin h /\ z < Len(s) /\ Len(s) - z <= maxSize
         /\ p.out = SubSeq(s, z + 1, Len(s))

At(p, s, h) == /\ p.state = "Sync" => Lost(p, s, h)
               /\ p.state = "SkipDelim" => Opened(p, s, h)
               /\ p.state = "Within" => Gathering(p, s, h)

Inv == /\ Bounds
       /\ fetched \in Seq(Byte) /\ stream \in Seq(Byte) /\ handled \subseteq 1 .. Len(stream)
       /\ pktz \in Packetizer
       /\ At(pktz, stream, handled)
       /\ HandledExactly

-----------------------------------------------------------------------------
\* The frames of a stream with a byte more: none or one.
LEMMA FrameEndsGrow ==
  ASSUME NEW s \in Seq(Byte), NEW b \in Byte
  PROVE  /\ FrameEnds(s) \subseteq 1 .. Len(s)
         /\ FrameEnds(Append(s, b)) \subseteq FrameEnds(s) \union {Len(s) + 1}
         /\ FrameEnds(s) \subseteq FrameEnds(Append(s, b))
         /\ Len(s) + 1 \in FrameEnds(Append(s, b)) <=>
              b = 0 /\ \E z : LastZero(s, z, Len(s) + 1) /\ z < Len(s)
<1> DEFINE t == Append(s, b)
           n == Len(s)
<1>1. n \in Nat /\ t \in Seq(Byte) /\ Len(t) = n + 1 /\ t[n + 1] = b /\ \A k \in 1 .. n : t[k] = s[k]
  BY AppendProperties
<1>2. DOMAIN t = 1 .. n + 1 /\ DOMAIN s = 1 .. n
  BY <1>1
<1> HIDE DEF t
<1>3. FrameEnds(s) \subseteq 1 .. n
  BY <1>2 DEF FrameEnds
<1>4. FrameEnds(s) \subseteq FrameEnds(t)
  BY <1>1, <1>3, OpeningStays DEF t
<1>5. FrameEnds(t) \subseteq FrameEnds(s) \union {n + 1}
  <2> SUFFICES ASSUME NEW i \in FrameEnds(t), i # n + 1 PROVE i \in FrameEnds(s)
    OBVIOUS
  <2>1. i \in 1 .. n /\ t[i] = 0 /\ i > 1 /\ t[i - 1] # 0
    BY <1>1, <1>2 DEF FrameEnds
  <2>2. PICK j \in 1 .. i - 1 : t[j] = 0
    BY DEF FrameEnds
  <2>3. s[i] = 0 /\ s[i - 1] # 0 /\ s[j] = 0
    BY <1>1, <2>1, <2>2
  <2> QED BY <1>2, <2>1, <2>2, <2>3 DEF FrameEnds
<1>6. ASSUME n + 1 \in FrameEnds(t)
      PROVE  b = 0 /\ \E z : LastZero(s, z, n + 1) /\ z < n
  <2>1. b = 0 /\ n + 1 > 1 /\ t[n] # 0
    BY <1>1, <1>6 DEF FrameEnds
  <2>2. PICK j \in 1 .. n : t[j] = 0
    BY <1>1, <1>6 DEF FrameEnds
  <2>3. s[j] = 0 /\ s[n] # 0
    BY <1>1, <2>1, <2>2
  <2>4. PICK z : LastZero(s, z, n + 1)
    BY <1>1, <2>2, <2>3, LastZeroExists
  <2>5. z < n
    BY <1>1, <2>3, <2>4 DEF LastZero
  <2> QED BY <2>1, <2>4, <2>5
<1>7. ASSUME b = 0, NEW z, LastZero(s, z, n + 1), z < n
      PROVE  n + 1 \in FrameEnds(t)
  <2>1. z \in 1 .. n /\ s[z] = 0 /\ n \in z + 1 .. n
    BY <1>1, <1>7 DEF LastZero
  <2>2. s[n] # 0
    BY <1>1, <1>7, <2>1 DEF LastZero
  <2>3. t[n + 1] = 0 /\ t[n] # 0 /\ t[z] = 0 /\ n + 1 > 1
    BY <1>1, <1>7, <2>1, <2>2
  <2> QED BY <1>1, <1>2, <2>1, <2>3 DEF FrameEnds
<1> QED BY <1>3, <1>4, <1>5, <1>6, <1>7 DEF t

\* The last zero of a stream with a byte more.
LEMMA LastZeroMoves ==
  ASSUME NEW s \in Seq(Byte), NEW b \in Byte
  PROVE  /\ b = 0 => LastZero(Append(s, b), Len(s) + 1, Len(s) + 2)
         /\ b # 0 => \A z : LastZero(Append(s, b), z, Len(s) + 2) <=> LastZero(s, z, Len(s) + 1)
<1> DEFINE t == Append(s, b)
           n == Len(s)
<1>1. n \in Nat /\ t[n + 1] = b /\ \A k \in 1 .. n : t[k] = s[k]
  BY AppendProperties
<1> HIDE DEF t, n
<1>2. b = 0 => LastZero(t, n + 1, n + 2)
  BY <1>1 DEF LastZero
<1>3. ASSUME b # 0, NEW z, LastZero(t, z, n + 2) PROVE LastZero(s, z, n + 1)
  BY <1>1, <1>3 DEF LastZero
<1>4. ASSUME b # 0, NEW z, LastZero(s, z, n + 1) PROVE LastZero(t, z, n + 2)
  BY <1>1, <1>4 DEF LastZero
<1> QED BY <1>2, <1>3, <1>4 DEF t, n

\* The last zero opens the frame that ends with the next one.
LEMMA LastFrame ==
  ASSUME NEW s \in Seq(Byte), 0 \in Byte, NEW z, LastZero(s, z, Len(s) + 1)
  PROVE  /\ Opening(Append(s, 0), Len(s) + 1) = z
         /\ FrameAt(Append(s, 0), Len(s) + 1) = SubSeq(s, z + 1, Len(s))
         /\ Len(SubSeq(s, z + 1, Len(s))) = Len(s) - z
<1> DEFINE t == Append(s, 0)
           n == Len(s)
<1>1. n \in Nat /\ z \in 1 .. n /\ t \in Seq(Byte) /\ Len(t) = n + 1 /\ \A k \in 1 .. n : t[k] = s[k]
  BY AppendProperties DEF LastZero
<1>2. Opening(t, n + 1) = z
  <2>1. LastZero(t, z, n + 1)
    BY <1>1, OpeningStays
  <2> QED BY <1>1, <2>1, LastZeroOpens
<1>3. SubSeq(t, z + 1, n) = SubSeq(s, z + 1, n) /\ Len(SubSeq(s, z + 1, n)) = n - z
  BY <1>1
<1>4. FrameAt(t, n + 1) = SubSeq(t, z + 1, n)
  BY <1>1, <1>2 DEF FrameAt
<1> QED BY <1>2, <1>3, <1>4

(* What HandledExactly says of the frames of s. *)
Handled(s, h) == {i \in FrameEnds(s) : Len(FrameAt(s, i)) <= maxSize /\ Opening(s, i) \notin h}

\* A byte more, which may close a frame that is to be handled.
LEMMA HandledGrows ==
  ASSUME NEW s \in Seq(Byte), NEW b \in Byte, NEW h, h \subseteq 1 .. Len(s), h = Handled(s, h),
         NEW g, g \in {h, h \union {Len(s) + 1}},
         Len(s) + 1 \in g <=>
           b = 0 /\ \E z : /\ LastZero(s, z, Len(s) + 1) /\ z < Len(s)
                           /\ Len(s) - z <= maxSize /\ z \notin h
  PROVE  g = Handled(Append(s, b), g)
<1> DEFINE t == Append(s, b)
           n == Len(s)
<1>1. /\ n \in Nat /\ n + 1 \notin h /\ n + 1 \notin FrameEnds(s)
      /\ FrameEnds(t) \subseteq FrameEnds(s) \union {n + 1} /\ FrameEnds(s) \subseteq FrameEnds(t)
      /\ FrameEnds(s) \subseteq 1 .. n
  BY FrameEndsGrow
<1>2. ASSUME NEW i \in FrameEnds(s) PROVE i \in g <=> i \in Handled(t, g)
  <2>1. i \in FrameEnds(t) /\ i \in 1 .. n
    BY <1>1
  <2>2. FrameAt(t, i) = FrameAt(s, i) /\ Opening(t, i) = Opening(s, i) /\ Opening(s, i) \in 1 .. i - 1
    BY <2>1, OpeningStays
  <2>3. Opening(s, i) # n + 1 /\ i # n + 1
    BY <1>1, <2>1, <2>2
  <2>4. (i \in g <=> i \in h) /\ (Opening(s, i) \in g <=> Opening(s, i) \in h)
    BY <2>3
  <2> QED BY <2>1, <2>2, <2>4 DEF Handled
<1>3. n + 1 \in g <=> n + 1 \in Handled(t, g)
  <2>1. CASE n + 1 \notin FrameEnds(t)
    <3>1. ~(b = 0 /\ \E z : LastZero(s, z, n + 1) /\ z < n)
      BY <2>1, FrameEndsGrow
    <3> QED BY <2>1, <3>1 DEF Handled
  <2>2. CASE n + 1 \in FrameEnds(t)
    <3>1. PICK z : b = 0 /\ LastZero(s, z, n + 1) /\ z < n
      BY <2>2, FrameEndsGrow
    <3>2. Opening(t, n + 1) = z /\ Len(FrameAt(t, n + 1)) = n - z
      BY <3>1, LastFrame
    <3>3. z \in 1 .. n
      BY <3>1 DEF LastZero
    <3>4. ASSUME NEW y, LastZero(s, y, n + 1) PROVE y = z
      <4>1. n + 1 \in Nat
        BY <1>1
      <4>2. Opening(s, n + 1) = y /\ Opening(s, n + 1) = z
        BY <3>1, <3>4, <4>1, LastZeroOpens
      <4> QED BY <4>2
    <3>5. n + 1 \in g <=> n - z <= maxSize /\ z \notin h
      BY <3>1, <3>4
    <3>6. z \in g <=> z \in h
      BY <1>1, <3>3
    <3> QED BY <2>2, <3>2, <3>5, <3>6 DEF Handled
  <2> QED BY <2>1, <2>2
<1>4. g \subseteq FrameEnds(s) \union {n + 1} /\ Handled(t, g) \subseteq FrameEnds(s) \union {n + 1}
  BY <1>1 DEF Handled
<1>5. \A i : i \in g <=> i \in Handled(t, g)
  BY <1>2, <1>3, <1>4
<1> QED BY <1>5

-----------------------------------------------------------------------------
\* The initial state.
LEMMA ThreadInit == Bounds /\ Init => Inv
<1> SUFFICES ASSUME Bounds, Init PROVE Inv
  OBVIOUS
<1>1. fetched = <<>> /\ pktz = [state |-> "Sync", out |-> <<>>] /\ stream = <<>> /\ handled = {}
  BY DEF Init, create
<1>2. <<>> \in Seq(Byte) /\ Len(<<>>) = 0 /\ pktz \in Packetizer
  BY <1>1 DEF Packetizer
<1>3. At(pktz, stream, handled)
  BY <1>1, <1>2 DEF At, Lost, LastZero
<1>4. HandledExactly
  BY <1>1, <1>2 DEF HandledExactly, FrameEnds
<1> QED BY <1>1, <1>2, <1>3, <1>4 DEF Inv

(* A byte goes into the packetizer: what it says, where the packetizer is  *)
(* then, and whether a frame ends that is to be handled.                   *)
Behind(r, s, b, h) ==
  /\ r.pktz \in Packetizer
  /\ r.result = "Continue" => At(r.pktz, Append(s, b), h)
  /\ r.result = "Overflow" => At(create(TRUE), Append(s, b), h)
  /\ r.result = "Finished" => /\ At(create(TRUE), Append(s, b), h \union {Len(s) + 1})
                              /\ r.pktz.out = FrameAt(Append(s, b), Len(s) + 1)
  /\ r.result \in {"Continue", "Overflow", "Finished"}
  /\ r.result = "Finished" <=>
       b = 0 /\ \E z : /\ LastZero(s, z, Len(s) + 1) /\ z < Len(s)
                       /\ Len(s) - z <= maxSize /\ z \notin h

\* There is one last zero only.
LEMMA LastZeroOnce ==
  ASSUME NEW s, NEW i \in Nat, NEW y, NEW z, LastZero(s, y, i), LastZero(s, z, i)
  PROVE  y = z
<1>1. Opening(s, i) = y /\ Opening(s, i) = z
  BY LastZeroOpens
<1> QED BY <1>1

\* A byte that is stored, or finds the buffer full.
LEMMA StoreBehind ==
  ASSUME Bounds, NEW s \in Seq(Byte), NEW b \in Byte, b # 0, NEW h, NEW p \in Packetizer,
         NEW z, LastZero(s, z, Len(s) + 1), z \notin h, Len(s) - z <= maxSize,
         p.out = SubSeq(s, z + 1, Len(s))
  PROVE  Behind(Store(p, b), s, b, h)
<1> DEFINE t == Append(s, b)
           n == Len(s)
<1>1. n \in Nat /\ z \in 1 .. n /\ t \in Seq(Byte) /\ Len(t) = n + 1 /\ p.out \in Seq(Byte)
  BY AppendProperties DEF LastZero, Packetizer
<1>2. Len(p.out) = n - z /\ SubSeq(t, z + 1, n + 1) = Append(p.out, b)
  <2> DEFINE u == SubSeq(t, z + 1, n + 1)
             v == Append(p.out, b)
  <2>1. Len(p.out) = n - z /\ \A i \in 1 .. n - z : p.out[i] = s[z + i]
    BY <1>1
  <2>2. /\ v \in Seq(Byte) /\ Len(v) = n - z + 1 /\ v[n - z + 1] = b
        /\ \A i \in 1 .. n - z : v[i] = s[z + i]
    BY <1>1, <2>1, AppendProperties
  <2>3. u \in Seq(Byte) /\ Len(u) = n - z + 1 /\ \A i \in 1 .. n - z + 1 : u[i] = t[z + i]
    <3> HIDE DEF t
    <3> QED BY <1>1
  <2>4. t[n + 1] = b /\ \A i \in 1 .. n : t[i] = s[i]
    BY AppendProperties
  <2> HIDE DEF t, u, v, n
  <2>5. ASSUME NEW i \in 1 .. n - z + 1 PROVE u[i] = v[i]
    <3>1. CASE i = n - z + 1
      BY <1>1, <2>2, <2>3, <2>4, <3>1
    <3>2. CASE i # n - z + 1
      <4>1. i \in 1 .. n - z /\ z + i \in 1 .. n
        BY <1>1, <3>2
      <4> QED BY <2>2, <2>3, <2>4, <4>1
    <3> QED BY <3>1, <3>2
  <2>6. u = v
    BY <2>2, <2>3, <2>5, SeqEqual
  <2> QED BY <2>1, <2>6 DEF u, v
<1>3. \A y : LastZero(t, y, n + 2) <=> LastZero(s, y, n + 1)
  BY LastZeroMoves
<1>4. Len(t) + 1 = n + 2 /\ n + 1 \in Nat
  BY <1>1
<1> HIDE DEF t
<1>5. CASE Len(p.out) = maxSize
  <2>1. Store(p, b) = [pktz |-> p, result |-> "Overflow"]
    BY <1>5 DEF Store
  <2>2. ASSUME NEW y, LastZero(t, y, Len(t) + 1) PROVE Len(t) - y > maxSize
    <3>1. y = z
      BY <1>3, <1>4, <2>2, LastZeroOnce
    <3> QED BY <1>1, <1>2, <1>5, <3>1
  <2>3. At(create(TRUE), t, h)
    BY <2>2 DEF At, Lost, create
  <2> DEFINE r == Store(p, b)
  <2>4. r.pktz = p /\ r.result = "Overflow"
    BY <2>1
  <2> HIDE DEF r
  <2> QED BY <2>3, <2>4 DEF Behind, t, r
<1>6. CASE Len(p.out) # maxSize
  <2> DEFINE q == [state |-> "Within", out |-> Append(p.out, b)]
  <2>1. Store(p, b) = [pktz |-> q, result |-> "Continue"]
    BY <1>6 DEF Store, Continue
  <2>2. q \in Packetizer
    BY <1>1 DEF Packetizer
  <2>3. LastZero(t, z, Len(t) + 1) /\ z < Len(t) /\ Len(t) - z <= maxSize
    BY <1>1, <1>2, <1>3, <1>4, <1>6 DEF Bounds
  <2>4. At(q, t, h)
    BY <1>1, <1>2, <2>3 DEF At, Gathering
  <2> HIDE DEF q
  <2> QED BY <2>1, <2>2, <2>4 DEF Behind, t
<1> QED BY <1>5, <1>6

\* Whatever the packetizer is in.
LEMMA ConsumeBehind ==
  ASSUME Bounds, NEW s \in Seq(Byte), NEW b \in Byte, NEW h, h \subseteq 1 .. Len(s),
         NEW p \in Packetizer, At(p, s, h)
  PROVE  Behind(consume(p, b), s, b, h)
<1> DEFINE t == Append(s, b)
           n == Len(s)
<1>1. n \in Nat /\ t \in Seq(Byte) /\ Len(t) = n + 1 /\ Len(t) + 1 = n + 2 /\ n + 1 \notin h
  BY AppendProperties
<1>2. b = 0 => LastZero(t, n + 1, n + 2)
  BY LastZeroMoves
<1>3. b # 0 => \A y : LastZero(t, y, n + 2) <=> LastZero(s, y, n + 1)
  BY LastZeroMoves
<1>4. p = [state |-> p.state, out |-> p.out] /\ p.state \in {"Sync", "SkipDelim", "Within"}
      /\ p.out \in Seq(Byte)
  BY DEF Packetizer
<1> HIDE DEF t
<1>5. CASE p.state = "Sync"
  <2>1. consume(p, b) = Continue(IF b = 0 THEN [p EXCEPT !.state = "SkipDelim"] ELSE p)
    BY <1>5 DEF consume, consumeSync
  <2>2. Lost(p, s, h)
    BY <1>5 DEF At
  <2>3. ~\E z : LastZero(s, z, n + 1) /\ z < n /\ n - z <= maxSize /\ z \notin h
    BY <1>1, <2>2 DEF Lost, LastZero, Bounds
  <2>4. CASE b = 0
    <3> DEFINE q == [p EXCEPT !.state = "SkipDelim"]
    <3>1. q \in Packetizer /\ q.state = "SkipDelim" /\ q.out = <<>>
      BY <2>2 DEF Packetizer, Lost
    <3>2. At(q, t, h)
      BY <1>1, <1>2, <2>4, <3>1 DEF At, Opened
    <3> HIDE DEF q
    <3> QED BY <2>1, <2>3, <2>4, <3>1, <3>2 DEF Behind, Continue, t, q
  <2>5. CASE b # 0
    <3>1. ASSUME NEW y, LastZero(t, y, Len(t) + 1) PROVE y \in h \/ Len(t) - y > maxSize
      <4>1. LastZero(s, y, n + 1) /\ y \in 1 .. n
        BY <1>1, <1>3, <2>5, <3>1 DEF LastZero
      <4> QED BY <1>1, <2>2, <4>1 DEF Lost, Bounds
    <3>2. At(p, t, h)
      BY <1>5, <2>2, <3>1 DEF At, Lost
    <3> QED BY <2>1, <2>5, <3>2 DEF Behind, Continue, t
  <2> QED BY <2>4, <2>5
<1>6. CASE p.state = "SkipDelim"
  <2>1. p.out = <<>> /\ LastZero(s, n, n + 1) /\ n \notin h
    BY <1>6 DEF At, Opened
  <2>2. CASE b = 0
    <3>1. consume(p, b) = Continue(p)
      BY <1>6, <2>2 DEF consume, consumeSkipDelim
    <3>2. At(p, t, h)
      BY <1>1, <1>2, <1>6, <2>1, <2>2 DEF At, Opened
    <3>3. ~\E z : LastZero(s, z, n + 1) /\ z < n
      BY <1>1, <2>1, LastZeroOnce
    <3> QED BY <3>1, <3>2, <3>3 DEF Behind, Continue, t
  <2>3. CASE b # 0
    <3>1. consume(p, b) = Store(p, b)
      BY <1>6, <2>3 DEF consume, consumeSkipDelim
    <3>2. n - n <= maxSize /\ SubSeq(s, n + 1, n) = <<>>
      BY <1>1 DEF Bounds
    <3> QED BY <2>1, <2>3, <3>1, <3>2, StoreBehind
  <2> QED BY <2>2, <2>3
<1>7. CASE p.state = "Within"
  <2>1. PICK z : /\ LastZero(s, z, n + 1) /\ z \notin h /\ z < n /\ n - z <= maxSize
                 /\ p.out = SubSeq(s, z + 1, n)
    BY <1>7 DEF At, Gathering
  <2>2. CASE b = 0
    <3>1. consume(p, b) = [pktz |-> p, result |-> "Finished"]
      BY <1>7, <2>2 DEF consume, consumeWithin
    <3>2. p.out = FrameAt(t, n + 1)
      BY <2>1, <2>2, LastFrame DEF t
    <3>3. ASSUME NEW y, LastZero(t, y, Len(t) + 1) PROVE y \in h \union {n + 1}
      <4>1. y = n + 1
        BY <1>1, <1>2, <2>2, <3>3, LastZeroOnce
      <4> QED BY <4>1
    <3>4. At(create(TRUE), t, h \union {n + 1})
      BY <3>3 DEF At, Lost, create
    <3> DEFINE r == consume(p, b)
    <3>5. r.pktz = p /\ r.result = "Finished"
      BY <3>1
    <3>6. Behind(r, s, b, h)
      <4> HIDE DEF r
      <4> QED BY <2>1, <2>2, <3>2, <3>4, <3>5 DEF Behind, t
    <3> QED BY <3>6
  <2>3. CASE b # 0
    <3>1. consume(p, b) = Store(p, b)
      BY <1>7, <2>3 DEF consume, consumeWithin
    <3> QED BY <2>1, <2>3, <3>1, StoreBehind
  <2> QED BY <2>2, <2>3
<1> QED BY <1>4, <1>5, <1>6, <1>7

-----------------------------------------------------------------------------
\* A byte is consumed.
LEMMA ConsumeInv ==
  ASSUME Inv, Consume
  PROVE  /\ Inv'
         /\ handled' # handled =>
              \/ error' = "Timeout" /\ out' = out
              \/ error' = "none" /\ out' = FrameAt(stream', Len(stream'))
<1> DEFINE b == Head(fetched)
           r == consume(pktz, b)
           n == Len(stream)
           k == n + 1
<1>1. /\ b \in Byte /\ fetched' \in Seq(Byte) /\ stream' = Append(stream, b)
      /\ stream' \in Seq(Byte) /\ Len(stream') = k /\ n \in Nat
  <2>1. fetched \in Seq(Byte) /\ fetched # <<>> /\ fetched' = Tail(fetched) /\ stream' = Append(stream, b)
        /\ stream \in Seq(Byte)
    BY DEF Inv, Consume
  <2>2. b \in Byte /\ Tail(fetched) \in Seq(Byte)
    BY <2>1, HeadTailProperties
  <2> HIDE DEF b
  <2> QED BY <2>1, <2>2, AppendProperties
<1>2. Behind(r, stream, b, handled)
  BY <1>1, ConsumeBehind DEF Inv
<1>3. \/ r.result = "Overflow" /\ overflow(r.pktz)
      \/ r.result = "Finished" /\ finished(r.pktz)
      \/ r.result = "Continue" /\ pktz' = r.pktz /\ error' = "none" /\ UNCHANGED <<out, handled>>
  BY DEF Consume
<1> HIDE DEF b, r
<1>4. create(TRUE) \in Packetizer
  BY DEF create, Packetizer
<1>5. /\ pktz' \in Packetizer /\ At(pktz', stream', handled')
      /\ handled' \in {handled, handled \union {k}}
      /\ k \in handled' <=> r.result = "Finished"
      /\ r.result = "Finished" => \/ error' = "Timeout" /\ out' = out
                                  \/ error' = "none" /\ out' = FrameAt(stream', k)
  <2>1. k \notin handled
    BY <1>1 DEF Inv
  <2>2. CASE r.result = "Overflow" /\ overflow(r.pktz)
    BY <1>1, <1>2, <1>4, <2>1, <2>2 DEF Behind, overflow
  <2>3. CASE r.result = "Finished" /\ finished(r.pktz)
    <3>1. pktz' = create(TRUE) /\ handled' = handled \union {k} /\ post(r.pktz.out)
      BY <1>1, <2>3 DEF finished
    <3>2. At(create(TRUE), stream', handled \union {k}) /\ r.pktz.out = FrameAt(stream', k)
      BY <1>1, <1>2, <2>3 DEF Behind
    <3>3. \/ error' = "Timeout" /\ out' = out
          \/ error' = "none" /\ out' = FrameAt(stream', k)
      BY <3>1, <3>2 DEF post
    <3> QED BY <1>4, <2>3, <3>1, <3>2, <3>3
  <2>4. CASE r.result = "Continue" /\ pktz' = r.pktz /\ error' = "none" /\ UNCHANGED <<out, handled>>
    BY <1>1, <1>2, <2>1, <2>4 DEF Behind
  <2> QED BY <1>3, <2>2, <2>3, <2>4
<1>6. HandledExactly'
  <2>1. handled = Handled(stream, handled) /\ handled \subseteq 1 .. n /\ stream \in Seq(Byte)
    BY DEF Inv, HandledExactly, Handled
  <2>2. k \in handled' <=> b = 0 /\ \E z : /\ LastZero(stream, z, k) /\ z < n
                                           /\ n - z <= maxSize /\ z \notin handled
    BY <1>2, <1>5 DEF Behind
  <2>3. handled' = Handled(Append(stream, b), handled')
    BY <1>1, <1>5, <2>1, <2>2, HandledGrows
  <2> QED BY <1>1, <2>3 DEF HandledExactly, Handled
<1>7. handled' \subseteq 1 .. Len(stream')
  BY <1>1, <1>5 DEF Inv
<1>8. Bounds'
  BY DEF Inv, Bounds
<1> QED BY <1>1, <1>5, <1>6, <1>7, <1>8 DEF Inv

\* A buffer is fetched, a packet is taken, or nothing happens.
LEMMA OthersInv ==
  ASSUME Inv, Fetch \/ Take \/ UNCHANGED vars
  PROVE  Inv' /\ handled' = handled
<1>1. fetched' \in Seq(Byte) /\ UNCHANGED <<pktz, stream, handled>>
  <2>1. CASE Fetch
    <3>1. PICK b \in BoundedSeq(Byte, MaxRead) : fetched' = b
      BY <2>1 DEF Fetch
    <3>2. PICK m \in 0 .. MaxRead : b \in [1 .. m -> Byte]
      BY DEF BoundedSeq, SeqOf
    <3>3. m \in Nat
      BY DEF Inv, Bounds
    <3> QED BY <2>1, <3>1, <3>2, <3>3 DEF Fetch
  <2>2. CASE Take \/ UNCHANGED vars
    BY <2>2 DEF Take, vars, Inv
  <2> QED BY <2>1, <2>2
<1> QED BY <1>1 DEF Inv, Bounds, At, Lost, Opened, Gathering, HandledExactly

(* For any stream, in buffers of any size, and packets of any size: the    *)
(* thread handles exactly the frames that fit and whose opening zero did   *)
(* not close a frame that it handled                                       *)
(* (packetizer_thread_function.h:26-71, packetizer.h:36-88).               *)
THEOREM FramesHandled == Bounds /\ Spec => []HandledExactly
<1>1. Bounds /\ Init => Inv
  BY ThreadInit
<1>2. Inv /\ [Next]_vars => Inv'
  BY ConsumeInv, OthersInv DEF Next
<1>3. Inv => HandledExactly
  BY DEF Inv
<1> QED BY <1>1, <1>2, <1>3, PTL DEF Spec

(* What the thread posts is the frame that ends where it is, whole, unless *)
(* the mailbox takes nothing for too long                                  *)
(* (packetizer_thread_function.h:47-60).                                   *)
THEOREM FramePosted == Bounds /\ Spec => PostsTheFrame
<1>1. Bounds /\ Init => Inv
  BY ThreadInit
<1>2. Inv /\ [Next]_vars => Inv'
  BY ConsumeInv, OthersInv DEF Next
<1>3. Inv /\ [Next]_vars =>
        [handled' # handled => \/ error' = "Timeout" /\ out' = out
                               \/ error' = "none" /\ out' = FrameAt(stream', Len(stream'))]_vars
  BY ConsumeInv, OthersInv DEF Next
<1> QED BY <1>1, <1>2, <1>3, PTL DEF Spec, PostsTheFrame

-----------------------------------------------------------------------------
(* Where the packetizer of a reader is in the bytes s it has consumed: no  *)
(* frame was too long for it, and none was handled twice.                  *)
ReaderAt(p, s) == At(p, s, {}) /\ (p.state = "Sync" => \A z : ~LastZero(s, z, Len(s) + 1))

(* The packets q are the frames of s, in order.                            *)
Enumerates(q, s) ==
  \E end \in [DOMAIN q -> FrameEnds(s)] :
     /\ \A i \in DOMAIN q : q[i] = FrameAt(s, end[i])
     /\ \A i, j \in DOMAIN q : i < j => end[i] < end[j]
     /\ \A e \in FrameEnds(s) : \E i \in DOMAIN q : end[i] = e

ReaderInv ==
  /\ Bounds
  /\ input \in Seq(Byte) /\ rest \in Seq(Byte) /\ Consumed \in Seq(Byte) /\ input = Consumed \o rest
  /\ packets \in Seq(Seq(Byte)) /\ gathered \in Packetizer
  /\ reading => ReaderAt(gathered, Consumed)
  /\ ~reading /\ status = "ok" => LastZero(Consumed, Len(Consumed), Len(Consumed) + 1)
  /\ reading \/ status = "ok" => Enumerates(packets, Consumed)

\* What is consumed, when the rest is known; and it with a byte more.
LEMMA Consumes ==
  ASSUME NEW s \in Seq(Byte), NEW t \in Seq(Byte)
  PROVE  /\ SubSeq(s \o t, 1, Len(s \o t) - Len(t)) = s
         /\ s \o t \in Seq(Byte)
         /\ t # <<>> => /\ Head(t) \in Byte /\ Tail(t) \in Seq(Byte)
                        /\ Append(s, Head(t)) \in Seq(Byte)
                        /\ Append(s, Head(t)) \o Tail(t) = s \o t
<1>1. /\ s \o t \in Seq(Byte) /\ Len(s \o t) = Len(s) + Len(t)
      /\ \A i \in 1 .. Len(s) : (s \o t)[i] = s[i]
  BY ConcatProperties
<1>2. SubSeq(s \o t, 1, Len(s \o t) - Len(t)) = s
  <2> DEFINE u == s \o t
             v == SubSeq(u, 1, Len(s))
  <2>1. Len(u) - Len(t) = Len(s) /\ Len(s) \in Nat /\ Len(s) <= Len(u)
    BY <1>1
  <2>2. u \in Seq(Byte) /\ \A i \in 1 .. Len(s) : u[i] = s[i]
    BY <1>1
  <2> HIDE DEF u
  <2>3. v \in Seq(Byte) /\ Len(v) = Len(s) /\ \A i \in 1 .. Len(s) : v[i] = s[i]
    BY <2>1, <2>2
  <2> HIDE DEF v
  <2>4. v = s
    BY <2>3, SeqEqual
  <2> QED BY <2>1, <2>4 DEF u, v
<1>3. ASSUME t # <<>>
      PROVE  /\ Head(t) \in Byte /\ Tail(t) \in Seq(Byte) /\ Append(s, Head(t)) \in Seq(Byte)
             /\ Append(s, Head(t)) \o Tail(t) = s \o t
  <2>1. Head(t) \in Byte /\ Tail(t) \in Seq(Byte) /\ t = <<Head(t)>> \o Tail(t)
    BY <1>3, HeadTailProperties
  <2>2. Append(s, Head(t)) = s \o <<Head(t)>> /\ <<Head(t)>> \in Seq(Byte)
        /\ Append(s, Head(t)) \in Seq(Byte)
    BY <2>1, AppendIsConcat, AppendProperties
  <2>3. (s \o <<Head(t)>>) \o Tail(t) = s \o (<<Head(t)>> \o Tail(t))
    BY <2>1, <2>2, ConcatAssociative
  <2> QED BY <2>1, <2>2, <2>3
<1> QED BY <1>1, <1>2, <1>3

\* A byte more ends a frame, or none.
LEMMA Enumerated ==
  ASSUME NEW s \in Seq(Byte), NEW b \in Byte, NEW q \in Seq(Seq(Byte)), Enumerates(q, s)
  PROVE  /\ Len(s) + 1 \notin FrameEnds(Append(s, b)) => Enumerates(q, Append(s, b))
         /\ Len(s) + 1 \in FrameEnds(Append(s, b)) =>
              \A x \in Seq(Byte) : x = FrameAt(Append(s, b), Len(s) + 1)
                                     => Enumerates(Append(q, x), Append(s, b))
<1> DEFINE t == Append(s, b)
           n == Len(s)
           l == Len(q)
<1>1. /\ n \in Nat /\ FrameEnds(s) \subseteq 1 .. n /\ FrameEnds(s) \subseteq FrameEnds(t)
      /\ FrameEnds(t) \subseteq FrameEnds(s) \union {n + 1}
  BY FrameEndsGrow
<1>2. \A i \in FrameEnds(s) : FrameAt(t, i) = FrameAt(s, i)
  BY <1>1, OpeningStays
<1>3. PICK end \in [DOMAIN q -> FrameEnds(s)] :
        /\ \A i \in DOMAIN q : q[i] = FrameAt(s, end[i])
        /\ \A i, j \in DOMAIN q : i < j => end[i] < end[j]
        /\ \A e \in FrameEnds(s) : \E i \in DOMAIN q : end[i] = e
  BY DEF Enumerates
<1>4. DOMAIN q = 1 .. l /\ l \in Nat
  OBVIOUS
<1> HIDE DEF t, n, l
<1>5. ASSUME n + 1 \notin FrameEnds(t) PROVE Enumerates(q, t)
  <2>1. FrameEnds(t) = FrameEnds(s)
    BY <1>1, <1>5
  <2>2. \A i \in DOMAIN q : q[i] = FrameAt(t, end[i])
    BY <1>2, <1>3
  <2> QED BY <1>3, <2>1, <2>2 DEF Enumerates
<1>6. ASSUME n + 1 \in FrameEnds(t), NEW x \in Seq(Byte), x = FrameAt(t, n + 1)
      PROVE  Enumerates(Append(q, x), t)
  <2> DEFINE r == Append(q, x)
             m == [i \in 1 .. l + 1 |-> IF i = l + 1 THEN n + 1 ELSE end[i]]
  <2>1. DOMAIN r = 1 .. l + 1 /\ r[l + 1] = x /\ \A i \in 1 .. l : r[i] = q[i]
    BY <1>4, AppendProperties DEF l
  <2>2. /\ m \in [1 .. l + 1 -> FrameEnds(t)] /\ m[l + 1] = n + 1
        /\ \A i \in 1 .. l : m[i] = end[i] /\ end[i] \in FrameEnds(s)
    BY <1>1, <1>3, <1>4, <1>6
  <2> HIDE DEF r, m
  <2>3. ASSUME NEW i \in 1 .. l + 1 PROVE r[i] = FrameAt(t, m[i])
    <3>1. CASE i = l + 1
      BY <1>6, <2>1, <2>2, <3>1
    <3>2. CASE i # l + 1
      <4>1. i \in 1 .. l
        BY <1>4, <3>2
      <4> QED BY <1>2, <1>3, <1>4, <2>1, <2>2, <4>1
    <3> QED BY <3>1, <3>2
  <2>4. ASSUME NEW i \in 1 .. l + 1, NEW j \in 1 .. l + 1, i < j PROVE m[i] < m[j]
    <3>1. i \in 1 .. l
      BY <1>4, <2>4
    <3>2. m[i] = end[i] /\ end[i] \in 1 .. n
      BY <1>1, <2>2, <3>1
    <3>3. CASE j = l + 1
      BY <1>1, <2>2, <3>2, <3>3
    <3>4. CASE j # l + 1
      <4>1. j \in 1 .. l
        BY <1>4, <3>4
      <4> QED BY <1>3, <1>4, <2>2, <2>4, <3>1, <4>1
    <3> QED BY <3>3, <3>4
  <2>5. ASSUME NEW e \in FrameEnds(t) PROVE \E i \in 1 .. l + 1 : m[i] = e
    <3>1. CASE e = n + 1
      BY <1>4, <2>2, <3>1
    <3>2. CASE e # n + 1
      <4>1. e \in FrameEnds(s)
        BY <1>1, <3>2
      <4>2. PICK i \in 1 .. l : end[i] = e
        BY <1>3, <1>4, <4>1
      <4> QED BY <1>4, <2>2, <4>2
    <3> QED BY <3>1, <3>2
  <2>6. /\ m \in [DOMAIN r -> FrameEnds(t)]
        /\ \A i \in DOMAIN r : r[i] = FrameAt(t, m[i])
        /\ \A i, j \in DOMAIN r : i < j => m[i] < m[j]
        /\ \A e \in FrameEnds(t) : \E i \in DOMAIN r : m[i] = e
    BY <2>1, <2>2, <2>3, <2>4, <2>5
  <2>7. Enumerates(r, t)
    BY <2>6, Zenon DEF Enumerates
  <2> QED BY <2>7 DEF r
<1> QED BY <1>5, <1>6 DEF t, n

\* A byte goes into the packetizer of a reader.
LEMMA ReaderBehind ==
  ASSUME Bounds, NEW s \in Seq(Byte), NEW b \in Byte, NEW p \in Packetizer, ReaderAt(p, s)
  PROVE  LET r == consume(p, b)
             t == Append(s, b)
         IN  /\ r.pktz \in Packetizer
             /\ r.result = "Continue" => ReaderAt(r.pktz, t) /\ Len(s) + 1 \notin FrameEnds(t)
             /\ r.result = "Finished" => /\ Len(s) + 1 \in FrameEnds(t)
                                         /\ r.pktz.out = FrameAt(t, Len(s) + 1)
                                         /\ LastZero(t, Len(s) + 1, Len(s) + 2)
<1> DEFINE r == consume(p, b)
           t == Append(s, b)
           n == Len(s)
<1>1. Behind(r, s, b, {})
  BY ConsumeBehind DEF ReaderAt
<1>2. n + 1 \in FrameEnds(t) <=> b = 0 /\ \E z : LastZero(s, z, n + 1) /\ z < n
  BY FrameEndsGrow
<1>3. n \in Nat /\ Len(t) = n + 1 /\ Len(t) + 1 = n + 2
  BY AppendProperties
<1>4. ASSUME r.result = "Finished"
      PROVE  n + 1 \in FrameEnds(t) /\ r.pktz.out = FrameAt(t, n + 1) /\ LastZero(t, n + 1, n + 2)
  <2>1. b = 0 /\ (\E z : LastZero(s, z, n + 1) /\ z < n) /\ r.pktz.out = FrameAt(t, n + 1)
    <3> HIDE DEF r
    <3> QED BY <1>1, <1>4 DEF Behind
  <2> QED BY <1>2, <2>1, LastZeroMoves
<1>5. ASSUME r.result = "Continue"
      PROVE  ReaderAt(r.pktz, t) /\ n + 1 \notin FrameEnds(t)
  <2>1. At(r.pktz, t, {})
    <3> HIDE DEF r
    <3> QED BY <1>1, <1>5 DEF Behind
  <2>2. p.state \in {"Sync", "SkipDelim", "Within"}
    BY DEF Packetizer
  <2>3. CASE p.state = "Sync"
    <3>1. \A z : ~LastZero(s, z, n + 1)
      BY <2>3 DEF ReaderAt
    <3>2. n + 1 \notin FrameEnds(t)
      BY <1>2, <3>1
    <3>3. r = Continue(IF b = 0 THEN [p EXCEPT !.state = "SkipDelim"] ELSE p)
      BY <2>3 DEF consume, consumeSync
    <3>4. b = 0 => r.pktz.state # "Sync"
      BY <3>3 DEF Continue, Packetizer
    <3>5. b # 0 => \A z : ~LastZero(t, z, Len(t) + 1)
      BY <1>3, <3>1, LastZeroMoves
    <3> HIDE DEF r
    <3> QED BY <2>1, <3>2, <3>4, <3>5 DEF ReaderAt
  <2>4. CASE p.state # "Sync"
    <3>1. r.pktz.state # "Sync"
      BY <2>2, <2>4 DEF consume, consumeSkipDelim, consumeWithin, Store, Continue
    <3>2. n + 1 \notin FrameEnds(t)
      <4>1. CASE p.state = "SkipDelim"
        <5>1. LastZero(s, n, n + 1)
          BY <4>1 DEF ReaderAt, At, Opened
        <5>2. ~\E z : LastZero(s, z, n + 1) /\ z < n
          BY <1>3, <5>1, LastZeroOnce
        <5> QED BY <1>2, <5>2
      <4>2. CASE p.state = "Within"
        <5>1. b # 0
          BY <1>5, <4>2 DEF consume, consumeWithin
        <5> QED BY <1>2, <5>1
      <4> QED BY <2>2, <2>4, <4>1, <4>2
    <3> HIDE DEF r
    <3> QED BY <2>1, <3>1, <3>2 DEF ReaderAt
  <2> QED BY <2>3, <2>4
<1>6. r.pktz \in Packetizer
  <2> HIDE DEF r
  <2> QED BY <1>1 DEF Behind
<1> QED BY <1>4, <1>5, <1>6

-----------------------------------------------------------------------------
\* Before the first call.
LEMMA ReaderStarts == Bounds /\ ReaderInit => ReaderInv
<1> SUFFICES ASSUME Bounds, ReaderInit PROVE ReaderInv
  OBVIOUS
<1>1. /\ reading = FALSE /\ gathered = create(TRUE) /\ rest = <<>> /\ status = "failed"
      /\ input = <<>> /\ packets = <<>>
  BY DEF ReaderInit
<1>2. Consumed = <<>>
  BY <1>1 DEF Consumed
<1>3. create(TRUE) \in Packetizer
  BY DEF create, Packetizer
<1>4. input \in Seq(Byte) /\ rest \in Seq(Byte) /\ Consumed \in Seq(Byte) /\ packets \in Seq(Seq(Byte))
  BY <1>1, <1>2
<1>5. Consumed \o rest = rest
  BY <1>2, <1>4, ConcatEmptySeq
<1> QED BY <1>1, <1>3, <1>4, <1>5 DEF ReaderInv

\* A call: afresh, or with what is left.
LEMMA CallInv == ASSUME ReaderInv, ReadSynced \/ ReadNext PROVE ReaderInv'
<1>1. create(TRUE) \in Packetizer /\ create(FALSE) \in Packetizer
  BY DEF create, Packetizer
<1>2. Bounds'
  BY DEF ReaderInv, Bounds
<1>3. CASE ReadSynced
  <2>1. /\ reading' = TRUE /\ gathered' = create(TRUE) /\ rest' = <<>> /\ input' = <<>> /\ packets' = <<>>
        /\ Consumed' = <<>>
    BY <1>3 DEF ReadSynced, Consumed
  <2>2. ReaderAt(create(TRUE), <<>>)
    BY DEF ReaderAt, At, Lost, LastZero, create
  <2>3. Enumerates(<<>>, <<>>)
    <3> DEFINE e == <<>>
               m == [i \in {} |-> i]
    <3>1. DOMAIN e = {}
      OBVIOUS
    <3> HIDE DEF e
    <3>2. FrameEnds(e) = {}
      BY <3>1 DEF FrameEnds
    <3>3. m \in [DOMAIN e -> FrameEnds(e)]
      BY <3>1
    <3> HIDE DEF m
    <3>4. Enumerates(e, e)
      BY <3>1, <3>2, <3>3 DEF Enumerates
    <3> QED BY <3>4 DEF e
  <2>4. /\ input' \in Seq(Byte) /\ rest' \in Seq(Byte) /\ Consumed' \in Seq(Byte)
        /\ packets' \in Seq(Seq(Byte))
    BY <2>1
  <2>5. Consumed' \o rest' = rest'
    BY <2>1, <2>4, ConcatEmptySeq
  <2>6. ReaderAt(gathered', Consumed') /\ Enumerates(packets', Consumed')
    BY <2>1, <2>2, <2>3
  <2> QED BY <1>1, <1>2, <2>1, <2>4, <2>5, <2>6 DEF ReaderInv
<1>4. CASE ReadNext
  <2>1. /\ ~reading /\ status = "ok" /\ reading' = TRUE /\ gathered' = create(FALSE)
        /\ UNCHANGED <<rest, status, input, packets>> /\ Consumed' = Consumed
    BY <1>4 DEF ReadNext, Consumed
  <2>2. ReaderAt(create(FALSE), Consumed)
    BY <2>1 DEF ReaderInv, ReaderAt, At, Opened, create
  <2> QED BY <1>1, <1>2, <2>1, <2>2 DEF ReaderInv
<1> QED BY <1>3, <1>4

\* A call fails; all that was read counts as consumed.
LEMMA FailsInv ==
  ASSUME ReaderInv, Bounds', failed, input' = input, gathered' \in Packetizer
  PROVE  ReaderInv'
<1>1. /\ input \in Seq(Byte) /\ packets \in Seq(Seq(Byte))
      /\ packets' = packets /\ rest' = <<>> /\ reading' = FALSE /\ status' = "failed"
  BY DEF ReaderInv, failed
<1>2. input \o <<>> = input /\ <<>> \in Seq(Byte)
  BY <1>1, ConcatEmptySeq
<1>3. Consumed' = SubSeq(input \o <<>>, 1, Len(input \o <<>>) - Len(<<>>))
  BY <1>1, <1>2 DEF Consumed
<1>4. Consumed' = input
  BY <1>1, <1>2, <1>3, Consumes
<1>5. input' = Consumed' \o rest' /\ Consumed' \in Seq(Byte)
  BY <1>1, <1>2, <1>4
<1> QED BY <1>1, <1>2, <1>5 DEF ReaderInv

\* A byte of the prefix or of the buffer.
LEMMA ReadByteInv == ASSUME ReaderInv, ReadByte PROVE ReaderInv'
<1> DEFINE s == Consumed
           b == Head(rest)
           t == Append(s, b)
           r == consume(gathered, b)
           n == Len(s)
<1>1. /\ Bounds /\ input \in Seq(Byte) /\ rest \in Seq(Byte) /\ s \in Seq(Byte) /\ input = s \o rest
      /\ packets \in Seq(Seq(Byte)) /\ gathered \in Packetizer
      /\ ReaderAt(gathered, s) /\ Enumerates(packets, s) /\ rest # <<>>
  BY DEF ReaderInv, ReadByte
<1>2. b \in Byte /\ Tail(rest) \in Seq(Byte) /\ t \in Seq(Byte) /\ input = t \o Tail(rest)
  BY <1>1, Consumes
<1>3. /\ gathered' = r.pktz /\ input' = input
      /\ \/ r.result = "Finished" /\ finish(r.pktz.out)
         \/ r.result \in {"Finished", "Overflow"} /\ failed
         \/ r.result = "Continue" /\ rest' = Tail(rest) /\ UNCHANGED <<reading, status, packets>>
  BY DEF ReadByte
<1>4. /\ r.pktz \in Packetizer
      /\ r.result = "Continue" => ReaderAt(r.pktz, t) /\ n + 1 \notin FrameEnds(t)
      /\ r.result = "Finished" => /\ n + 1 \in FrameEnds(t) /\ r.pktz.out = FrameAt(t, n + 1)
                                  /\ LastZero(t, n + 1, n + 2)
  BY <1>1, <1>2, ReaderBehind
<1>5. r.pktz.out \in Seq(Byte)
  BY <1>4 DEF Packetizer
<1>6. Len(t) = n + 1 /\ Len(t) + 1 = n + 2
  BY <1>1, <1>2, AppendProperties
<1>7. /\ n + 1 \notin FrameEnds(t) => Enumerates(packets, t)
      /\ n + 1 \in FrameEnds(t) => \A x \in Seq(Byte) : x = FrameAt(t, n + 1)
                                                     => Enumerates(Append(packets, x), t)
  BY <1>1, <1>2, Enumerated
<1>8. Bounds'
  BY <1>1 DEF Bounds
<1>9. rest' = Tail(rest) => Consumed' = t
  <2> SUFFICES ASSUME rest' = Tail(rest) PROVE Consumed' = t
    OBVIOUS
  <2>1. Consumed' = SubSeq(t \o Tail(rest), 1, Len(t \o Tail(rest)) - Len(Tail(rest)))
    BY <1>2, <1>3 DEF Consumed
  <2> QED BY <1>2, <2>1, Consumes
<1> HIDE DEF s, b, t, r, n
<1>10. CASE r.result = "Finished" /\ finish(r.pktz.out)
  <2>1. /\ packets' = Append(packets, r.pktz.out) /\ rest' = Tail(rest)
        /\ reading' = FALSE /\ status' = "ok"
    BY <1>10 DEF finish
  <2>2. Enumerates(packets', t) /\ packets' \in Seq(Seq(Byte))
    BY <1>1, <1>4, <1>5, <1>7, <1>10, <2>1, AppendProperties
  <2>3. LastZero(t, Len(t), Len(t) + 1)
    BY <1>4, <1>6, <1>10
  <2> QED BY <1>2, <1>3, <1>4, <1>8, <1>1, <1>9, <2>1, <2>2, <2>3 DEF ReaderInv
<1>11. CASE r.result \in {"Finished", "Overflow"} /\ failed
  BY <1>3, <1>4, <1>8, <1>11, FailsInv
<1>12. CASE r.result = "Continue" /\ rest' = Tail(rest) /\ UNCHANGED <<reading, status, packets>>
  <2>1. reading'
    BY <1>12 DEF ReadByte
  <2> QED BY <1>1, <1>2, <1>3, <1>4, <1>7, <1>8, <1>9, <1>12, <2>1 DEF ReaderInv
<1> QED BY <1>3, <1>10, <1>11, <1>12

\* A buffer, the end of the time, or nothing.
LEMMA WaitInv ==
  ASSUME ReaderInv, \/ \E b \in BoundedSeq(Byte, maxRead) : Source(b)
                    \/ TimesOut \/ NoBuffer
                    \/ UNCHANGED readerVars
  PROVE  ReaderInv'
<1>1. Bounds'
  BY DEF ReaderInv, Bounds
<1>2. ASSUME NEW b \in BoundedSeq(Byte, maxRead), Source(b) PROVE ReaderInv'
  <2>1. b \in Seq(Byte)
    <3>1. PICK m \in 0 .. maxRead : b \in [1 .. m -> Byte]
      BY DEF BoundedSeq, SeqOf
    <3>2. m \in Nat
      BY DEF ReaderInv, Bounds
    <3> QED BY <3>1, <3>2
  <2>2. /\ rest = <<>> /\ input' = input \o b /\ rest' = b
        /\ UNCHANGED <<reading, gathered, status, packets>>
    BY <1>2 DEF Source
  <2>3. input = Consumed /\ Consumed \in Seq(Byte)
    BY <2>2, ConcatEmptySeq DEF ReaderInv
  <2>4. Consumed' = SubSeq(Consumed \o b, 1, Len(Consumed \o b) - Len(b))
    BY <2>2, <2>3 DEF Consumed
  <2>5. Consumed' = Consumed
    BY <2>1, <2>3, <2>4, Consumes
  <2>6. input' \in Seq(Byte)
    BY <2>1, <2>2, <2>3, Consumes
  <2> QED BY <1>1, <2>1, <2>2, <2>3, <2>5, <2>6 DEF ReaderInv
<1>3. CASE TimesOut \/ NoBuffer
  <2>1. failed /\ UNCHANGED <<gathered, input>>
    BY <1>3 DEF TimesOut, NoBuffer
  <2> QED BY <1>1, <2>1, FailsInv DEF ReaderInv
<1>4. CASE UNCHANGED readerVars
  <2>1. Consumed' = Consumed
    BY <1>4 DEF Consumed, readerVars
  <2> QED BY <1>1, <1>4, <2>1 DEF ReaderInv, readerVars
<1> QED BY <1>2, <1>3, <1>4

\* The invariant, of every behaviour.
LEMMA ReaderKeeps == Bounds /\ ReaderSpec => []ReaderInv
<1>1. Bounds /\ ReaderInit => ReaderInv
  BY ReaderStarts
<1>2. ReaderInv /\ [ReaderNext]_readerVars => ReaderInv'
  BY CallInv, ReadByteInv, WaitInv DEF ReaderNext
<1> QED BY <1>1, <1>2, PTL DEF ReaderSpec

(* For any stream, cut into buffers of any size, and packets of any size:  *)
(* until a call fails, the calls together return every frame of what they  *)
(* have read, each once, whole and in order, although a buffer may end in  *)
(* a frame or hold many (read_packet-impl.h:22-87).                        *)
THEOREM EveryFrameReturned == Bounds /\ ReaderSpec => []ReturnsEveryFrame
<1>1. ReaderInv => ReturnsEveryFrame
  BY DEF ReaderInv, Enumerates, ReturnsEveryFrame
<1> QED BY <1>1, ReaderKeeps, PTL

\* What follows the last zero, and that zero, is a suffix.
LEMMA GatheredIsSuffix ==
  ASSUME NEW s \in Seq(Byte), NEW z, LastZero(s, z, Len(s) + 1), z < Len(s), 0 \in Byte
  PROVE  IsSuffix(<<0>> \o SubSeq(s, z + 1, Len(s)), s) /\ SubSeq(s, z + 1, Len(s)) # <<>>
<1> DEFINE n == Len(s)
           w == SubSeq(s, z + 1, n)
           v == <<0>> \o w
           l == n - z + 1
<1>1. n \in Nat /\ z \in 1 .. n /\ s[z] = 0 /\ l \in Nat /\ l <= n
  BY DEF LastZero
<1>2. w \in Seq(Byte) /\ Len(w) = l - 1 /\ \A i \in 1 .. l - 1 : w[i] = s[z + i]
  BY <1>1
<1> HIDE DEF w
<1>3. v \in Seq(Byte) /\ Len(v) = l /\ \A i \in 1 .. l : v[i] = s[z + i - 1]
  <2>1. <<0>> \in Seq(Byte) /\ Len(<<0>>) = 1 /\ <<0>>[1] = 0
    OBVIOUS
  <2>2. /\ v \in Seq(Byte) /\ Len(v) = 1 + Len(w)
        /\ \A i \in 1 .. 1 + Len(w) : v[i] = IF i <= 1 THEN <<0>>[i] ELSE w[i - 1]
    BY <1>2, <2>1, ConcatProperties
  <2> HIDE DEF v
  <2>3. ASSUME NEW i \in 1 .. l PROVE v[i] = s[z + i - 1]
    <3>1. CASE i = 1
      BY <1>1, <1>2, <2>1, <2>2, <3>1
    <3>2. CASE i # 1
      <4>1. i - 1 \in 1 .. l - 1 /\ z + (i - 1) = z + i - 1
        BY <1>1, <3>2
      <4> QED BY <1>1, <1>2, <2>2, <3>2, <4>1
    <3> QED BY <3>1, <3>2
  <2> QED BY <1>1, <1>2, <2>2, <2>3
<1> HIDE DEF v
<1> DEFINE x == Reverse(v)
           y == Reverse(s)
<1>4. /\ x = [i \in 1 .. l |-> v[l - i + 1]] /\ y = [i \in 1 .. n |-> s[n - i + 1]]
  BY <1>3 DEF Reverse
<1>5. x \in Seq(Byte) /\ Len(x) = l /\ y \in Seq(Byte) /\ Len(y) = n
  <2>1. \A i \in 1 .. l : v[l - i + 1] \in Byte
    BY <1>1, <1>3
  <2>2. \A i \in 1 .. n : s[n - i + 1] \in Byte
    BY <1>1
  <2> HIDE DEF x, y, l, n
  <2> QED BY <1>1, <1>4, <2>1, <2>2
<1>6. ASSUME NEW i \in 1 .. l PROVE x[i] = y[i]
  <2>1. l - i + 1 \in 1 .. l /\ z + (l - i + 1) - 1 = n - i + 1 /\ i \in 1 .. n
    BY <1>1
  <2>2. v[l - i + 1] = s[n - i + 1]
    BY <1>3, <2>1
  <2> HIDE DEF x, y
  <2> QED BY <1>4, <2>1, <2>2
<1> HIDE DEF x, y
<1>7. SubSeq(x, 1, Len(x)) = SubSeq(y, 1, Len(x))
  <2> DEFINE p == SubSeq(x, 1, l)
             q == SubSeq(y, 1, l)
  <2>1. p \in Seq(Byte) /\ Len(p) = l /\ \A i \in 1 .. l : p[i] = x[i]
    BY <1>1, <1>5
  <2>2. q \in Seq(Byte) /\ Len(q) = l /\ \A i \in 1 .. l : q[i] = y[i]
    BY <1>1, <1>5
  <2> HIDE DEF p, q
  <2>3. p = q
    BY <1>6, <2>1, <2>2, SeqEqual
  <2> QED BY <1>5, <2>3 DEF p, q
<1>8. IsSuffix(v, s)
  BY <1>1, <1>5, <1>7 DEF IsSuffix, IsPrefix, x, y
<1>9. w # <<>>
  BY <1>1, <1>2
<1> QED BY <1>8, <1>9 DEF v, w

(* For the same readers: a call that has a packet under way has all of it, *)
(* from the zero before it (read_packet-impl.h:22-87).                     *)
THEOREM PartialFrameWhole == Bounds /\ ReaderSpec => []PartialFrame
<1>1. ReaderInv => PartialFrame
  <2> SUFFICES ASSUME ReaderInv, reading, gathered.state = "Within"
               PROVE  IsSuffix(<<0>> \o gathered.out, Consumed) /\ gathered.out # <<>>
    BY DEF PartialFrame
  <2>1. Consumed \in Seq(Byte) /\ 0 \in Byte /\ Gathering(gathered, Consumed, {})
    BY DEF ReaderInv, ReaderAt, At, Bounds
  <2>2. PICK z : /\ LastZero(Consumed, z, Len(Consumed) + 1) /\ z < Len(Consumed)
                 /\ gathered.out = SubSeq(Consumed, z + 1, Len(Consumed))
    BY <2>1 DEF Gathering
  <2> QED BY <2>1, <2>2, GatheredIsSuffix
<1> QED BY <1>1, ReaderKeeps, PTL

-----------------------------------------------------------------------------
(* A packetizer never holds more than a packet, nor a zero.                *)
Fits(p) == /\ p.state \in {"Sync", "SkipDelim", "Within"}
           /\ p.out \in Seq(Byte \ {0}) /\ Len(p.out) <= maxSize

\* A fresh one, and one that has consumed a byte.
LEMMA ConsumeFits ==
  ASSUME Bounds
  PROVE  /\ Fits(create(TRUE)) /\ Fits(create(FALSE))
         /\ \A p, b : Fits(p) /\ b \in Byte => Fits(consume(p, b).pktz)
<1>1. Fits(create(TRUE)) /\ Fits(create(FALSE))
  BY DEF Fits, create, Bounds
<1>2. ASSUME NEW p, NEW b, Fits(p), b \in Byte PROVE Fits(consume(p, b).pktz)
  <2> DEFINE r == consume(p, b)
  <2>1. b # 0 => Fits(Store(p, b).pktz)
    <3> SUFFICES ASSUME b # 0 PROVE Fits(Store(p, b).pktz)
      OBVIOUS
    <3>1. CASE Len(p.out) = maxSize
      BY <1>2, <3>1 DEF Store
    <3>2. CASE Len(p.out) # maxSize
      <4> DEFINE o == Append(p.out, b)
      <4>1. o \in Seq(Byte \ {0}) /\ Len(o) = Len(p.out) + 1
        BY <1>2, AppendProperties DEF Fits
      <4>2. Len(o) <= maxSize
        BY <1>2, <3>2, <4>1 DEF Fits, Bounds
      <4>3. Store(p, b).pktz = [state |-> "Within", out |-> o]
        BY <3>2 DEF Store, Continue
      <4> HIDE DEF o
      <4> QED BY <4>1, <4>2, <4>3 DEF Fits
    <3> QED BY <3>1, <3>2
  <2>2. CASE p.state = "Sync"
    <3>1. r = consumeSync(p, b)
      BY <2>2 DEF consume
    <3> HIDE DEF r
    <3>2. CASE b = 0
      <4>1. consumeSync(p, b).pktz = [p EXCEPT !.state = "SkipDelim"]
        BY <3>2 DEF consumeSync, Continue
      <4>2. Fits([p EXCEPT !.state = "SkipDelim"])
        <5>1. PICK q : q = [p EXCEPT !.state = "SkipDelim"]
          OBVIOUS
        <5>2. q.state \in {"SkipDelim", p.state} /\ q.out = p.out
          BY <5>1
        <5> QED BY <1>2, <5>1, <5>2 DEF Fits
      <4> QED BY <3>1, <4>1, <4>2 DEF r
    <3>3. CASE b # 0
      BY <1>2, <3>1, <3>3 DEF consumeSync, Continue, r
    <3> QED BY <3>2, <3>3
  <2>3. CASE p.state = "SkipDelim"
    <3>1. r = consumeSkipDelim(p, b)
      BY <2>3 DEF consume
    <3>2. CASE b = 0
      BY <1>2, <3>1, <3>2 DEF consumeSkipDelim, Continue
    <3>3. CASE b # 0
      BY <2>1, <3>1, <3>3 DEF consumeSkipDelim
    <3> QED BY <3>2, <3>3
  <2>4. CASE p.state = "Within"
    <3>1. r = consumeWithin(p, b)
      BY <2>4 DEF consume
    <3>2. CASE b = 0
      BY <1>2, <3>1, <3>2 DEF consumeWithin
    <3>3. CASE b # 0
      BY <2>1, <3>1, <3>3 DEF consumeWithin
    <3> QED BY <3>2, <3>3
  <2> QED BY <1>2, <2>2, <2>3, <2>4 DEF Fits
<1> QED BY <1>1, <1>2

(* The packetizer of a reader holds at most a packet, of bytes other than  *)
(* zero, and the suffix is at most what source() returned                  *)
(* (read_packet-impl.h:22-87).                                             *)
THEOREM ReaderTypes == Bounds /\ ReaderSpec => []ReaderTypeOK
<1> DEFINE I == Bounds /\ ReaderTypeOK
<1>1. Bounds /\ ReaderInit => I
  <2> SUFFICES ASSUME Bounds, ReaderInit PROVE ReaderTypeOK
    OBVIOUS
  <2>1. reading = FALSE /\ gathered = create(TRUE) /\ rest = <<>> /\ status = "failed"
    BY DEF ReaderInit
  <2>2. Fits(gathered)
    BY <2>1, ConsumeFits
  <2>3. rest \in Seq(Byte) /\ Len(rest) <= maxRead
    BY <2>1 DEF Bounds
  <2> QED BY <2>1, <2>2, <2>3 DEF ReaderTypeOK, Fits
<1>2. I /\ [ReaderNext]_readerVars => I'
  <2> SUFFICES ASSUME I, [ReaderNext]_readerVars PROVE ReaderTypeOK'
    BY DEF Bounds
  <2>1. /\ reading \in BOOLEAN /\ status \in {"ok", "failed"} /\ Fits(gathered)
        /\ rest \in Seq(Byte) /\ Len(rest) <= maxRead /\ maxRead \in Nat
    BY DEF ReaderTypeOK, Fits, Bounds
  <2>2. Fits(create(TRUE)) /\ Fits(create(FALSE)) /\ <<>> \in Seq(Byte) /\ Len(<<>>) <= maxRead
    <3>1. Fits(create(TRUE)) /\ Fits(create(FALSE))
      BY ConsumeFits
    <3>2. <<>> \in Seq(Byte) /\ Len(<<>>) <= maxRead
      BY <2>1
    <3> QED BY <3>1, <3>2
  <2>3. reading' \in BOOLEAN /\ status' \in {"ok", "failed"} /\ Fits(gathered')
        /\ rest' \in Seq(Byte) /\ Len(rest') <= maxRead
    <3>1. CASE ReadSynced
      BY <2>1, <2>2, <3>1 DEF ReadSynced
    <3>2. CASE ReadNext
      BY <2>1, <2>2, <3>2 DEF ReadNext
    <3>3. CASE ReadByte
      <4>1. rest # <<>> /\ gathered' = consume(gathered, Head(rest)).pktz
        BY <3>3 DEF ReadByte
      <4>2. Head(rest) \in Byte /\ Tail(rest) \in Seq(Byte) /\ Len(Tail(rest)) <= maxRead
        BY <2>1, <4>1, HeadTailProperties
      <4>3. Fits(gathered')
        BY <2>1, <4>1, <4>2, ConsumeFits
      <4>4. /\ rest' \in {Tail(rest), <<>>}
            /\ reading' \in {FALSE, reading} /\ status' \in {"ok", "failed", status}
        BY <3>3 DEF ReadByte, finish, failed
      <4> QED BY <2>1, <2>2, <4>2, <4>3, <4>4
    <3>4. CASE TimesOut \/ NoBuffer
      BY <2>1, <2>2, <3>4 DEF TimesOut, NoBuffer, failed
    <3>5. ASSUME NEW b \in BoundedSeq(Byte, maxRead), Source(b)
          PROVE  rest' \in Seq(Byte) /\ Len(rest') <= maxRead
                 /\ UNCHANGED <<reading, gathered, status>>
      <4>1. PICK m \in 0 .. maxRead : b \in [1 .. m -> Byte]
        BY DEF BoundedSeq, SeqOf
      <4>2. b \in Seq(Byte) /\ Len(b) = m
        BY <2>1, <4>1
      <4> QED BY <2>1, <3>5, <4>2 DEF Source
    <3>6. CASE UNCHANGED readerVars
      BY <2>1, <3>6 DEF readerVars
    <3> QED BY <2>1, <3>1, <3>2, <3>3, <3>4, <3>5, <3>6 DEF ReaderNext
  <2> QED BY <2>3 DEF ReaderTypeOK, Fits
<1> QED BY <1>1, <1>2, PTL DEF ReaderSpec

(* The same of the thread: the packet in its mailbox is at most maxSize    *)
(* long, and no more is fetched than the bound of the stream               *)
(* (packetizer_thread_function.h:26-71).                                   *)
THEOREM ThreadTypes == Bounds /\ MaxStream \in Nat /\ Spec => []TypeOK
<1> DEFINE I == /\ Bounds /\ MaxStream \in Nat /\ TypeOK
                /\ handled \subseteq 1 .. Len(stream) /\ Len(stream) + Len(fetched) <= MaxStream
<1>1. Bounds /\ MaxStream \in Nat /\ Init => I
  <2> SUFFICES ASSUME Bounds, MaxStream \in Nat, Init PROVE I
    OBVIOUS
  <2>1. /\ fetched = <<>> /\ pktz = create(TRUE) /\ out = <<>> /\ error = "none"
        /\ stream = <<>> /\ handled = {}
    BY DEF Init
  <2>2. Fits(pktz)
    BY <2>1, ConsumeFits
  <2>3. /\ fetched \in Seq(Byte) /\ stream \in Seq(Byte) /\ Len(out) <= maxSize
        /\ Len(stream) + Len(fetched) <= MaxStream
    BY <2>1 DEF Bounds
  <2> QED BY <2>1, <2>2, <2>3 DEF TypeOK, Fits
<1>2. I /\ [Next]_vars => I'
  <2> SUFFICES ASSUME I, [Next]_vars PROVE I'
    OBVIOUS
  <2>1. /\ fetched \in Seq(Byte) /\ stream \in Seq(Byte) /\ handled \subseteq 1 .. Len(stream)
        /\ Fits(pktz) /\ Len(out) <= maxSize /\ error \in {"none", "Timeout", "PacketizerOverflow"}
        /\ Len(stream) + Len(fetched) <= MaxStream /\ MaxStream \in Nat /\ Bounds
    BY DEF TypeOK, Fits
  <2> HIDE DEF I
  <2>2. Fits(create(TRUE))
    BY <2>1, ConsumeFits
  <2>3. /\ fetched' \in Seq(Byte) /\ stream' \in Seq(Byte) /\ handled' \subseteq 1 .. Len(stream')
        /\ Fits(pktz') /\ Len(out') <= maxSize /\ error' \in {"none", "Timeout", "PacketizerOverflow"}
        /\ Len(stream') + Len(fetched') <= MaxStream
    <3>1. CASE Fetch
      <4>1. PICK b \in BoundedSeq(Byte, MaxRead) : Len(stream) + Len(b) <= MaxStream /\ fetched' = b
        BY <3>1 DEF Fetch
      <4>2. PICK m \in 0 .. MaxRead : b \in [1 .. m -> Byte]
        BY DEF BoundedSeq, SeqOf
      <4>3. m \in Nat
        BY <2>1 DEF Bounds
      <4>4. fetched' \in Seq(Byte) /\ Len(stream) + Len(fetched') <= MaxStream
        BY <4>1, <4>2, <4>3
      <4> QED BY <2>1, <3>1, <4>4 DEF Fetch
    <3>2. CASE Consume
      <4> DEFINE b == Head(fetched)
                 r == consume(pktz, b)
      <4>1. fetched # <<>> /\ fetched' = Tail(fetched) /\ stream' = Append(stream, b)
        BY <3>2 DEF Consume
      <4>2. /\ b \in Byte /\ fetched' \in Seq(Byte) /\ Len(fetched') = Len(fetched) - 1
            /\ stream' \in Seq(Byte) /\ Len(stream') = Len(stream) + 1
        BY <2>1, <4>1, HeadTailProperties, AppendProperties
      <4>3. Fits(r.pktz)
        BY <2>1, <4>2, ConsumeFits
      <4>4. Len(r.pktz.out) <= maxSize
        <5> HIDE DEF r
        <5> QED BY <4>3 DEF Fits
      <4>5. \/ overflow(r.pktz) \/ finished(r.pktz)
            \/ pktz' = r.pktz /\ error' = "none" /\ UNCHANGED <<out, handled>>
        BY <3>2 DEF Consume
      <4> HIDE DEF b, r
      <4>6. /\ pktz' \in {r.pktz, create(TRUE)} /\ out' \in {out, r.pktz.out}
            /\ error' \in {"none", "Timeout", "PacketizerOverflow"}
            /\ handled' \subseteq handled \union {Len(stream')}
        BY <4>5 DEF overflow, finished, post
      <4>7. handled' \subseteq 1 .. Len(stream')
        <5>1. Len(stream) \in Nat
          BY <2>1
        <5>2. 1 .. Len(stream) \subseteq 1 .. Len(stream') /\ Len(stream') \in 1 .. Len(stream')
          BY <4>2, <5>1
        <5> QED BY <2>1, <4>6, <5>2
      <4>8. Len(stream') + Len(fetched') = Len(stream) + Len(fetched)
        BY <2>1, <4>2
      <4>9. Fits(pktz')
        BY <2>2, <4>3, <4>6
      <4>10. Len(out') <= maxSize
        BY <2>1, <4>4, <4>6
      <4> QED BY <2>1, <4>2, <4>6, <4>7, <4>8, <4>9, <4>10
    <3>3. CASE Take
      <4>1. Len(out') <= maxSize
        BY <2>1, <3>3 DEF Take, Bounds
      <4> QED BY <2>1, <3>3, <4>1 DEF Take
    <3>4. CASE UNCHANGED vars
      BY <2>1, <3>4 DEF vars
    <3> QED BY <3>1, <3>2, <3>3, <3>4 DEF Next
  <2>4. handled' \subseteq 1 .. MaxStream
    <3>1. Len(stream') \in Nat /\ Len(fetched') \in Nat
      BY <2>3
    <3>2. Len(stream') <= MaxStream
      BY <2>1, <2>3, <3>1
    <3>3. 1 .. Len(stream') \subseteq 1 .. MaxStream
      BY <2>1, <3>1, <3>2
    <3> QED BY <2>3, <3>3
  <2> QED BY <2>1, <2>3, <2>4 DEF I, TypeOK, Fits, Bounds
<1> QED BY <1>1, <1>2, PTL DEF Spec
=============================================================================
