---------------------------- MODULE PacketProofs ----------------------------
(* Theorems about Packet.tla, for any lengths, any base and any number of  *)
(* messages.                                                               *)
EXTENDS Packet, TLAPS, SequenceTheorems, WellFoundedInduction

-------------------------------------------------------------------------------
(* Induction over the natural numbers, for a set instead of a predicate.   *)

LEMMA LeastElement ==
  ASSUME NEW T \in SUBSET Nat, T # {}
  PROVE  \E n \in T : \A k \in T : n <= k
<1>. DEFINE R == OpToRel(<, Nat)
<1>1. IsWellFoundedOn(R, Nat)
  BY NatLessThanWellFounded
<1>2. PICK n \in T : \A k \in T : <<k, n>> \notin R
  <2>. HIDE DEF R
  <2>. QED
    BY <1>1, WFMin
<1>3. ASSUME NEW k \in T
      PROVE  n <= k
  <2>1. n \in Nat /\ k \in Nat /\ <<k, n>> \in Nat \X Nat
    OBVIOUS
  <2>2. ~(k < n)
    BY <1>2, <2>1 DEF OpToRel
  <2>. QED
    BY <2>1, <2>2
<1>. QED
  BY <1>3

LEMMA SetInduction ==
  ASSUME NEW S, 0 \in S, \A n \in Nat : n \in S => n + 1 \in S
  PROVE  Nat \subseteq S
<1>. DEFINE T == Nat \ S
<1>. SUFFICES ASSUME T # {}
              PROVE  FALSE
  OBVIOUS
<1>1. PICK n \in T : \A k \in T : n <= k
  BY LeastElement
<1>2. n # 0 /\ n - 1 \in Nat /\ n - 1 \notin T
  BY <1>1
<1>. QED
  BY <1>2

(* Places that are counted up are counted from the first.                  *)
LEMMA Counted ==
  ASSUME NEW at, NEW n \in Nat, at[1] \in Nat, \A j \in 1..n : at[j + 1] = at[j] + 1
  PROVE  \A j \in 0..n : at[j + 1] = at[1] + j
<1>. DEFINE S == {j \in Nat : j <= n => at[j + 1] = at[1] + j}
<1>1. 0 \in S
  OBVIOUS
<1>2. ASSUME NEW j \in Nat, j \in S
      PROVE  j + 1 \in S
  <2>. SUFFICES ASSUME j + 1 <= n
                PROVE  at[(j + 1) + 1] = at[1] + (j + 1)
    OBVIOUS
  <2>1. j + 1 \in 1..n /\ j <= n
    OBVIOUS
  <2>2. at[j + 1] = at[1] + j
    BY <1>2, <2>1
  <2>3. at[(j + 1) + 1] = at[j + 1] + 1
    BY <2>1
  <2>. QED
    BY <2>2, <2>3
<1>3. Nat \subseteq S
  <2>. HIDE DEF S
  <2>. QED
    BY <1>1, <1>2, SetInduction
<1>. QED
  BY <1>3

LEMMA Remainder ==
  ASSUME NEW a \in Nat, NEW b \in Nat \ {0}
  PROVE  a % b \in 0..(b - 1) /\ (a < b => a % b = a)
  OBVIOUS

-------------------------------------------------------------------------------
(* Frames.                                                                 *)

LEMMA Constants ==
  /\ Base \in Nat \ {0} /\ CommonLen \in Nat \ {0} /\ CommonLen < Base
  /\ MaxMessages \in Nat /\ Mangled \notin Nat /\ Sizes \subseteq Nat
  BY PacketConstants DEF PacketConstants

LEMMA BodyUnits ==
  ASSUME NEW part \in {"common", "msg"}, NEW i \in 1..MaxMessages, NEW l \in Nat
  PROVE  /\ Body(part, i, l) \in Seq(Units \ {Cut}) /\ Len(Body(part, i, l)) = l
         /\ \A j \in 1..l : Body(part, i, l)[j] = Unit(part, i, j)
<1>1. \A j \in 1..l : Unit(part, i, j) \in Units \ {Cut}
  BY Constants DEF Unit, Units, Cut
<1>2. Body(part, i, l) \in [1..l -> Units \ {Cut}]
  BY <1>1 DEF Body
<1>3. Body(part, i, l) \in Seq(Units \ {Cut}) /\ Len(Body(part, i, l)) = l
  BY <1>2
<1>. QED
  BY <1>3 DEF Body

LEMMA Joined ==
  ASSUME NEW S, NEW s \in Seq(S), NEW t \in Seq(S)
  PROVE  /\ s \o t \in Seq(S) /\ Len(s \o t) = Len(s) + Len(t)
         /\ \A j \in 1..Len(s) : (s \o t)[j] = s[j]
         /\ \A j \in 1..Len(t) : (s \o t)[Len(s) + j] = t[j]
<1>1. /\ s \o t \in Seq(S) /\ Len(s \o t) = Len(s) + Len(t)
      /\ \A j \in 1..Len(s) + Len(t) : (s \o t)[j] = IF j <= Len(s) THEN s[j] ELSE t[j - Len(s)]
  BY ConcatProperties
<1>2. Len(s) \in Nat /\ Len(t) \in Nat
  BY LenProperties
<1>3. ASSUME NEW j \in 1..Len(t)
      PROVE  (s \o t)[Len(s) + j] = t[j]
  <2>1. Len(s) + j \in 1..(Len(s) + Len(t)) /\ ~(Len(s) + j <= Len(s)) /\ (Len(s) + j) - Len(s) = j
    BY <1>2
  <2>. QED
    BY <1>1, <2>1
<1>. QED
  BY <1>1, <1>2, <1>3

LEMMA FrameUnits ==
  ASSUME NEW i \in 1..MaxMessages, NEW l \in Nat
  PROVE  /\ Frame(i, l) \in Seq(Units \ {Cut})
         /\ Len(Frame(i, l)) = HeadLen + CommonLen + l
         /\ Frame(i, l)[1] = Unit("length", i, CommonLen)
         /\ Frame(i, l)[2] = Unit("length", i, l % Base)
         /\ \A j \in 1..CommonLen : Frame(i, l)[HeadLen + j] = Unit("common", i, j)
         /\ \A j \in 1..l : Frame(i, l)[HeadLen + CommonLen + j] = Unit("msg", i, j)
<1>. DEFINE U == Units \ {Cut}
            h == <<Unit("length", i, CommonLen), Unit("length", i, l % Base)>>
            c == Body("common", i, CommonLen)
            b == Body("msg", i, l)
<1>1. l % Base \in Nat
  BY Constants, Remainder
<1>2. h \in Seq(U) /\ Len(h) = 2
  BY <1>1, Constants DEF Unit, Units, Cut
<1>3. c \in Seq(U) /\ Len(c) = CommonLen /\ \A j \in 1..CommonLen : c[j] = Unit("common", i, j)
  BY BodyUnits, Constants
<1>4. b \in Seq(U) /\ Len(b) = l /\ \A j \in 1..l : b[j] = Unit("msg", i, j)
  BY BodyUnits
<1>5. Frame(i, l) = (h \o c) \o b
  BY DEF Frame
<1>6. h[1] = Unit("length", i, CommonLen) /\ h[2] = Unit("length", i, l % Base)
  OBVIOUS
<1>. HIDE DEF U, h, c, b
<1>12. h \in Seq(U) /\ c \in Seq(U) /\ b \in Seq(U)
  BY <1>2, <1>3, <1>4
<1>7. /\ h \o c \in Seq(U) /\ Len(h \o c) = 2 + CommonLen
      /\ \A j \in 1..2 : (h \o c)[j] = h[j]
      /\ \A j \in 1..CommonLen : (h \o c)[2 + j] = c[j]
  <2>1. /\ h \o c \in Seq(U) /\ Len(h \o c) = Len(h) + Len(c)
        /\ \A j \in 1..Len(h) : (h \o c)[j] = h[j]
        /\ \A j \in 1..Len(c) : (h \o c)[Len(h) + j] = c[j]
    BY <1>12, Joined
  <2>. QED
    BY <1>2, <1>3, <2>1
<1>8. /\ Frame(i, l) \in Seq(U) /\ Len(Frame(i, l)) = (2 + CommonLen) + l
      /\ \A j \in 1..(2 + CommonLen) : Frame(i, l)[j] = (h \o c)[j]
      /\ \A j \in 1..l : Frame(i, l)[(2 + CommonLen) + j] = b[j]
  <2>1. /\ (h \o c) \o b \in Seq(U) /\ Len((h \o c) \o b) = Len(h \o c) + Len(b)
        /\ \A j \in 1..Len(h \o c) : ((h \o c) \o b)[j] = (h \o c)[j]
        /\ \A j \in 1..Len(b) : ((h \o c) \o b)[Len(h \o c) + j] = b[j]
    <3>1. h \o c \in Seq(U)
      BY <1>7
    <3>. QED
      BY <1>12, <3>1, Joined
  <2>. QED
    BY <1>4, <1>5, <1>7, <2>1
<1>9. \A j \in 1..CommonLen : Frame(i, l)[2 + j] = Unit("common", i, j)
  <2>. TAKE j \in 1..CommonLen
  <2>1. 2 + j \in 1..(2 + CommonLen)
    BY Constants
  <2>. QED
    BY <2>1, <1>3, <1>7, <1>8
<1>10. \A j \in 1..l : Frame(i, l)[2 + CommonLen + j] = Unit("msg", i, j)
  BY <1>4, <1>8
<1>11. Frame(i, l)[1] = h[1] /\ Frame(i, l)[2] = h[2]
  <2>1. 1 \in 1..(2 + CommonLen) /\ 2 \in 1..(2 + CommonLen) /\ 1 \in 1..2 /\ 2 \in 1..2
    BY Constants
  <2>. QED
    BY <2>1, <1>7, <1>8
<1>. QED
  BY <1>6, <1>8, <1>9, <1>10, <1>11 DEF HeadLen, U

(* What is written is the frame, with ends of WebSocket messages inside    *)
(* and behind it: at[k] units of the frame come before the k-th unit.      *)
Spread(g, f, at) ==
  /\ at \in [1..Len(g) + 1 -> Nat] /\ at[1] = 0 /\ at[Len(g) + 1] = Len(f)
  /\ \A k \in 1..Len(g) : at[k + 1] = IF g[k] = Cut THEN at[k] ELSE at[k] + 1
  /\ \A k \in 1..Len(g) : g[k] # Cut => at[k] < Len(f) /\ g[k] = f[at[k] + 1]

LEMMA WrittenSpread ==
  ASSUME NEW f \in Seq(Units \ {Cut}), NEW g \in Written(f)
  PROVE  g \in Seq(Units) /\ \E at : Spread(g, f, at)
<1>. DEFINE c == <<Cut>>
<1>1. Cut \in Units /\ c \in Seq(Units) /\ Len(c) = 1 /\ c[1] = Cut
  BY Constants DEF Cut, Unit, Units
<1>2. f \in Seq(Units) /\ Len(f) \in Nat /\ \A k \in 1..Len(f) : f[k] \in Units /\ f[k] # Cut
  <2>1. f \in Seq(Units)
    BY SeqMonotonic
  <2>. QED
    BY <2>1, ElementOfSeq
<1>3. CASE g = f
  <2>1. Spread(f, f, [k \in 1..Len(f) + 1 |-> k - 1])
    BY <1>2 DEF Spread
  <2>. QED
    BY <1>2, <1>3, <2>1
<1>4. CASE g = f \o c
  <2>1. /\ g \in Seq(Units) /\ Len(g) = Len(f) + Len(c)
        /\ \A j \in 1..Len(f) : g[j] = f[j]
        /\ \A j \in 1..Len(c) : g[Len(f) + j] = c[j]
    <3>1. f \in Seq(Units) /\ c \in Seq(Units)
      BY <1>1, <1>2
    <3>. QED
      BY <3>1, <1>4, Joined
  <2>2. Len(g) = Len(f) + 1 /\ g[Len(f) + 1] = Cut
    BY <1>1, <2>1
  <2>3. Spread(g, f, [k \in 1..Len(g) + 1 |-> IF k <= Len(f) THEN k - 1 ELSE Len(f)])
    BY <1>2, <2>1, <2>2 DEF Spread
  <2>. QED
    BY <2>1, <2>3
<1>5. ASSUME NEW k \in 0..Len(f), g = SubSeq(f, 1, k) \o c \o SubSeq(f, k + 1, Len(f)) \o c
      PROVE  g \in Seq(Units) /\ \E at : Spread(g, f, at)
  <2>. DEFINE x == SubSeq(f, 1, k)
              y == SubSeq(f, k + 1, Len(f))
  <2>1. x \in Seq(Units) /\ Len(x) = k /\ \A j \in 1..k : x[j] = f[j]
    <3>1. \A j \in 1..k : f[j] \in Units
      BY <1>2
    <3>. QED
      BY <1>2, <3>1, SubSeqProperties
  <2>2. y \in Seq(Units) /\ Len(y) = Len(f) - k /\ \A j \in 1..(Len(f) - k) : y[j] = f[k + j]
    <3>1. \A j \in (k + 1)..Len(f) : f[j] \in Units
      BY <1>2
    <3>. QED
      BY <1>2, <3>1, SubSeqProperties
  <2>. HIDE DEF x, y, c
  <2>3. x \in Seq(Units) /\ y \in Seq(Units) /\ c \in Seq(Units)
    BY <1>1, <2>1, <2>2
  <2>4. /\ x \o c \in Seq(Units) /\ Len(x \o c) = Len(x) + Len(c)
        /\ \A j \in 1..Len(x) : (x \o c)[j] = x[j]
        /\ \A j \in 1..Len(c) : (x \o c)[Len(x) + j] = c[j]
    BY <2>3, Joined
  <2>5. /\ (x \o c) \o y \in Seq(Units) /\ Len((x \o c) \o y) = Len(x \o c) + Len(y)
        /\ \A j \in 1..Len(x \o c) : ((x \o c) \o y)[j] = (x \o c)[j]
        /\ \A j \in 1..Len(y) : ((x \o c) \o y)[Len(x \o c) + j] = y[j]
    <3>1. x \o c \in Seq(Units)
      BY <2>4
    <3>. QED
      BY <3>1, <2>3, Joined
  <2>6. /\ g \in Seq(Units) /\ Len(g) = Len((x \o c) \o y) + Len(c)
        /\ \A j \in 1..Len((x \o c) \o y) : g[j] = ((x \o c) \o y)[j]
        /\ \A j \in 1..Len(c) : g[Len((x \o c) \o y) + j] = c[j]
    <3>1. (x \o c) \o y \in Seq(Units) /\ g = ((x \o c) \o y) \o c
      BY <1>5, <2>5 DEF x, y
    <3>. QED
      BY <3>1, <2>3, Joined
  <2>7. Len(g) = Len(f) + 2 /\ Len(x \o c) = k + 1 /\ Len((x \o c) \o y) = Len(f) + 1
    BY <1>1, <1>2, <2>1, <2>2, <2>4, <2>5, <2>6
  <2>8. \A j \in 1..k : g[j] = f[j]
    <3>. TAKE j \in 1..k
    <3>1. j \in 1..Len(x) /\ j \in 1..(k + 1) /\ j \in 1..(Len(f) + 1)
      BY <1>2, <2>1
    <3>2. (x \o c)[j] = f[j]
      BY <2>1, <2>4, <3>1
    <3>3. ((x \o c) \o y)[j] = (x \o c)[j]
      BY <2>5, <2>7, <3>1
    <3>4. g[j] = ((x \o c) \o y)[j]
      BY <2>6, <2>7, <3>1
    <3>. QED
      BY <3>2, <3>3, <3>4
  <2>9. g[k + 1] = Cut
    <3>1. (x \o c)[k + 1] = Cut
      BY <1>1, <2>1, <2>4
    <3>2. k + 1 \in 1..(k + 1) /\ k + 1 \in 1..(Len(f) + 1)
      BY <1>2
    <3>3. ((x \o c) \o y)[k + 1] = (x \o c)[k + 1]
      BY <2>5, <2>7, <3>2
    <3>4. g[k + 1] = ((x \o c) \o y)[k + 1]
      BY <2>6, <2>7, <3>2
    <3>. QED
      BY <3>1, <3>3, <3>4
  <2>10. \A j \in 1..(Len(f) - k) : g[k + 1 + j] = f[k + j]
    <3>. TAKE j \in 1..(Len(f) - k)
    <3>1. ((x \o c) \o y)[(k + 1) + j] = y[j]
      BY <2>2, <2>5, <2>7
    <3>. QED
      BY <1>2, <3>1, <2>2, <2>6, <2>7
  <2>11. g[Len(f) + 2] = Cut
    <3>1. g[(Len(f) + 1) + 1] = c[1]
      BY <1>1, <2>6, <2>7
    <3>. QED
      BY <1>1, <1>2, <3>1
  <2>12. \E at : Spread(g, f, at)
    <3>. DEFINE at == [j \in 1..Len(g) + 1 |->
                        IF j <= k + 1 THEN j - 1 ELSE IF j <= Len(f) + 2 THEN j - 2 ELSE Len(f)]
    <3>1. at \in [1..Len(g) + 1 -> Nat] /\ at[1] = 0 /\ at[Len(g) + 1] = Len(f)
      BY <1>2, <2>7
    <3>2. ASSUME NEW j \in 1..Len(g)
          PROVE  /\ at[j + 1] = IF g[j] = Cut THEN at[j] ELSE at[j] + 1
                 /\ g[j] # Cut => at[j] < Len(f) /\ g[j] = f[at[j] + 1]
      <4>1. CASE j <= k
        BY <1>2, <2>7, <2>8, <4>1
      <4>2. CASE j = k + 1
        BY <1>2, <2>7, <2>9, <4>2
      <4>3. CASE j \in (k + 2)..(Len(f) + 1)
        <5>1. g[j] = f[j - 1] /\ j - 1 \in 1..Len(f)
          <6>1. j - (k + 1) \in 1..(Len(f) - k) /\ k + 1 + (j - (k + 1)) = j /\ k + (j - (k + 1)) = j - 1
            BY <1>2, <4>3
          <6>. QED
            BY <1>2, <2>10, <4>3, <6>1
        <5>. QED
          BY <1>2, <2>7, <4>3, <5>1
      <4>4. CASE j = Len(f) + 2
        BY <1>2, <2>7, <2>11, <4>4
      <4>. QED
        BY <1>2, <2>7, <4>1, <4>2, <4>3, <4>4
    <3>. QED
      BY <3>1, <3>2 DEF Spread
  <2>. QED
    BY <2>6, <2>12
<1>. QED
  BY <1>3, <1>4, <1>5 DEF Written

-------------------------------------------------------------------------------
(* The invariant.                                                          *)

FrameOf(i) == Frame(i, sent[i])
FrameLen(i) == HeadLen + CommonLen + sent[i]

(* All the frames in a row: message i begins at place start[i].            *)
Numbered(start) ==
  /\ start \in [1..Len(sent) + 1 -> Nat]
  /\ \A i \in 1..Len(sent) : start[i + 1] = start[i] + FrameLen(i)
  /\ \A i, j \in 1..Len(sent) + 1 : i <= j => start[i] <= start[j]

(* Without the ends of WebSocket messages the stream is a piece of that    *)
(* row, and while the connection lasts, the last one: before its k-th unit *)
(* come at[k] others.                                                      *)
Placed(start, at) ==
  /\ at \in [1..Len(stream) + 1 -> Nat]
  /\ \A k \in 1..Len(stream) : at[k + 1] = IF stream[k] = Cut THEN at[k] ELSE at[k] + 1
  /\ \A k \in 1..Len(stream) : stream[k] # Cut =>
       /\ at[k] < start[Len(sent) + 1]
       /\ \A i \in 1..Len(sent) : \A p \in 1..FrameLen(i) :
            at[k] + 1 = start[i] + p => stream[k] = FrameOf(i)[p]
  /\ end = "open" => at[Len(stream) + 1] = start[Len(sent) + 1]

Current == Len(delivered) + 1

(* What ReadMessage has parsed of a frame before the part it is at. *)
Before == CASE phase = "header" -> 0
            [] phase = "common" -> HeadLen
            [] OTHER            -> HeadLen + CommonLen

(* The reader is inside the frame of the current message, and what it has  *)
(* read comes just before the stream.                                      *)
AtReader(start, at) ==
  /\ Current <= Len(sent) + 1
  /\ phase # "header" \/ buf # <<>> => Current <= Len(sent)
  /\ at[1] = start[Current] + Before + Len(buf)
  /\ \A j \in 1..Len(buf) : buf[j] = FrameOf(Current)[Before + j]

Known ==
  /\ phase = "header" => need = HeadLen
  /\ phase = "common" => need = CommonLen /\ msgLen = sent[Current]
  /\ phase = "msg" => need = sent[Current] /\ common = Current

InStep ==
  /\ phase # "failed" /\ Known
  /\ \E start, at : Numbered(start) /\ Placed(start, at) /\ AtReader(start, at)

(* A TCP stream has ended inside a message: in its common part, or later.  *)
Over      == stream = <<>> /\ end = "eof"
Truncated == Over /\ phase = "msg" /\ buf = <<>> /\ common = Mangled
Drained   == Over /\ (phase = "failed" \/ (phase = "header" /\ buf = <<>>))

(* The inductive form of FramesKept: after a mangled message comes none.   *)
Kept ==
  \A i \in DOMAIN delivered : Fit(i) =>
    delivered[i] = i \/ (i = Len(delivered) /\ delivered[i] = Mangled /\ Drained)

LengthInv ==
  /\ \A k \in 1..Len(stream) : stream[k].part = "length" => stream[k].val < Base
  /\ \A k \in 1..Len(buf) : buf[k].part = "length" => buf[k].val < Base

EndInv == end = "eof" => ~ws

StepInv == Fit(Current) => phase = "failed" \/ Drained \/ Truncated \/ InStep

Inv == TypeOK /\ LengthInv /\ EndInv /\ Kept /\ StepInv

-------------------------------------------------------------------------------
(* The steps.                                                              *)

(* What one read takes from the stream, and what is left.                  *)
LEMMA Piece ==
  ASSUME TypeOK, NEW k \in 1..Len(stream), ~Contains(SubSeq(stream, 1, k), Cut)
  PROVE  /\ \A j \in 1..k : stream[j] \in Units \ {Cut}
         /\ buf \o SubSeq(stream, 1, k) \in Seq(Units \ {Cut})
         /\ Len(buf \o SubSeq(stream, 1, k)) = Len(buf) + k
         /\ \A j \in 1..Len(buf) : (buf \o SubSeq(stream, 1, k))[j] = buf[j]
         /\ \A j \in 1..k : (buf \o SubSeq(stream, 1, k))[Len(buf) + j] = stream[j]
         /\ SubSeq(stream, k + 1, Len(stream)) \in Seq(Units)
         /\ Len(SubSeq(stream, k + 1, Len(stream))) = Len(stream) - k
         /\ \A j \in 1..(Len(stream) - k) : SubSeq(stream, k + 1, Len(stream))[j] = stream[k + j]
<1>. DEFINE x == SubSeq(stream, 1, k)
            y == SubSeq(stream, k + 1, Len(stream))
<1>1. stream \in Seq(Units) /\ Len(stream) \in Nat /\ \A j \in 1..Len(stream) : stream[j] \in Units
  BY ElementOfSeq DEF TypeOK
<1>2. x \in Seq(Units) /\ Len(x) = k /\ \A j \in 1..k : x[j] = stream[j]
  <2>1. \A j \in 1..k : stream[j] \in Units
    BY <1>1
  <2>. QED
    BY <1>1, <2>1, SubSeqProperties
<1>3. y \in Seq(Units) /\ Len(y) = Len(stream) - k /\ \A j \in 1..(Len(stream) - k) : y[j] = stream[k + j]
  <2>1. \A j \in (k + 1)..Len(stream) : stream[j] \in Units
    BY <1>1
  <2>. QED
    BY <1>1, <2>1, SubSeqProperties
<1>4. \A j \in 1..k : stream[j] \in Units \ {Cut}
  BY <1>1, <1>2 DEF Contains
<1>5. x \in Seq(Units \ {Cut})
  BY <1>4, SubSeqProperties
<1>. HIDE DEF x, y
<1>6. /\ buf \o x \in Seq(Units \ {Cut}) /\ Len(buf \o x) = Len(buf) + Len(x)
      /\ \A j \in 1..Len(buf) : (buf \o x)[j] = buf[j]
      /\ \A j \in 1..Len(x) : (buf \o x)[Len(buf) + j] = x[j]
  <2>1. buf \in Seq(Units \ {Cut})
    BY DEF TypeOK
  <2>. QED
    BY <1>5, <2>1, Joined
<1>7. /\ \A j \in 1..k : (buf \o x)[Len(buf) + j] = stream[j]
      /\ Len(buf \o x) = Len(buf) + k
  BY <1>2, <1>6
<1>. QED
  BY <1>3, <1>4, <1>6, <1>7 DEF x, y

LEMMA Lens ==
  ASSUME TypeOK
  PROVE  /\ Len(stream) \in Nat /\ Len(buf) \in Nat /\ need \in Nat
         /\ Len(sent) \in Nat /\ \A i \in 1..Len(sent) : sent[i] \in Nat
         /\ Len(sent) <= MaxMessages
         /\ Len(delivered) \in Nat /\ DOMAIN delivered = 1..Len(delivered)
         /\ DOMAIN sent = 1..Len(sent)
<1>1. need \in Nat
  BY Constants DEF TypeOK, HeadLen
<1>2. Len(stream) \in Nat /\ Len(buf) \in Nat
  BY DEF TypeOK
<1>3. /\ Len(delivered) \in Nat /\ DOMAIN delivered = 1..Len(delivered)
      /\ Len(sent) \in Nat /\ DOMAIN sent = 1..Len(sent) /\ Len(sent) <= MaxMessages
  BY DEF TypeOK
<1>4. \A i \in 1..Len(sent) : sent[i] \in Nat
  BY Constants, ElementOfSeq DEF TypeOK
<1>. QED
  BY <1>1, <1>2, <1>3, <1>4

(* Len(sent) + 1 is the number of the next message.                        *)
LEMMA Sending ==
  ASSUME TypeOK, NEW l \in Sizes, Send(l)
  PROVE  /\ l \in Nat /\ Len(sent) \in Nat /\ Len(sent) + 1 \in 1..MaxMessages
         /\ sent' \in Seq(Sizes) /\ Len(sent') = Len(sent) + 1
         /\ \A i \in 1..Len(sent) : sent'[i] = sent[i]
         /\ sent'[Len(sent) + 1] = l
<1>1. sent \in Seq(Sizes) /\ sent' = Append(sent, l) /\ Len(sent) < MaxMessages
  BY DEF TypeOK, Send
<1>2. Len(sent) \in Nat
  BY <1>1
<1>. QED
  BY <1>1, <1>2, Constants, AppendProperties

LEMMA FrameLengths ==
  ASSUME NEW i \in 1..MaxMessages, NEW l \in Nat, NEW p \in 1..(HeadLen + CommonLen + l),
         Frame(i, l)[p].part = "length"
  PROVE  Frame(i, l)[p].val < Base
<1>1. CASE p = 1
  <2>1. Frame(i, l)[p] = Unit("length", i, CommonLen)
    BY <1>1, FrameUnits
  <2>2. Frame(i, l)[p].val = CommonLen
    BY <2>1 DEF Unit
  <2>. QED
    BY <2>2, Constants
<1>2. CASE p = 2
  <2>1. Frame(i, l)[p] = Unit("length", i, l % Base)
    BY <1>2, FrameUnits
  <2>2. Frame(i, l)[p].val = l % Base
    BY <2>1 DEF Unit
  <2>3. l % Base \in 0..(Base - 1)
    BY Constants, Remainder
  <2>. QED
    BY <2>2, <2>3, Constants
<1>3. CASE p \in (HeadLen + 1)..(HeadLen + CommonLen)
  <2>1. p - HeadLen \in 1..CommonLen /\ p = HeadLen + (p - HeadLen)
    BY <1>3, Constants DEF HeadLen
  <2>2. Frame(i, l)[p] = Unit("common", i, p - HeadLen)
    BY <2>1, FrameUnits
  <2>. QED
    BY <2>2 DEF Unit
<1>4. CASE p > HeadLen + CommonLen
  <2>1. /\ p - (HeadLen + CommonLen) \in 1..l
        /\ p = HeadLen + CommonLen + (p - (HeadLen + CommonLen))
    BY <1>4, Constants DEF HeadLen
  <2>2. Frame(i, l)[p] = Unit("msg", i, p - (HeadLen + CommonLen))
    BY <2>1, FrameUnits
  <2>. QED
    BY <2>2 DEF Unit
<1>. QED
  BY <1>1, <1>2, <1>3, <1>4, Constants DEF HeadLen

(* What Send adds to the stream.                                           *)
LEMMA Added ==
  ASSUME TypeOK, NEW l \in Sizes, Send(l)
  PROVE  \E f, g, at :
           /\ f = Frame(Len(sent) + 1, l) /\ f \in Seq(Units \ {Cut})
           /\ Len(f) = HeadLen + CommonLen + l
           /\ g \in Seq(Units) /\ Spread(g, f, at)
           /\ stream' \in Seq(Units) /\ Len(stream') = Len(stream) + Len(g)
           /\ \A k \in 1..Len(stream) : stream'[k] = stream[k]
           /\ \A k \in 1..Len(g) : stream'[Len(stream) + k] = g[k]
<1>. DEFINE f == Frame(Len(sent) + 1, l)
<1>1. f \in Seq(Units \ {Cut}) /\ Len(f) = HeadLen + CommonLen + l
  BY Sending, FrameUnits
<1>2. PICK g \in Written(f) : stream' = stream \o g
  BY DEF Send
<1>3. g \in Seq(Units) /\ \E at : Spread(g, f, at)
  BY <1>1, WrittenSpread
<1>4. PICK at : Spread(g, f, at)
  BY <1>3
<1>5. /\ stream' \in Seq(Units) /\ Len(stream') = Len(stream) + Len(g)
      /\ \A k \in 1..Len(stream) : stream'[k] = stream[k]
      /\ \A k \in 1..Len(g) : stream'[Len(stream) + k] = g[k]
  BY <1>2, <1>3, Joined DEF TypeOK
<1>. HIDE DEF f
<1>6. f = Frame(Len(sent) + 1, l)
  BY DEF f
<1>. QED
  BY <1>1, <1>3, <1>4, <1>5, <1>6

(* Break leaves a first part of the stream.                                *)
LEMMA Left ==
  ASSUME TypeOK, Break
  PROVE  /\ stream' \in Seq(Units) /\ Len(stream') <= Len(stream)
         /\ \A k \in 1..Len(stream') : stream'[k] = stream[k]
<1>1. PICK n \in 0..Len(stream) : stream' = SubSeq(stream, 1, n)
  BY DEF Break
<1>2. \A j \in 1..n : stream[j] \in Units
  BY ElementOfSeq DEF TypeOK
<1>. QED
  BY <1>1, <1>2, SubSeqProperties DEF TypeOK

(* NextReader drops the end of a WebSocket message.                        *)
LEMMA Dropped ==
  ASSUME TypeOK, NextReader
  PROVE  /\ stream' \in Seq(Units) /\ Len(stream) > 1 /\ Len(stream') = Len(stream) - 1
         /\ stream[1] = Cut /\ \A k \in 1..Len(stream') : stream'[k] = stream[k + 1]
<1>1. stream \in Seq(Units) /\ stream # <<>> /\ stream' = Tail(stream)
  BY EmptySeq DEF TypeOK, NextReader
<1>. QED
  BY <1>1, HeadTailProperties DEF NextReader

LEMMA Steps ==
  ASSUME [Next]_vars
  PROVE  \/ \E l \in Sizes : Send(l)
         \/ Break \/ ReadSome \/ NextReader \/ ReadError \/ HeaderInvalid \/ Header
         \/ Common \/ CommonFails \/ Message \/ MessageFails \/ UNCHANGED vars
  BY DEF Next, ReaderStep

(* The type invariant is kept, also by what fails or is not aligned.       *)
LEMMA TypeStep ==
  ASSUME TypeOK, LengthInv, [Next]_vars
  PROVE  TypeOK'
<1>1. ASSUME NEW l \in Sizes, Send(l)
      PROVE  TypeOK'
  <2>1. stream' \in Seq(Units)
    BY <1>1, Added
  <2>2. UNCHANGED <<ws, end, readerVars>>
    BY <1>1 DEF Send
  <2>3. sent' \in Seq(Sizes) /\ Len(sent') <= MaxMessages
    BY <1>1, Sending, Constants
  <2>. QED
    BY <2>1, <2>2, <2>3 DEF TypeOK, readerVars
<1>2. CASE Break
  <2>1. UNCHANGED <<ws, sent, readerVars>> /\ end' \in {"eof", "error"}
    BY <1>2 DEF Break
  <2>. QED
    BY <1>2, <2>1, Left DEF TypeOK, readerVars
<1>3. CASE ReadSome
  <2>1. PICK k \in 1..Len(stream) :
          /\ k <= need - Len(buf) /\ ~Contains(SubSeq(stream, 1, k), Cut)
          /\ buf' = buf \o SubSeq(stream, 1, k)
          /\ stream' = SubSeq(stream, k + 1, Len(stream))
    BY <1>3 DEF ReadSome
  <2>2. buf' \in Seq(Units \ {Cut}) /\ Len(buf') = Len(buf) + k /\ stream' \in Seq(Units)
    BY <2>1, Piece
  <2>3. Len(buf') <= need
    <3>1. need \in Nat /\ Len(buf) \in Nat
      BY Constants DEF TypeOK, HeadLen
    <3>. QED
      BY <2>1, <2>2, <3>1
  <2>4. UNCHANGED <<ws, sent, end, phase, need, msgLen, common, delivered>>
    BY <1>3 DEF ReadSome
  <2>. QED
    BY <2>2, <2>3, <2>4 DEF TypeOK
<1>4. CASE NextReader
  <2>1. UNCHANGED <<ws, sent, end, readerVars>>
    BY <1>4 DEF NextReader
  <2>. QED
    BY <1>4, <2>1, Dropped DEF TypeOK, readerVars
<1>5. CASE ReadError \/ HeaderInvalid \/ CommonFails \/ MessageFails
  BY <1>5 DEF ReadError, HeaderInvalid, CommonFails, MessageFails, Fails, TypeOK
<1>6. CASE Header
  <2>1. PICK c \in Lengths(buf[1]), l \in Lengths(buf[2]) : Reads("common", c) /\ msgLen' = l
    BY <1>6 DEF Header
  <2>2. ASSUME NEW j \in 1..2
        PROVE  Lengths(buf[j]) \subseteq 0..(Base - 1)
    <3>1. j \in 1..Len(buf)
      BY <1>6 DEF Header, HeadLen
    <3>2. buf[j] \in Units /\ (buf[j].part = "length" => buf[j].val < Base)
      BY <3>1, ElementOfSeq DEF TypeOK, LengthInv
    <3>. QED
      BY <3>2, Constants DEF Lengths, Units
  <2>3. c \in 0..(Base - 1) /\ l \in 0..(Base - 1)
    BY <2>1, <2>2
  <2>4. /\ UNCHANGED <<ws, sent, stream, end, common, delivered>>
        /\ phase' = "common" /\ need' = c /\ buf' = <<>> /\ msgLen' = l
    BY <1>6, <2>1 DEF Header, Reads
  <2>5. <<>> \in Seq(Units \ {Cut}) /\ Len(<<>>) = 0
    BY EmptySeq
  <2>. QED
    BY <2>3, <2>4, <2>5 DEF TypeOK
<1>7. CASE Common
  <2>1. /\ UNCHANGED <<ws, sent, stream, end, msgLen, delivered>>
        /\ phase' = "msg" /\ need' = msgLen /\ buf' = <<>>
        /\ common' \in 1..Len(sent) \cup {Mangled}
    BY <1>7 DEF Common, Reads, Decoded
  <2>2. <<>> \in Seq(Units \ {Cut}) /\ Len(<<>>) = 0
    BY EmptySeq
  <2>3. common' \in 1..MaxMessages \cup {Mangled}
    <3>1. Len(sent) \in Nat /\ Len(sent) <= MaxMessages /\ MaxMessages \in Nat
      BY Constants DEF TypeOK
    <3>. QED
      BY <2>1, <3>1
  <2>4. need' \in 0..(Base - 1) \cup {HeadLen} /\ 0 <= need'
    BY <2>1 DEF TypeOK, HeadLen
  <2>. QED
    BY <2>1, <2>2, <2>3, <2>4 DEF TypeOK
<1>8. CASE Message
  <2>1. /\ UNCHANGED <<ws, sent, stream, end, msgLen>>
        /\ phase' = "header" /\ need' = HeadLen /\ buf' = <<>> /\ common' = Mangled
        /\ delivered' = Append(delivered, IF common \in Decoded("msg", buf) THEN common ELSE Mangled)
    BY <1>8 DEF Message, Reads
  <2>2. <<>> \in Seq(Units \ {Cut}) /\ Len(<<>>) = 0
    BY EmptySeq
  <2>3. delivered' \in Seq(1..MaxMessages \cup {Mangled})
    BY <2>1, AppendProperties DEF TypeOK
  <2>. QED
    BY <2>1, <2>2, <2>3 DEF TypeOK, HeadLen
<1>9. CASE UNCHANGED vars
  BY <1>9 DEF TypeOK, vars, readerVars
<1>. QED
  BY <1>1, <1>2, <1>3, <1>4, <1>5, <1>6, <1>7, <1>8, <1>9, Steps

(* No length on its way is too long for its field.                         *)
LEMMA LengthStep ==
  ASSUME TypeOK, LengthInv, [Next]_vars
  PROVE  LengthInv'
<1>1. ASSUME NEW l \in Sizes, Send(l)
      PROVE  LengthInv'
  <2>1. PICK f, g, at :
           /\ f = Frame(Len(sent) + 1, l) /\ f \in Seq(Units \ {Cut})
           /\ Len(f) = HeadLen + CommonLen + l
           /\ g \in Seq(Units) /\ Spread(g, f, at)
           /\ stream' \in Seq(Units) /\ Len(stream') = Len(stream) + Len(g)
           /\ \A k \in 1..Len(stream) : stream'[k] = stream[k]
           /\ \A k \in 1..Len(g) : stream'[Len(stream) + k] = g[k]
    BY <1>1, Added
  <2>2. ASSUME NEW k \in 1..Len(g), g[k].part = "length"
        PROVE  g[k].val < Base
    <3>1. g[k] # Cut
      BY <2>2 DEF Cut, Unit
    <3>2. at[k] \in Nat /\ at[k] < Len(f) /\ g[k] = f[at[k] + 1]
      BY <2>1, <3>1 DEF Spread
    <3>3. at[k] + 1 \in 1..(HeadLen + CommonLen + l)
      BY <2>1, <3>2
    <3>. QED
      BY <1>1, <2>1, <2>2, <3>2, <3>3, Sending, FrameLengths
  <2>3. ASSUME NEW k \in 1..Len(stream'), stream'[k].part = "length"
        PROVE  stream'[k].val < Base
    <3>1. CASE k <= Len(stream)
      BY <2>1, <2>3, <3>1 DEF LengthInv
    <3>2. CASE k > Len(stream)
      <4>1. k - Len(stream) \in 1..Len(g) /\ k = Len(stream) + (k - Len(stream))
        BY <2>1, <3>2 DEF TypeOK
      <4>2. stream'[k] = g[k - Len(stream)]
        BY <2>1, <4>1
      <4>. QED
        BY <2>2, <2>3, <4>1, <4>2
    <3>. QED
      BY <3>1, <3>2 DEF TypeOK
  <2>4. buf' = buf
    BY <1>1 DEF Send, readerVars
  <2>. QED
    BY <2>3, <2>4 DEF LengthInv
<1>2. CASE Break
  BY <1>2, Left DEF LengthInv, Break, readerVars, TypeOK
<1>3. CASE ReadSome
  <2>1. PICK n \in 1..Len(stream) :
          /\ n <= need - Len(buf) /\ ~Contains(SubSeq(stream, 1, n), Cut)
          /\ buf' = buf \o SubSeq(stream, 1, n)
          /\ stream' = SubSeq(stream, n + 1, Len(stream))
    BY <1>3 DEF ReadSome
  <2>2. /\ Len(buf') = Len(buf) + n
        /\ \A j \in 1..Len(buf) : buf'[j] = buf[j]
        /\ \A j \in 1..n : buf'[Len(buf) + j] = stream[j]
        /\ Len(stream') = Len(stream) - n
        /\ \A j \in 1..(Len(stream) - n) : stream'[j] = stream[n + j]
    BY <2>1, Piece
  <2>3. ASSUME NEW k \in 1..Len(stream'), stream'[k].part = "length"
        PROVE  stream'[k].val < Base
    <3>1. n + k \in 1..Len(stream) /\ stream'[k] = stream[n + k]
      BY <2>2, Lens
    <3>. QED
      BY <2>3, <3>1 DEF LengthInv
  <2>4. ASSUME NEW k \in 1..Len(buf'), buf'[k].part = "length"
        PROVE  buf'[k].val < Base
    <3>1. CASE k <= Len(buf)
      <4>1. k \in 1..Len(buf) /\ buf'[k] = buf[k]
        BY <2>2, <3>1, Lens
      <4>. QED
        BY <2>4, <4>1 DEF LengthInv
    <3>2. CASE k > Len(buf)
      <4>1. k - Len(buf) \in 1..n /\ k = Len(buf) + (k - Len(buf)) /\ k - Len(buf) \in 1..Len(stream)
        BY <2>2, <3>2, Lens
      <4>2. buf'[k] = stream[k - Len(buf)]
        BY <2>2, <4>1
      <4>. QED
        BY <2>4, <4>1, <4>2 DEF LengthInv
    <3>. QED
      BY <2>2, <3>1, <3>2, Lens
  <2>. QED
    BY <2>3, <2>4 DEF LengthInv
<1>4. CASE NextReader
  <2>1. buf' = buf
    BY <1>4 DEF NextReader, readerVars
  <2>2. Len(stream') = Len(stream) - 1 /\ \A k \in 1..Len(stream') : stream'[k] = stream[k + 1]
    BY <1>4, Dropped
  <2>3. \A k \in 1..Len(stream') : k + 1 \in 1..Len(stream)
    BY <2>2, Lens
  <2>. QED
    BY <2>1, <2>2, <2>3 DEF LengthInv
<1>5. CASE ReadError \/ HeaderInvalid \/ CommonFails \/ MessageFails
  BY <1>5 DEF ReadError, HeaderInvalid, CommonFails, MessageFails, Fails, LengthInv
<1>6. CASE Header \/ Common \/ Message
  <2>1. stream' = stream /\ buf' = <<>>
    BY <1>6 DEF Header, Common, Message, Reads
  <2>2. 1..Len(<<>>) = {}
    BY EmptySeq
  <2>. QED
    BY <2>1, <2>2 DEF LengthInv
<1>7. CASE UNCHANGED vars
  BY <1>7 DEF LengthInv, vars, readerVars
<1>. QED
  BY <1>1, <1>2, <1>3, <1>4, <1>5, <1>6, <1>7, Steps

-------------------------------------------------------------------------------
(* The reader in step.                                                     *)

(* A message is written: its frame comes after all others.                 *)
LEMMA SendInStep ==
  ASSUME TypeOK, InStep, NEW l \in Sizes, Send(l)
  PROVE  InStep'
<1>1. PICK start, at : Numbered(start) /\ Placed(start, at) /\ AtReader(start, at)
  BY DEF InStep
<1>2. PICK f, g, to :
        /\ f = Frame(Len(sent) + 1, l) /\ f \in Seq(Units \ {Cut})
        /\ Len(f) = HeadLen + CommonLen + l
        /\ g \in Seq(Units) /\ Spread(g, f, to)
        /\ stream' \in Seq(Units) /\ Len(stream') = Len(stream) + Len(g)
        /\ \A k \in 1..Len(stream) : stream'[k] = stream[k]
        /\ \A k \in 1..Len(g) : stream'[Len(stream) + k] = g[k]
  BY Added
<1>3. PICK n, m, b, e : n = Len(sent) /\ m = Len(stream) /\ b = start[Len(sent) + 1] /\ e = Len(g)
  OBVIOUS
<1>4. n \in Nat /\ m \in Nat /\ b \in Nat /\ e \in Nat /\ l \in Nat /\ Len(f) \in Nat
  <2>1. Len(sent) \in Nat /\ Len(stream) \in Nat /\ l \in Nat
    BY Lens, Sending
  <2>2. start[Len(sent) + 1] \in Nat
    BY <1>1, <2>1 DEF Numbered
  <2>. QED
    BY <1>2, <1>3, <2>1, <2>2
<1>5. PICK st : st = [i \in 1..n + 2 |-> IF i <= n + 1 THEN start[i] ELSE b + Len(f)]
  OBVIOUS
<1>6. PICK pl : pl = [k \in 1..m + e + 1 |-> IF k <= m THEN at[k] ELSE b + to[k - m]]
  OBVIOUS
<1>7. /\ Len(sent') = n + 1 /\ sent'[n + 1] = l /\ \A i \in 1..n : sent'[i] = sent[i]
      /\ Len(stream') = m + e /\ end' = "open" /\ end = "open"
      /\ UNCHANGED <<phase, need, buf, msgLen, common, delivered>>
  BY <1>2, <1>3, Sending DEF Send, readerVars
<1>8. \A i \in 1..n : FrameOf(i)' = FrameOf(i) /\ FrameLen(i)' = FrameLen(i) /\ FrameLen(i) \in Nat
  <2>1. \A i \in 1..n : sent[i] \in Nat
    BY <1>3, Lens
  <2>. QED
    BY <1>7, <2>1, Constants DEF FrameOf, FrameLen, HeadLen
<1>9. FrameOf(n + 1)' = f /\ FrameLen(n + 1)' = Len(f)
  BY <1>2, <1>3, <1>7 DEF FrameOf, FrameLen
<1>10. /\ start \in [1..n + 1 -> Nat] /\ start[n + 1] = b
       /\ \A i \in 1..n : start[i + 1] = start[i] + FrameLen(i)
       /\ \A i, j \in 1..n + 1 : i <= j => start[i] <= start[j]
  BY <1>1, <1>3 DEF Numbered
<1>11. Numbered(st)'
  <2>1. st \in [1..n + 2 -> Nat]
    BY <1>4, <1>5, <1>10
  <2>2. \A i \in 1..n + 1 : st[i + 1] = st[i] + FrameLen(i)'
    <3>1. \A i \in 1..n : st[i + 1] = st[i] + FrameLen(i)'
      BY <1>4, <1>5, <1>8, <1>10
    <3>2. st[n + 2] = st[n + 1] + FrameLen(n + 1)'
      <4>1. n + 2 \in 1..n + 2 /\ n + 1 \in 1..n + 2 /\ ~(n + 2 <= n + 1)
        BY <1>4
      <4>2. st[n + 2] = b + Len(f) /\ st[n + 1] = b
        BY <1>5, <1>10, <4>1
      <4>. QED
        BY <1>9, <4>2
    <3>3. ASSUME NEW i \in 1..n + 1
          PROVE  i \in 1..n \/ (i = n + 1 /\ i + 1 = n + 2)
      BY <1>4
    <3>. QED
      BY <3>1, <3>2, <3>3
  <2>3. \A i, j \in 1..n + 2 : i <= j => st[i] <= st[j]
    BY <1>4, <1>5, <1>10
  <2>4. Len(sent') + 1 = n + 2
    BY <1>4, <1>7
  <2>. QED
    BY <1>7, <2>1, <2>2, <2>3, <2>4 DEF Numbered
<1>12. /\ to \in [1..e + 1 -> Nat] /\ to[1] = 0 /\ to[e + 1] = Len(f)
       /\ \A k \in 1..e : to[k + 1] = IF g[k] = Cut THEN to[k] ELSE to[k] + 1
       /\ \A k \in 1..e : g[k] # Cut => to[k] < Len(f) /\ g[k] = f[to[k] + 1]
  BY <1>2, <1>3 DEF Spread
<1>13. /\ at \in [1..m + 1 -> Nat] /\ at[m + 1] = b
       /\ \A k \in 1..m : at[k + 1] = IF stream[k] = Cut THEN at[k] ELSE at[k] + 1
       /\ \A k \in 1..m : stream[k] # Cut => at[k] < b
       /\ \A k \in 1..m : stream[k] # Cut => \A i \in 1..n : \A p \in 1..FrameLen(i) :
             at[k] + 1 = start[i] + p => stream[k] = FrameOf(i)[p]
  BY <1>1, <1>3, <1>7 DEF Placed
<1>14. pl \in [1..m + e + 1 -> Nat] /\ pl[m + e + 1] = b + Len(f) /\ st[n + 2] = b + Len(f)
  <2>1. ASSUME NEW k \in 1..m + e + 1
        PROVE  (IF k <= m THEN at[k] ELSE b + to[k - m]) \in Nat
    <3>1. CASE k <= m
      BY <1>4, <1>13, <3>1
    <3>2. CASE k > m
      <4>1. k - m \in 1..e + 1 /\ ~(k <= m)
        BY <1>4, <3>2
      <4>2. to[k - m] \in Nat
        BY <1>12, <4>1
      <4>. QED
        BY <1>4, <4>1, <4>2
    <3>. QED
      BY <1>4, <3>1, <3>2
  <2>2. pl \in [1..m + e + 1 -> Nat]
    BY <1>6, <2>1
  <2>3. /\ m + e + 1 \in 1..m + e + 1 /\ ~(m + e + 1 <= m) /\ (m + e + 1) - m = e + 1
        /\ n + 2 \in 1..n + 2 /\ ~(n + 2 <= n + 1)
    BY <1>4
  <2>4. pl[m + e + 1] = b + to[e + 1]
    BY <1>6, <2>3
  <2>5. st[n + 2] = b + Len(f)
    BY <1>5, <2>3
  <2>. QED
    BY <1>12, <2>2, <2>4, <2>5
<1>15. ASSUME NEW k \in 1..(m + e)
       PROVE  /\ pl[k + 1] = IF stream'[k] = Cut THEN pl[k] ELSE pl[k] + 1
              /\ stream'[k] # Cut =>
                   /\ pl[k] < st[n + 2]
                   /\ \A i \in 1..n + 1 : \A p \in 1..FrameLen(i)' :
                        pl[k] + 1 = st[i] + p => stream'[k] = FrameOf(i)'[p]
  <2>1. CASE k <= m
    <3>1. stream'[k] = stream[k] /\ k \in 1..m
      BY <1>2, <1>3, <1>4, <2>1
    <3>2. pl[k] = at[k] /\ pl[k + 1] = at[k + 1] /\ at[k] \in Nat
      BY <1>4, <1>6, <1>12, <1>13, <2>1
    <3>3. ASSUME NEW i \in 1..n + 1, NEW p \in 1..FrameLen(i)', stream[k] # Cut, at[k] + 1 = st[i] + p
          PROVE  stream'[k] = FrameOf(i)'[p]
      <4>1. at[k] < b
        BY <1>13, <3>1, <3>3
      <4>2. i # n + 1
        <5>1. SUFFICES ASSUME i = n + 1
                       PROVE  FALSE
          OBVIOUS
        <5>2. st[i] = b /\ p \in 1..Len(f)
          BY <1>4, <1>5, <1>9, <1>10, <5>1, <3>3
        <5>3. at[k] \in Nat /\ b \in Nat /\ p \in Nat \ {0}
          BY <1>4, <3>2, <5>2
        <5>4. at[k] + 1 = b + p /\ at[k] < b
          BY <3>3, <4>1, <5>2
        <5>5. PICK a : a = at[k]
          OBVIOUS
        <5>. QED
          BY <5>3, <5>4, <5>5
      <4>3. i \in 1..n /\ st[i] = start[i] /\ p \in 1..FrameLen(i) /\ FrameOf(i)' = FrameOf(i)
        BY <1>4, <1>5, <1>8, <4>2
      <4>. QED
        BY <1>13, <3>1, <3>3, <4>3
    <3>4. stream[k] # Cut => at[k] < st[n + 2]
      <4>1. PICK a, u : a = at[k] /\ u = Len(f)
        OBVIOUS
      <4>2. a \in Nat /\ u \in Nat /\ b \in Nat /\ st[n + 2] = b + u
        BY <1>4, <1>14, <3>2, <4>1
      <4>3. stream[k] # Cut => a < b
        BY <1>13, <3>1, <4>1
      <4>. QED
        BY <4>1, <4>2, <4>3
    <3>. QED
      BY <1>13, <3>1, <3>2, <3>3, <3>4
  <2>2. CASE k > m
    <3>1. PICK j \in 1..e : k = m + j
      <4>1. k - m \in 1..e /\ k = m + (k - m)
        BY <1>4, <2>2
      <4>. QED
        BY <4>1
    <3>2. stream'[k] = g[j]
      BY <1>2, <1>3, <3>1
    <3>3. pl[k] = b + to[j] /\ pl[k + 1] = b + to[j + 1] /\ to[j] \in Nat
      <4>1. k - m = j /\ (k + 1) - m = j + 1 /\ k + 1 \in 1..m + e + 1 /\ ~(k + 1 <= m)
        BY <1>4, <3>1
      <4>2. k \in 1..m + e + 1 /\ ~(k <= m)
        BY <1>4, <2>2
      <4>3. pl[k] = b + to[k - m] /\ pl[k + 1] = b + to[(k + 1) - m]
        BY <1>6, <4>1, <4>2
      <4>4. to[j] \in Nat
        BY <1>4, <1>12
      <4>. QED
        BY <4>1, <4>3, <4>4
    <3>4. ASSUME NEW i \in 1..n + 1, NEW p \in 1..FrameLen(i)', g[j] # Cut, b + to[j] + 1 = st[i] + p
          PROVE  g[j] = FrameOf(i)'[p]
      <4>1. CASE i = n + 1
        <5>1. st[i] = b /\ p \in 1..Len(f) /\ FrameOf(i)' = f
          BY <1>4, <1>5, <1>9, <1>10, <4>1, <3>4
        <5>2. p = to[j] + 1
          BY <1>4, <3>3, <3>4, <5>1
        <5>. QED
          BY <1>12, <3>4, <5>1, <5>2
      <4>2. CASE i # n + 1
        <5>1. i \in 1..n /\ st[i] = start[i] /\ p \in 1..FrameLen(i) /\ FrameLen(i) \in Nat
          BY <1>4, <1>5, <1>8, <4>2
        <5>2. start[i] \in Nat /\ start[i] + FrameLen(i) <= b
          BY <1>4, <1>10, <5>1
        <5>3. PICK s, w : s = start[i] /\ w = FrameLen(i)
          OBVIOUS
        <5>4. s \in Nat /\ w \in Nat /\ p \in 1..w /\ b \in Nat /\ to[j] \in Nat
          BY <1>4, <3>3, <5>1, <5>2, <5>3
        <5>5. s + w <= b /\ b + to[j] + 1 = s + p
          BY <3>4, <5>1, <5>2, <5>3
        <5>. QED
          BY <5>4, <5>5
      <4>. QED
        BY <4>1, <4>2
    <3>5. g[j] # Cut => pl[k] < st[n + 2]
      <4>1. g[j] # Cut => to[j] < Len(f)
        BY <1>12
      <4>2. pl[k] = b + to[j] /\ to[j] \in Nat /\ st[n + 2] = b + Len(f)
        BY <1>14, <3>3
      <4>. QED
        BY <1>4, <4>1, <4>2
    <3>6. pl[k + 1] = IF g[j] = Cut THEN pl[k] ELSE pl[k] + 1
      BY <1>4, <1>12, <3>3
    <3>. QED
      BY <3>2, <3>3, <3>4, <3>5, <3>6
  <2>. QED
    BY <1>4, <2>1, <2>2
<1>16. Placed(st, pl)'
  <2>1. Len(sent') + 1 = n + 2 /\ Len(stream') + 1 = m + e + 1
    BY <1>4, <1>7
  <2>. QED
    BY <1>7, <1>14, <1>15, <2>1 DEF Placed
<1>17. AtReader(st, pl)'
  <2>1. Current <= n + 1 /\ Current \in Nat \ {0} /\ (phase # "header" \/ buf # <<>> => Current <= n)
    BY <1>1, <1>3, Lens DEF AtReader, Current
  <2>2. Current' = Current /\ Before' = Before /\ buf' = buf
    BY <1>7 DEF Current, Before
  <2>3. st[Current] = start[Current]
    BY <1>4, <1>5, <2>1
  <2>4. pl[1] = at[1]
    BY <1>4, <1>6, <1>12, <1>13
  <2>5. at[1] = start[Current] + Before + Len(buf)
    BY <1>1 DEF AtReader
  <2>6. ASSUME NEW j \in 1..Len(buf)
        PROVE  buf[j] = FrameOf(Current)'[Before + j]
    <3>1. Current \in 1..n
      BY <2>1, <2>6, EmptySeq DEF TypeOK
    <3>2. FrameOf(Current)' = FrameOf(Current)
      BY <1>7, <2>2, <3>1 DEF FrameOf
    <3>. QED
      BY <1>1, <3>2 DEF AtReader
  <2>8. Current' <= Len(sent') + 1 /\ (phase' # "header" \/ buf' # <<>> => Current' <= Len(sent'))
    BY <1>4, <1>7, <2>1, <2>2
  <2>. QED
    BY <1>7, <2>2, <2>3, <2>4, <2>5, <2>6, <2>8 DEF AtReader
<1>18. phase' # "failed" /\ Known'
  <2>1. phase # "header" => Current \in 1..n
    BY <1>1, <1>3, Lens DEF AtReader, Current
  <2>2. Current' = Current
    BY <1>7 DEF Current
  <2>3. phase # "header" => sent'[Current] = sent[Current]
    BY <1>7, <2>1
  <2>. QED
    BY <1>7, <2>2, <2>3 DEF InStep, Known
<1>. QED
  BY <1>11, <1>16, <1>17, <1>18 DEF InStep

(* The connection breaks: what is left of the stream is a piece of the row *)
(* as before.                                                              *)
LEMMA BreakInStep ==
  ASSUME TypeOK, InStep, Break
  PROVE  InStep'
<1>1. PICK start, at : Numbered(start) /\ Placed(start, at) /\ AtReader(start, at)
  BY DEF InStep
<1>2. /\ Len(stream') <= Len(stream) /\ \A k \in 1..Len(stream') : stream'[k] = stream[k]
      /\ Len(stream') \in Nat /\ Len(stream) \in Nat
  BY Left, Lens
<1>3. UNCHANGED <<sent, phase, need, buf, msgLen, common, delivered>> /\ end' # "open"
  BY DEF Break, readerVars
<1>4. PICK pl : pl = [k \in 1..Len(stream') + 1 |-> at[k]]
  OBVIOUS
<1>5. \A k \in 1..Len(stream') + 1 : k \in 1..Len(stream) + 1 /\ pl[k] = at[k]
  BY <1>2, <1>4
<1>6. \A k \in 1..Len(stream') : k \in 1..Len(stream) /\ pl[k] = at[k] /\ pl[k + 1] = at[k + 1]
  BY <1>2, <1>5
<1>7. \A i : FrameOf(i)' = FrameOf(i) /\ FrameLen(i)' = FrameLen(i)
  BY <1>3 DEF FrameOf, FrameLen
<1>8. Numbered(start)'
  BY <1>1, <1>3, <1>7 DEF Numbered
<1>9. pl \in [1..Len(stream') + 1 -> Nat]
  <2>1. at \in [1..Len(stream) + 1 -> Nat]
    BY <1>1 DEF Placed
  <2>. QED
    BY <2>1, <1>4, <1>5
<1>10. Placed(start, pl)'
  <2>1. ASSUME NEW k \in 1..Len(stream')
        PROVE  /\ pl[k + 1] = IF stream'[k] = Cut THEN pl[k] ELSE pl[k] + 1
               /\ stream'[k] # Cut =>
                    /\ pl[k] < start[Len(sent) + 1]
                    /\ \A i \in 1..Len(sent) : \A p \in 1..FrameLen(i) :
                         pl[k] + 1 = start[i] + p => stream'[k] = FrameOf(i)[p]
    <3>1. stream'[k] = stream[k]
      BY <1>2
    <3>. QED
      BY <1>1, <1>6, <3>1 DEF Placed
  <2>. QED
    BY <1>3, <1>7, <1>9, <2>1 DEF Placed
<1>11. AtReader(start, pl)'
  <2>1. pl[1] = at[1]
    BY <1>2, <1>5
  <2>2. Current' = Current /\ Before' = Before
    BY <1>3 DEF Current, Before
  <2>3. \A j : FrameOf(Current)'[j] = FrameOf(Current)[j]
    BY <1>3, <2>2 DEF FrameOf
  <2>. QED
    BY <1>1, <1>3, <2>1, <2>2, <2>3 DEF AtReader
<1>12. phase' # "failed" /\ Known'
  BY <1>3 DEF InStep, Known, Current
<1>. QED
  BY <1>8, <1>10, <1>11, <1>12 DEF InStep

(* ReadAll reads on: it gets the next units of the frame it is in.         *)
LEMMA ReadInStep ==
  ASSUME TypeOK, InStep, ReadSome
  PROVE  InStep'
<1>1. PICK start, at : Numbered(start) /\ Placed(start, at) /\ AtReader(start, at)
  BY DEF InStep
<1>2. PICK n \in 1..Len(stream) :
        /\ n <= need - Len(buf) /\ ~Contains(SubSeq(stream, 1, n), Cut)
        /\ buf' = buf \o SubSeq(stream, 1, n)
        /\ stream' = SubSeq(stream, n + 1, Len(stream))
  BY DEF ReadSome
<1>3. UNCHANGED <<ws, sent, end, phase, need, msgLen, common, delivered>> /\ phase # "failed"
  BY DEF ReadSome
<1>4. PICK m, b, c, h : m = Len(stream) /\ b = Len(buf) /\ c = Current /\ h = Before
  OBVIOUS
<1>5. /\ \A j \in 1..n : stream[j] \in Units \ {Cut}
      /\ Len(buf') = b + n /\ \A j \in 1..b : buf'[j] = buf[j]
      /\ \A j \in 1..n : buf'[b + j] = stream[j]
      /\ Len(stream') = m - n /\ \A j \in 1..(m - n) : stream'[j] = stream[n + j]
  BY <1>2, <1>4, Piece
<1>6. /\ m \in Nat /\ b \in Nat /\ n \in 1..m /\ need \in Nat /\ n <= need - b
      /\ c \in Nat \ {0} /\ Len(sent) \in Nat
  BY <1>2, <1>4, Lens DEF Current
<1>7. h \in Nat
  BY <1>4, Constants DEF Before, HeadLen
<1>8. /\ at \in [1..m + 1 -> Nat]
      /\ \A k \in 1..m : at[k + 1] = IF stream[k] = Cut THEN at[k] ELSE at[k] + 1
      /\ \A k \in 1..m : stream[k] # Cut => at[k] < start[Len(sent) + 1]
      /\ \A k \in 1..m : stream[k] # Cut => \A i \in 1..Len(sent) : \A p \in 1..FrameLen(i) :
            at[k] + 1 = start[i] + p => stream[k] = FrameOf(i)[p]
      /\ end = "open" => at[m + 1] = start[Len(sent) + 1]
  BY <1>1, <1>4 DEF Placed
<1>9. /\ c <= Len(sent) + 1 /\ (phase # "header" \/ buf # <<>> => c <= Len(sent))
      /\ at[1] = start[c] + h + b /\ \A j \in 1..b : buf[j] = FrameOf(c)[h + j]
  BY <1>1, <1>4 DEF AtReader
<1>10. start \in [1..Len(sent) + 1 -> Nat]
  BY <1>1 DEF Numbered
<1>11. c \in 1..Len(sent)
  <2>1. SUFFICES ASSUME c = Len(sent) + 1
                 PROVE  FALSE
    BY <1>6, <1>9
  <2>2. phase = "header" /\ buf = <<>>
    BY <1>6, <1>9, <2>1
  <2>3. h = 0 /\ b = 0
    BY <1>4, <2>2, EmptySeq DEF Before
  <2>4. start[c] \in Nat /\ at[1] = start[c]
    BY <1>6, <1>9, <1>10, <2>1, <2>3
  <2>5. 1 \in 1..m /\ stream[1] # Cut
    BY <1>5, <1>6
  <2>. QED
    BY <1>8, <2>1, <2>4, <2>5
<1>12. start[c] \in Nat /\ sent[c] \in Nat /\ h + need <= FrameLen(c)
  <2>1. start[c] \in Nat /\ sent[c] \in Nat /\ CommonLen \in Nat
    BY <1>6, <1>10, <1>11, Lens, Constants
  <2>2. phase \in {"header", "common", "msg"}
    BY <1>3 DEF TypeOK
  <2>. QED
    BY <1>4, <2>1, <2>2 DEF InStep, Known, Before, FrameLen, HeadLen
<1>13. \A j \in 0..n : at[j + 1] = at[1] + j
  <2>1. ASSUME NEW j \in 1..n
        PROVE  at[j + 1] = at[j] + 1
    <3>1. j \in 1..m /\ stream[j] # Cut
      BY <1>5, <1>6
    <3>. QED
      BY <1>8, <3>1
  <2>2. n \in Nat /\ at[1] \in Nat
    BY <1>6, <1>8
  <2>. QED
    BY <2>1, <2>2, Counted
<1>14. \A j \in 1..b + n : buf'[j] = FrameOf(c)[h + j]
  <2>1. ASSUME NEW j \in 1..n
        PROVE  stream[j] = FrameOf(c)[h + (b + j)]
    <3>1. j \in 1..m /\ stream[j] # Cut /\ j - 1 \in 0..n /\ (j - 1) + 1 = j
      BY <1>5, <1>6
    <3>2. at[j] = at[1] + (j - 1)
      BY <1>13, <3>1
    <3>3. at[j] + 1 = start[c] + (h + (b + j))
      BY <1>6, <1>7, <1>9, <1>12, <3>2
    <3>4. h + (b + j) \in 1..FrameLen(c)
      <4>1. FrameLen(c) \in Nat
        BY <1>12, Constants DEF FrameLen, HeadLen
      <4>. QED
        BY <1>6, <1>7, <1>12, <4>1
    <3>. QED
      BY <1>8, <1>11, <3>1, <3>3, <3>4
  <2>. TAKE j \in 1..b + n
  <2>2. CASE j <= b
    <3>1. j \in 1..b
      BY <1>6, <2>2
    <3>. QED
      BY <1>5, <1>9, <3>1
  <2>3. CASE j > b
    <3>1. j - b \in 1..n /\ b + (j - b) = j
      BY <1>6, <2>3
    <3>2. buf'[j] = stream[j - b]
      BY <1>5, <3>1
    <3>. QED
      BY <2>1, <3>1, <3>2
  <2>. QED
    BY <1>6, <2>2, <2>3
<1>15. PICK pl : pl = [k \in 1..(m - n) + 1 |-> at[n + k]]
  OBVIOUS
<1>16. \A k \in 1..(m - n) : /\ n + k \in 1..m /\ pl[k] = at[n + k] /\ pl[k + 1] = at[(n + k) + 1]
                             /\ stream'[k] = stream[n + k]
  <2>. TAKE k \in 1..(m - n)
  <2>1. n + k \in 1..m /\ k \in 1..(m - n) + 1 /\ k + 1 \in 1..(m - n) + 1 /\ n + (k + 1) = (n + k) + 1
    BY <1>6
  <2>. QED
    BY <1>5, <1>15, <2>1
<1>17. Placed(start, pl)'
  <2>1. pl \in [1..(m - n) + 1 -> Nat]
    <3>1. \A k \in 1..(m - n) + 1 : n + k \in 1..m + 1
      BY <1>6
    <3>. QED
      BY <1>8, <1>15, <3>1
  <2>2. pl[(m - n) + 1] = at[m + 1]
    <3>1. (m - n) + 1 \in 1..(m - n) + 1 /\ n + ((m - n) + 1) = m + 1
      BY <1>6
    <3>. QED
      BY <1>15, <3>1
  <2>3. ASSUME NEW k \in 1..(m - n)
        PROVE  /\ pl[k + 1] = IF stream'[k] = Cut THEN pl[k] ELSE pl[k] + 1
               /\ stream'[k] # Cut =>
                    /\ pl[k] < start[Len(sent) + 1]
                    /\ \A i \in 1..Len(sent) : \A p \in 1..FrameLen(i) :
                         pl[k] + 1 = start[i] + p => stream'[k] = FrameOf(i)[p]
    BY <1>8, <1>16
  <2>4. \A i : FrameOf(i)' = FrameOf(i) /\ FrameLen(i)' = FrameLen(i)
    BY <1>3 DEF FrameOf, FrameLen
  <2>. QED
    BY <1>3, <1>5, <1>8, <2>1, <2>2, <2>3, <2>4 DEF Placed
<1>18. Numbered(start)'
  <2>1. \A i : FrameLen(i)' = FrameLen(i)
    BY <1>3 DEF FrameLen
  <2>. QED
    BY <1>1, <1>3, <2>1 DEF Numbered
<1>19. AtReader(start, pl)'
  <2>1. Current' = c /\ Before' = h
    BY <1>3, <1>4 DEF Current, Before
  <2>2. pl[1] = start[c] + h + (b + n)
    <3>1. 1 \in 1..(m - n) + 1 /\ n \in 0..n
      BY <1>6
    <3>2. pl[1] = at[n + 1]
      BY <1>15, <3>1
    <3>3. at[n + 1] = at[1] + n
      BY <1>13, <3>1
    <3>. QED
      BY <1>6, <1>7, <1>9, <1>12, <3>2, <3>3
  <2>3. \A j : FrameOf(c)'[j] = FrameOf(c)[j]
    BY <1>3 DEF FrameOf
  <2>4. c <= Len(sent') + 1 /\ c <= Len(sent')
    BY <1>3, <1>6, <1>11
  <2>5. \A j : FrameOf(Current)'[j] = FrameOf(c)[j]
    BY <1>3, <2>1 DEF FrameOf
  <2>. QED
    BY <1>5, <1>14, <2>1, <2>2, <2>4, <2>5 DEF AtReader
<1>20. phase' # "failed" /\ Known'
  BY <1>3 DEF InStep, Known, Current
<1>. QED
  BY <1>17, <1>18, <1>19, <1>20 DEF InStep

(* The next message of a WebSocket goes on where the last one ended.       *)
LEMMA NextInStep ==
  ASSUME TypeOK, InStep, NextReader
  PROVE  InStep'
<1>1. PICK start, at : Numbered(start) /\ Placed(start, at) /\ AtReader(start, at)
  BY DEF InStep
<1>2. UNCHANGED <<ws, sent, end, phase, need, buf, msgLen, common, delivered>>
  BY DEF NextReader, readerVars
<1>3. PICK m : m = Len(stream)
  OBVIOUS
<1>4. /\ m \in Nat /\ m > 1 /\ Len(stream') = m - 1 /\ stream[1] = Cut
      /\ \A k \in 1..(m - 1) : stream'[k] = stream[k + 1]
  BY <1>3, Dropped, Lens
<1>5. PICK pl : pl = [k \in 1..(m - 1) + 1 |-> at[k + 1]]
  OBVIOUS
<1>6. \A k \in 1..(m - 1) : /\ k + 1 \in 1..m /\ pl[k] = at[k + 1] /\ pl[k + 1] = at[(k + 1) + 1]
                            /\ stream'[k] = stream[k + 1]
  BY <1>4, <1>5
<1>7. at \in [1..m + 1 -> Nat] /\ at[2] = at[1]
  <2>1. 1 \in 1..m /\ 1 + 1 = 2
    BY <1>4
  <2>. QED
    BY <1>1, <1>3, <1>4, <2>1 DEF Placed
<1>8. Placed(start, pl)'
  <2>1. pl \in [1..(m - 1) + 1 -> Nat]
    BY <1>4, <1>5, <1>7
  <2>2. pl[(m - 1) + 1] = at[m + 1]
    BY <1>4, <1>5
  <2>3. ASSUME NEW k \in 1..(m - 1)
        PROVE  /\ pl[k + 1] = IF stream'[k] = Cut THEN pl[k] ELSE pl[k] + 1
               /\ stream'[k] # Cut =>
                    /\ pl[k] < start[Len(sent) + 1]
                    /\ \A i \in 1..Len(sent) : \A p \in 1..FrameLen(i) :
                         pl[k] + 1 = start[i] + p => stream'[k] = FrameOf(i)[p]
    <3>1. k + 1 \in 1..m /\ pl[k] = at[k + 1] /\ pl[k + 1] = at[(k + 1) + 1] /\ stream'[k] = stream[k + 1]
      BY <1>6
    <3>2. PICK j \in 1..m : j = k + 1
      BY <3>1
    <3>3. /\ at[j + 1] = IF stream[j] = Cut THEN at[j] ELSE at[j] + 1
          /\ stream[j] # Cut =>
               /\ at[j] < start[Len(sent) + 1]
               /\ \A i \in 1..Len(sent) : \A p \in 1..FrameLen(i) :
                    at[j] + 1 = start[i] + p => stream[j] = FrameOf(i)[p]
      BY <1>1, <1>3 DEF Placed
    <3>. QED
      BY <3>1, <3>2, <3>3
  <2>4. \A i : FrameOf(i)' = FrameOf(i) /\ FrameLen(i)' = FrameLen(i)
    BY <1>2 DEF FrameOf, FrameLen
  <2>5. end = "open" => at[m + 1] = start[Len(sent) + 1]
    BY <1>1, <1>3 DEF Placed
  <2>. QED
    BY <1>2, <1>4, <2>1, <2>2, <2>3, <2>4, <2>5 DEF Placed
<1>9. Numbered(start)'
  <2>1. \A i : FrameLen(i)' = FrameLen(i)
    BY <1>2 DEF FrameLen
  <2>. QED
    BY <1>1, <1>2, <2>1 DEF Numbered
<1>10. AtReader(start, pl)'
  <2>1. pl[1] = at[1]
    BY <1>4, <1>5, <1>7
  <2>2. Current' = Current /\ Before' = Before
    BY <1>2 DEF Current, Before
  <2>3. \A j : FrameOf(Current)'[j] = FrameOf(Current)[j]
    BY <1>2, <2>2 DEF FrameOf
  <2>. QED
    BY <1>1, <1>2, <2>1, <2>2, <2>3 DEF AtReader
<1>11. phase' # "failed" /\ Known'
  BY <1>2 DEF InStep, Known, Current
<1>. QED
  BY <1>8, <1>9, <1>10, <1>11 DEF InStep

(* A part that is read to its end makes room for the next part.            *)
LEMMA Turned ==
  ASSUME TypeOK, NEW start, NEW at, Numbered(start), Placed(start, at), AtReader(start, at),
         UNCHANGED <<ws, sent, stream, end, delivered>>, buf' = <<>>,
         Current <= Len(sent), Before' = Before + Len(buf)
  PROVE  Numbered(start)' /\ Placed(start, at)' /\ AtReader(start, at)'
<1>1. \A i : FrameOf(i)' = FrameOf(i) /\ FrameLen(i)' = FrameLen(i)
  BY DEF FrameOf, FrameLen
<1>2. Numbered(start)' /\ Placed(start, at)'
  BY <1>1 DEF Numbered, Placed
<1>3. Current' = Current /\ Len(sent') = Len(sent)
  BY DEF Current
<1>4. Len(buf') = 0 /\ Len(buf) \in Nat /\ Before \in Nat /\ Current \in Nat /\ Len(sent) \in Nat
  BY EmptySeq, Lens, Constants DEF Before, HeadLen, Current
<1>5. start[Current] \in Nat
  <2>1. Current \in 1..Len(sent) + 1
    BY <1>4, Lens DEF Current
  <2>. QED
    BY <2>1 DEF Numbered
<1>6. at[1] = start[Current] + Before' + Len(buf')
  BY <1>4, <1>5 DEF AtReader
<1>7. Current' <= Len(sent') + 1 /\ Current' <= Len(sent') /\ 1..Len(buf') = {}
  BY <1>3, <1>4
<1>. QED
  BY <1>2, <1>3, <1>6, <1>7 DEF AtReader

(* The header: a length that fits is read as it was written.               *)
LEMMA HeaderInStep ==
  ASSUME TypeOK, InStep, Fit(Current), Header
  PROVE  InStep'
<1>1. PICK start, at : Numbered(start) /\ Placed(start, at) /\ AtReader(start, at)
  BY DEF InStep
<1>2. PICK c \in Lengths(buf[1]), l \in Lengths(buf[2]) : Reads("common", c) /\ msgLen' = l
  BY DEF Header
<1>3. /\ UNCHANGED <<ws, sent, stream, end, delivered>>
      /\ phase = "header" /\ phase' = "common" /\ need' = c /\ buf' = <<>> /\ msgLen' = l
      /\ Len(buf) = HeadLen
  BY <1>2 DEF Header, Reads
<1>4. Current \in 1..Len(sent) /\ Current \in 1..MaxMessages /\ sent[Current] \in Nat /\ sent[Current] < Base
  <2>1. Current <= Len(sent)
    BY <1>1, <1>3, EmptySeq DEF AtReader, HeadLen
  <2>2. Current \in 1..Len(sent) /\ Current \in 1..MaxMessages
    BY <2>1, Lens, Constants DEF Current
  <2>. QED
    BY <2>2, Lens DEF Fit
<1>5. Before = 0 /\ Before' = HeadLen
  BY <1>3 DEF Before
<1>6. buf[1] = FrameOf(Current)[1] /\ buf[2] = FrameOf(Current)[2]
  <2>1. 1 \in 1..Len(buf) /\ 2 \in 1..Len(buf)
    BY <1>3 DEF HeadLen
  <2>. QED
    BY <1>1, <1>5, <2>1 DEF AtReader
<1>7. /\ buf[1] = Unit("length", Current, CommonLen)
      /\ buf[2] = Unit("length", Current, sent[Current] % Base)
  BY <1>4, <1>6, FrameUnits DEF FrameOf
<1>8. sent[Current] % Base = sent[Current]
  BY <1>4, Constants, Remainder
<1>9. c = CommonLen /\ l = sent[Current]
  BY <1>2, <1>7, <1>8 DEF Lengths, Unit
<1>10. Numbered(start)' /\ Placed(start, at)' /\ AtReader(start, at)'
  <2>1. Before' = Before + Len(buf)
    BY <1>3, <1>5 DEF HeadLen
  <2>2. Current <= Len(sent)
    BY <1>4
  <2>. QED
    BY <1>1, <1>3, <2>1, <2>2, Turned
<1>11. phase' # "failed" /\ Known'
  <2>1. Current' = Current /\ sent' = sent
    BY <1>3 DEF Current
  <2>. QED
    BY <1>3, <1>9, <2>1 DEF Known
<1>. QED
  BY <1>10, <1>11 DEF InStep

(* What the reader in step has in its buffer at the end of a part.         *)
LEMMA Parts ==
  ASSUME TypeOK, NEW start, NEW at, AtReader(start, at), Known,
         phase \in {"common", "msg"}, Len(buf) = need
  PROVE  /\ Current \in 1..Len(sent)
         /\ phase = "common" => buf = Body("common", Current, CommonLen)
         /\ phase = "msg" => buf = Body("msg", Current, sent[Current])
<1>1. Current \in 1..Len(sent) /\ Current \in 1..MaxMessages /\ sent[Current] \in Nat
  <2>1. Current <= Len(sent)
    BY DEF AtReader
  <2>2. Current \in 1..Len(sent) /\ Current \in 1..MaxMessages
    BY <2>1, Lens, Constants DEF Current
  <2>. QED
    BY <2>2, Lens
<1>2. buf \in Seq(Units) /\ \A j \in 1..Len(buf) : buf[j] = FrameOf(Current)[Before + j]
  BY SeqMonotonic DEF TypeOK, AtReader
<1>3. CASE phase = "common"
  <2>1. Before = HeadLen /\ Len(buf) = CommonLen
    BY <1>3 DEF Before, Known
  <2>2. \A j \in 1..CommonLen : buf[j] = Unit("common", Current, j)
    BY <1>1, <1>2, <2>1, FrameUnits DEF FrameOf
  <2>3. buf = [j \in 1..CommonLen |-> Unit("common", Current, j)]
    <3>1. buf = [j \in 1..Len(buf) |-> buf[j]]
      BY <1>2
    <3>. QED
      BY <2>1, <2>2, <3>1
  <2>. QED
    BY <1>1, <1>3, <2>3 DEF Body
<1>4. CASE phase = "msg"
  <2>1. Before = HeadLen + CommonLen /\ Len(buf) = sent[Current]
    BY <1>4 DEF Before, Known
  <2>2. \A j \in 1..sent[Current] : buf[j] = Unit("msg", Current, j)
    BY <1>1, <1>2, <2>1, FrameUnits DEF FrameOf
  <2>3. buf = [j \in 1..sent[Current] |-> Unit("msg", Current, j)]
    <3>1. buf = [j \in 1..Len(buf) |-> buf[j]]
      BY <1>2
    <3>. QED
      BY <2>1, <2>2, <3>1
  <2>. QED
    BY <1>1, <1>4, <2>3 DEF Body
<1>. QED
  BY <1>1, <1>3, <1>4

(* The bytes of a common part are those of one message only.               *)
LEMMA OneCommon ==
  ASSUME TypeOK, NEW i \in 1..Len(sent)
  PROVE  Decoded("common", Body("common", i, CommonLen)) = {i}
<1>1. i \in 1..MaxMessages /\ CommonLen \in Nat /\ 1 \in 1..CommonLen
  BY Lens, Constants
<1>2. ASSUME NEW j \in 1..Len(sent), Body("common", i, CommonLen) = Body("common", j, CommonLen)
      PROVE  i = j
  <2>1. j \in 1..MaxMessages
    BY Lens, Constants
  <2>2. Body("common", i, CommonLen)[1] = Unit("common", i, 1)
    BY <1>1, BodyUnits
  <2>3. Body("common", j, CommonLen)[1] = Unit("common", j, 1)
    BY <1>1, <2>1, BodyUnits
  <2>4. Unit("common", i, 1) = Unit("common", j, 1)
    BY <1>2, <2>2, <2>3
  <2>. QED
    BY <2>4 DEF Unit
<1>3. \A j \in 1..Len(sent) :
        (IF "common" = "msg" THEN sent[j] ELSE CommonLen) = CommonLen
  OBVIOUS
<1>. QED
  BY <1>2, <1>3 DEF Decoded

(* A part that the end of the stream cut short is not what was packed.     *)
LEMMA TooShort ==
  ASSUME TypeOK, phase \in {"common", "msg"}, Known, Current \in 1..Len(sent), Len(buf) # need
  PROVE  (phase = "common" => Decoded("common", buf) = {})
         /\ (phase = "msg" => Current \notin Decoded("msg", buf))
<1>1. \A i \in 1..Len(sent) : i \in 1..MaxMessages /\ sent[i] \in Nat
  BY Lens, Constants
<1>2. CASE phase = "common"
  <2>1. \A i \in 1..Len(sent) : Len(Body("common", i, CommonLen)) = need
    BY <1>1, <1>2, BodyUnits, Constants DEF Known
  <2>2. Decoded("common", buf) = {i \in 1..Len(sent) : buf = Body("common", i, CommonLen)}
    BY DEF Decoded
  <2>. QED
    BY <1>2, <2>1, <2>2
<1>3. CASE phase = "msg"
  <2>1. Len(Body("msg", Current, sent[Current])) = need
    BY <1>1, <1>3, BodyUnits DEF Known
  <2>2. Decoded("msg", buf) = {i \in 1..Len(sent) : buf = Body("msg", i, sent[i])}
    BY DEF Decoded
  <2>. QED
    BY <1>3, <2>1, <2>2
<1>. QED
  BY <1>2, <1>3

(* The common part: it is that of the current message, or the stream has   *)
(* ended in it.                                                            *)
LEMMA CommonInStep ==
  ASSUME TypeOK, InStep, Common
  PROVE  InStep' \/ Truncated'
<1>1. PICK start, at : Numbered(start) /\ Placed(start, at) /\ AtReader(start, at)
  BY DEF InStep
<1>2. /\ UNCHANGED <<ws, sent, stream, end, msgLen, delivered>>
      /\ phase = "common" /\ phase' = "msg" /\ need' = msgLen /\ buf' = <<>> /\ HasRead
      /\ common' \in Decoded("common", buf) \/ (Decoded("common", buf) = {} /\ common' = Mangled)
  BY DEF Common, Reads
<1>3. Known /\ need = CommonLen /\ msgLen = sent[Current]
  BY <1>2 DEF InStep, Known
<1>4. Current \in 1..Len(sent)
  BY <1>1, <1>2, Lens DEF AtReader, Current
<1>5. CASE Len(buf) = need
  <2>1. buf = Body("common", Current, CommonLen)
    BY <1>1, <1>2, <1>3, <1>5, Parts
  <2>2. common' = Current
    BY <1>2, <1>4, <2>1, OneCommon
  <2>3. Before' = Before + Len(buf) /\ Current <= Len(sent)
    BY <1>2, <1>3, <1>4, <1>5, Constants DEF Before, HeadLen
  <2>4. Numbered(start)' /\ Placed(start, at)' /\ AtReader(start, at)'
    BY <1>1, <1>2, <2>3, Turned
  <2>5. phase' # "failed" /\ Known'
    <3>1. Current' = Current /\ sent' = sent
      BY <1>2 DEF Current
    <3>. QED
      BY <1>2, <1>3, <2>2, <3>1 DEF Known
  <2>. QED
    BY <2>4, <2>5 DEF InStep
<1>6. CASE Len(buf) # need
  <2>1. Decoded("common", buf) = {}
    BY <1>2, <1>3, <1>4, <1>6, TooShort
  <2>2. stream = <<>> /\ end = "eof"
    BY <1>2, <1>6 DEF HasRead
  <2>. QED
    BY <1>2, <2>1, <2>2 DEF Truncated, Over
<1>. QED
  BY <1>5, <1>6

(* The message: it is the current one, and the next one follows, or the    *)
(* stream has ended in it.                                                 *)
LEMMA MessageInStep ==
  ASSUME TypeOK, InStep, Message
  PROVE  \/ delivered' = Append(delivered, Current) /\ InStep'
         \/ delivered' = Append(delivered, Mangled) /\ Drained'
<1>1. PICK start, at : Numbered(start) /\ Placed(start, at) /\ AtReader(start, at)
  BY DEF InStep
<1>2. /\ UNCHANGED <<ws, sent, stream, end, msgLen>>
      /\ phase = "msg" /\ phase' = "header" /\ need' = HeadLen /\ buf' = <<>> /\ HasRead
      /\ delivered' = Append(delivered, IF common \in Decoded("msg", buf) THEN common ELSE Mangled)
  BY DEF Message, Reads
<1>3. Known /\ need = sent[Current] /\ common = Current
  BY <1>2 DEF InStep, Known
<1>4. Current \in 1..Len(sent) /\ Len(sent) \in Nat /\ Current = Len(delivered) + 1
  BY <1>1, <1>2, Lens DEF AtReader, Current
<1>5. CASE Len(buf) = need
  <2>1. buf = Body("msg", Current, sent[Current])
    BY <1>1, <1>2, <1>3, <1>5, Parts
  <2>2. Current \in Decoded("msg", buf)
    BY <1>4, <2>1 DEF Decoded
  <2>3. delivered' = Append(delivered, Current)
    BY <1>2, <1>3, <2>2
  <2>4. Current' = Current + 1
    <3>1. Len(delivered') = Len(delivered) + 1
      BY <1>4, <2>3, AppendProperties DEF TypeOK
    <3>. QED
      BY <1>4, <3>1 DEF Current
  <2>5. PICK a, h, l : a = start[Current] /\ h = HeadLen + CommonLen /\ l = sent[Current]
    OBVIOUS
  <2>6. a \in Nat /\ h \in Nat /\ l \in Nat /\ start[Current + 1] = a + (h + l)
    <3>1. start[Current + 1] = start[Current] + FrameLen(Current)
      BY <1>1, <1>4 DEF Numbered
    <3>2. start \in [1..Len(sent) + 1 -> Nat] /\ sent[Current] \in Nat /\ Current \in 1..Len(sent) + 1
      BY <1>1, <1>4, Lens DEF Numbered
    <3>. QED
      BY <2>5, <3>1, <3>2, Constants DEF FrameLen, HeadLen
  <2>7. AtReader(start, at)'
    <3>1. at[1] = (a + h) + l
      BY <1>1, <1>2, <1>3, <1>5, <2>5 DEF AtReader, Before
    <3>2. Before' = 0 /\ Len(buf') = 0 /\ 1..Len(buf') = {}
      BY <1>2, EmptySeq DEF Before
    <3>3. at[1] = start[Current + 1] /\ start[Current + 1] \in Nat
      BY <2>6, <3>1
    <3>4. at[1] = start[Current'] + Before' + Len(buf')
      BY <2>4, <3>2, <3>3
    <3>5. Current' <= Len(sent') + 1
      BY <1>2, <1>4, <2>4
    <3>. QED
      BY <1>2, <3>2, <3>4, <3>5 DEF AtReader
  <2>8. Numbered(start)' /\ Placed(start, at)'
    <3>1. \A i : FrameOf(i)' = FrameOf(i) /\ FrameLen(i)' = FrameLen(i)
      BY <1>2 DEF FrameOf, FrameLen
    <3>. QED
      BY <1>1, <1>2, <3>1 DEF Numbered, Placed
  <2>9. phase' # "failed" /\ Known'
    BY <1>2 DEF Known
  <2>. QED
    BY <2>3, <2>7, <2>8, <2>9 DEF InStep
<1>6. CASE Len(buf) # need
  <2>1. Current \notin Decoded("msg", buf)
    BY <1>2, <1>3, <1>4, <1>6, TooShort
  <2>2. stream = <<>> /\ end = "eof"
    BY <1>2, <1>6 DEF HasRead
  <2>. QED
    BY <1>2, <1>3, <2>1, <2>2 DEF Drained, Over
<1>. QED
  BY <1>5, <1>6

-------------------------------------------------------------------------------
(* The invariant is kept.                                                  *)

(* What did not fit once does not fit later.                               *)
LEMMA FitStays ==
  ASSUME TypeOK, [Next]_vars, NEW i \in Nat, Fit(i)'
  PROVE  Fit(i)
<1>1. ASSUME NEW j \in 1..i, j \in DOMAIN sent
      PROVE  j \in DOMAIN sent' /\ sent'[j] = sent[j]
  <2>1. ASSUME NEW l \in Sizes, Send(l)
        PROVE  j \in DOMAIN sent' /\ sent'[j] = sent[j]
    <3>1. j \in 1..Len(sent) /\ sent' \in Seq(Sizes) /\ Len(sent') = Len(sent) + 1 /\ Len(sent) \in Nat
      BY <1>1, <2>1, Sending, Lens
    <3>2. DOMAIN sent' = 1..(Len(sent) + 1)
      BY <3>1
    <3>. QED
      BY <2>1, <3>1, <3>2, Sending
  <2>2. ASSUME UNCHANGED sent
        PROVE  j \in DOMAIN sent' /\ sent'[j] = sent[j]
    BY <1>1, <2>2
  <2>3. (\E l \in Sizes : Send(l)) \/ UNCHANGED sent
    BY Steps DEF Break, ReadSome, NextReader, ReadError, HeaderInvalid, Header, Common, CommonFails,
             Message, MessageFails, Fails, Reads, vars, readerVars
  <2>. QED
    BY <2>1, <2>2, <2>3
<1>. QED
  BY <1>1 DEF Fit

LEMMA EndStep ==
  ASSUME EndInv, [Next]_vars
  PROVE  EndInv'
BY Steps DEF EndInv, Send, Break, ReadSome, NextReader, ReadError, HeaderInvalid, Header, Common, CommonFails,
             Message, MessageFails, Fails, Reads, vars, readerVars

(* Everything but Message leaves the messages returned as they are, and    *)
(* Drained, once true.                                                     *)
LEMMA DrainedStays ==
  ASSUME Drained, [Next]_vars
  PROVE  Drained' /\ delivered' = delivered
<1>1. stream = <<>> /\ end = "eof" /\ (phase = "failed" \/ (phase = "header" /\ buf = <<>>))
  BY DEF Drained, Over
<1>2. Len(stream) = 0 /\ (phase = "header" => Len(buf) = 0)
  BY <1>1, EmptySeq
<1>3. ~(\E l \in Sizes : Send(l)) /\ ~Break /\ ~ReadSome /\ ~NextReader /\ ~ReadError
  BY <1>1, <1>2 DEF Send, Break, ReadSome, NextReader, ReadError
<1>4. ~Header /\ ~Common /\ ~CommonFails /\ ~Message /\ ~MessageFails
  BY <1>1, <1>2 DEF Header, Common, CommonFails, Message, MessageFails, HeadLen
<1>5. HeaderInvalid \/ UNCHANGED vars
  BY <1>3, <1>4, Steps
<1>. QED
  BY <1>1, <1>5 DEF HeaderInvalid, Fails, vars, readerVars, Drained, Over

(* A stream that has ended in a common part yields one mangled message, or *)
(* none.                                                                   *)
LEMMA TruncatedStep ==
  ASSUME TypeOK, Truncated, [Next]_vars
  PROVE  \/ Truncated' /\ delivered' = delivered
         \/ phase' = "failed" /\ delivered' = delivered
         \/ Drained' /\ delivered' = Append(delivered, Mangled)
<1>1. stream = <<>> /\ end = "eof" /\ phase = "msg" /\ buf = <<>> /\ common = Mangled
  BY DEF Truncated, Over
<1>2. Len(stream) = 0
  BY <1>1, EmptySeq
<1>3. ~(\E l \in Sizes : Send(l)) /\ ~Break /\ ~ReadSome /\ ~NextReader /\ ~ReadError
  BY <1>1, <1>2 DEF Send, Break, ReadSome, NextReader, ReadError
<1>4. ~HeaderInvalid /\ ~Header /\ ~Common /\ ~CommonFails
  BY <1>1 DEF HeaderInvalid, Header, Common, CommonFails
<1>5. CASE Message
  BY <1>1, <1>5 DEF Message, Reads, Drained, Over
<1>6. CASE MessageFails
  BY <1>6 DEF MessageFails, Fails
<1>7. CASE UNCHANGED vars
  BY <1>1, <1>7 DEF vars, readerVars, Truncated, Over
<1>. QED
  BY <1>3, <1>4, <1>5, <1>6, <1>7, Steps

(* A reader in step stays so, or it fails, or the stream has ended.        *)
LEMMA InStepStep ==
  ASSUME TypeOK, InStep, Fit(Current), [Next]_vars
  PROVE  \/ (InStep \/ Truncated \/ phase = "failed")' /\ delivered' = delivered
         \/ InStep' /\ delivered' = Append(delivered, Current)
         \/ Drained' /\ delivered' = Append(delivered, Mangled)
<1>1. ASSUME NEW l \in Sizes, Send(l)
      PROVE  InStep' /\ delivered' = delivered
  BY <1>1, SendInStep DEF Send, readerVars
<1>2. CASE Break
  BY <1>2, BreakInStep DEF Break, readerVars
<1>3. CASE ReadSome
  BY <1>3, ReadInStep DEF ReadSome
<1>4. CASE NextReader
  BY <1>4, NextInStep DEF NextReader, readerVars
<1>5. CASE ReadError \/ HeaderInvalid \/ CommonFails \/ MessageFails
  BY <1>5 DEF ReadError, HeaderInvalid, CommonFails, MessageFails, Fails
<1>6. CASE Header
  BY <1>6, HeaderInStep DEF Header
<1>7. CASE Common
  BY <1>7, CommonInStep DEF Common
<1>8. CASE Message
  BY <1>8, MessageInStep
<1>9. CASE UNCHANGED vars
  <2>1. UNCHANGED <<ws, sent, stream, end, phase, need, buf, msgLen, common, delivered>>
    BY <1>9 DEF vars, readerVars
  <2>2. \A i : FrameOf(i)' = FrameOf(i) /\ FrameLen(i)' = FrameLen(i)
    BY <2>1 DEF FrameOf, FrameLen
  <2>3. \A j : FrameOf(Current)'[j] = FrameOf(Current)[j]
    BY <2>1 DEF FrameOf, Current
  <2>4. Current' = Current /\ Before' = Before
    BY <2>1 DEF Current, Before
  <2>5. PICK start, at : Numbered(start) /\ Placed(start, at) /\ AtReader(start, at)
    BY DEF InStep
  <2>6. Numbered(start)' /\ Placed(start, at)'
    BY <2>1, <2>2, <2>5 DEF Numbered, Placed
  <2>7. AtReader(start, at)'
    BY <2>1, <2>3, <2>4, <2>5 DEF AtReader
  <2>8. phase' # "failed" /\ Known'
    BY <2>1, <2>4 DEF InStep, Known
  <2>. QED
    BY <2>1, <2>6, <2>7, <2>8 DEF InStep
<1>. QED
  BY <1>1, <1>2, <1>3, <1>4, <1>5, <1>6, <1>7, <1>8, <1>9, Steps

(* Where the messages so far fit, and the next one does, the reader has    *)
(* got them all.                                                           *)
LEMMA KeptStep ==
  ASSUME TypeOK, TypeOK', Kept, StepInv, [Next]_vars
  PROVE  Kept' /\ StepInv'
<1>1. Current \in Nat \ {0} /\ Current = Len(delivered) + 1 /\ DOMAIN delivered = 1..Len(delivered)
  BY Lens DEF Current
<1>2. \A i \in Nat : Fit(i)' => Fit(i)
  BY FitStays
<1>3. ASSUME NEW i \in Nat, NEW j \in Nat, i <= j, Fit(j)
      PROVE  Fit(i)
  BY <1>3 DEF Fit
<1>4. ASSUME delivered' = delivered
      PROVE  Kept'
  <2>. SUFFICES ASSUME NEW i \in DOMAIN delivered, Fit(i)'
                PROVE  \/ delivered[i] = i
                       \/ i = Len(delivered) /\ delivered[i] = Mangled /\ Drained'
    BY <1>4 DEF Kept
  <2>1. Fit(i)
    BY <1>1, <1>2
  <2>. QED
    BY <2>1, DrainedStays DEF Kept
<1>5. ASSUME delivered' = delivered
      PROVE  Current' = Current
  BY <1>5 DEF Current
<1>6. ASSUME NEW x, delivered' = Append(delivered, x)
      PROVE  /\ Len(delivered') = Current /\ DOMAIN delivered' = 1..Current
             /\ delivered'[Current] = x /\ \A i \in DOMAIN delivered : delivered'[i] = delivered[i]
             /\ Current' = Current + 1
  <2>1. PICK S : delivered \in Seq(S) /\ x \in S
    <3>1. delivered \in Seq(1..MaxMessages \cup {Mangled})
      BY DEF TypeOK
    <3>2. delivered \in Seq(1..MaxMessages \cup {Mangled} \cup {x})
      BY <3>1, SeqMonotonic
    <3>. QED
      BY <3>2
  <2>2. /\ Append(delivered, x) \in Seq(S) /\ Len(Append(delivered, x)) = Len(delivered) + 1
        /\ \A i \in 1..Len(delivered) : Append(delivered, x)[i] = delivered[i]
        /\ Append(delivered, x)[Len(delivered) + 1] = x
    BY <2>1, AppendProperties
  <2>3. DOMAIN delivered' = 1..Len(delivered')
    BY <1>6, <2>2
  <2>. QED
    BY <1>1, <1>6, <2>2, <2>3 DEF Current
<1>7. ASSUME Fit(Current), ~Drained, delivered' = Append(delivered, Current)
      PROVE  Kept'
  <2>. SUFFICES ASSUME NEW i \in 1..Current
                PROVE  delivered'[i] = i
    BY <1>6, <1>7 DEF Kept
  <2>1. CASE i = Current
    BY <1>6, <1>7, <2>1
  <2>2. CASE i # Current
    <3>1. i \in DOMAIN delivered /\ Fit(i)
      BY <1>1, <1>3, <1>7, <2>2
    <3>2. delivered[i] = i
      BY <1>7, <3>1 DEF Kept
    <3>. QED
      BY <1>6, <1>7, <3>1, <3>2
  <2>. QED
    BY <2>1, <2>2
<1>8. ASSUME Fit(Current), ~Drained, Drained', delivered' = Append(delivered, Mangled)
      PROVE  Kept'
  <2>. SUFFICES ASSUME NEW i \in 1..Current
                PROVE  delivered'[i] = i \/ (i = Len(delivered') /\ delivered'[i] = Mangled)
    BY <1>6, <1>8 DEF Kept
  <2>1. CASE i = Current
    BY <1>6, <1>8, <2>1
  <2>2. CASE i # Current
    <3>1. i \in DOMAIN delivered /\ Fit(i)
      BY <1>1, <1>3, <1>8, <2>2
    <3>2. delivered[i] = i
      BY <1>8, <3>1 DEF Kept
    <3>. QED
      BY <1>6, <1>8, <3>1, <3>2
  <2>. QED
    BY <2>1, <2>2
<1>9. CASE ~Fit(Current)
  <2>1. \/ delivered' = delivered
        \/ \E x : delivered' = Append(delivered, x)
    BY Steps DEF Send, Break, ReadSome, NextReader, ReadError, HeaderInvalid, Header, Common, CommonFails,
             Message, MessageFails, Fails, Reads, vars, readerVars
  <2>2. CASE delivered' = delivered
    <3>1. ~Fit(Current)'
      BY <1>1, <1>2, <1>5, <1>9, <2>2 DEF Fit
    <3>. QED
      BY <1>4, <2>2, <3>1 DEF StepInv
  <2>3. ASSUME NEW x, delivered' = Append(delivered, x)
        PROVE  Kept' /\ StepInv'
    <3>1. \A j \in Nat : j >= Current => ~Fit(j)'
      BY <1>1, <1>2, <1>3, <1>9
    <3>2. Current' \in Nat /\ Current' >= Current
      BY <1>1, <1>6, <2>3
    <3>3. ~Fit(Current)'
      <4>1. PICK j : j = Current'
        OBVIOUS
      <4>2. ~Fit(j)'
        BY <3>1, <3>2, <4>1
      <4>. QED
        BY <4>1, <4>2 DEF Fit
    <3>4. Kept'
      <4>. SUFFICES ASSUME NEW i \in DOMAIN delivered', Fit(i)'
                    PROVE  \/ delivered'[i] = i
                           \/ i = Len(delivered') /\ delivered'[i] = Mangled /\ Drained'
        BY DEF Kept
      <4>1. i \in 1..Current /\ i # Current
        BY <1>1, <1>6, <2>3, <3>1
      <4>2. i \in DOMAIN delivered /\ Fit(i) /\ i # Len(delivered')
        BY <1>1, <1>2, <1>6, <2>3, <4>1
      <4>3. ~Drained
        <5>1. Len(delivered') = Len(delivered) + 1 /\ Len(delivered) \in Nat
          BY <1>1, <1>6, <2>3, Lens
        <5>2. delivered' # delivered
          BY <5>1
        <5>. QED
          BY <5>2, DrainedStays
      <4>. QED
        BY <1>6, <2>3, <4>2, <4>3 DEF Kept
    <3>. QED
      BY <3>3, <3>4 DEF StepInv
  <2>. QED
    BY <2>1, <2>2, <2>3
<1>10. CASE Fit(Current) /\ Drained
  BY <1>4, <1>10, DrainedStays DEF StepInv
<1>11. CASE Fit(Current) /\ phase = "failed"
  <2>1. phase' = "failed" /\ delivered' = delivered
    BY <1>11, Steps DEF Send, Break, ReadSome, NextReader, ReadError, HeaderInvalid, Header, Common, CommonFails,
             Message, MessageFails, Fails, Reads, vars, readerVars
  <2>. QED
    BY <1>4, <2>1 DEF StepInv
<1>12. CASE Fit(Current) /\ ~Drained /\ Truncated
  BY <1>4, <1>8, <1>12, TruncatedStep DEF StepInv
<1>13. CASE Fit(Current) /\ ~Drained /\ InStep
  BY <1>4, <1>7, <1>8, <1>13, InStepStep DEF StepInv
<1>. QED
  BY <1>9, <1>10, <1>11, <1>12, <1>13 DEF StepInv

LEMMA InitInv ==
  ASSUME Init
  PROVE  Inv
<1>1. Len(<<>>) = 0 /\ 1..Len(<<>>) = {} /\ DOMAIN <<>> = {}
  BY EmptySeq
<1>2. TypeOK
  <2>1. <<>> \in Seq(Sizes) /\ <<>> \in Seq(Units) /\ <<>> \in Seq(Units \ {Cut})
        /\ <<>> \in Seq(1..MaxMessages \cup {Mangled})
    BY EmptySeq
  <2>2. 0 <= MaxMessages /\ 0 <= HeadLen /\ 0 \in 0..(Base - 1)
    BY Constants DEF HeadLen
  <2>. QED
    BY <1>1, <2>1, <2>2 DEF Init, TypeOK
<1>3. LengthInv /\ EndInv /\ Kept
  BY <1>1 DEF Init, LengthInv, EndInv, Kept
<1>4. InStep
  <2>1. PICK start, at : start = [i \in 1..1 |-> 0] /\ at = [k \in 1..1 |-> 0]
    OBVIOUS
  <2>2. Len(sent) = 0 /\ Len(stream) = 0 /\ Len(buf) = 0 /\ Current = 1 /\ Before = 0 /\ phase = "header"
    BY <1>1 DEF Init, Current, Before
  <2>3. Numbered(start) /\ Placed(start, at) /\ AtReader(start, at)
    BY <2>1, <2>2 DEF Init, Numbered, Placed, AtReader
  <2>. QED
    BY <2>2, <2>3 DEF InStep, Known, Init
<1>. QED
  BY <1>2, <1>3, <1>4 DEF Inv, StepInv

THEOREM Invariance == Spec => []Inv
<1>1. Inv /\ [Next]_vars => Inv'
  BY TypeStep, LengthStep, EndStep, KeptStep DEF Inv
<1>. QED
  BY <1>1, InitInv, PTL DEF Spec

(* Every value of the stream and of the reader has its type: ReadAll takes *)
(* no more than its limit, and a length is always below Base.              *)
THEOREM TypeCorrect == Spec => []TypeOK
BY Invariance, PTL DEF Inv

(* packet.go:25-64, 96-122: what ReadMessage returns is what was written,  *)
(* one for one and in order, for any number of messages of any lengths,    *)
(* up to the first one that does not fit, however the stream is cut.       *)
THEOREM FramesAreKept == Spec => []FramesKept
<1>1. Inv => FramesKept
  BY DEF Inv, EndInv, Kept, Drained, Over, FramesKept
<1>. QED
  BY <1>1, Invariance, PTL
===============================================================================
