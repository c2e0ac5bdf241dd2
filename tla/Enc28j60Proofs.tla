---------------------------- MODULE Enc28j60Proofs ----------------------------
(***************************************************************************)
(* The receive ring of the ENC28J60 driver, for a ring and frames of any   *)
(* size: every frame the controller has counted is read where it starts,   *)
(* before it can be overwritten, and handed up once and in order.          *)
(*                                                                         *)
(* Addresses wrap, so places in the ring are compared by their distance    *)
(* from the oldest frame.  The invariant orders the frames by it, and says *)
(* how many frames an overrun leaves at each place of the handler: that is *)
(* why recive_packet_error, which does not look at EPKTCNT, finds one.     *)
(***************************************************************************)
EXTENDS Enc28j60, SequenceTheorems, TLAPS

LEMMA SizeFacts ==
  /\ RingSize \in Nat /\ MaxSize \in Nat /\ MaxCount \in Nat
  /\ MaxSize > 0 /\ MaxCount > 2 /\ RingSize > 3 * MaxSize + 1
  /\ \A f \in Frames : Size[f] \in 1 .. MaxSize
BY FramesAssumption, RingAssumption

-----------------------------------------------------------------------------
(* Addresses                                                               *)

\* From byte b to byte a, forwards.
Distance(a, b) == (a - b) % RingSize

LEMMA Modulo ==
  /\ \A x \in 0 .. RingSize - 1 : x % RingSize = x
  /\ \A x \in RingSize .. 2 * RingSize - 1 : x % RingSize = x - RingSize
  /\ \A x \in -RingSize .. -1 : x % RingSize = x + RingSize
<1>1. RingSize \in Nat \ {0}
  BY SizeFacts
<1>2. \A x \in 0 .. RingSize - 1 : x % RingSize = x
  BY <1>1
<1>3. \A x \in RingSize .. 2 * RingSize - 1 : x % RingSize = x - RingSize
  BY <1>1
<1>4. \A x \in -RingSize .. -1 : x % RingSize = x + RingSize
  BY <1>1
<1> QED
  BY <1>2, <1>3, <1>4

LEMMA DistanceIs ==
  ASSUME NEW a \in Bytes, NEW b \in Bytes
  PROVE  /\ Distance(a, b) = IF a >= b THEN a - b ELSE a - b + RingSize
         /\ Distance(a, b) \in 0 .. RingSize - 1
<1>1. RingSize \in Nat /\ a \in Nat /\ b \in Nat /\ a < RingSize /\ b < RingSize
  BY SizeFacts DEF Bytes
<1>2. CASE a >= b
  BY <1>1, <1>2, Modulo DEF Distance
<1>3. CASE a < b
  <2>1. a - b \in -RingSize .. -1
    BY <1>1, <1>3
  <2> QED
    BY <1>1, <1>3, <2>1, Modulo DEF Distance
<1> QED
  BY <1>1, <1>2, <1>3

LEMMA DistanceZero ==
  ASSUME NEW a \in Bytes, NEW b \in Bytes, Distance(a, b) = 0
  PROVE  a = b
<1>1. RingSize \in Nat /\ a \in 0 .. RingSize - 1 /\ b \in 0 .. RingSize - 1
  BY SizeFacts DEF Bytes
<1>2. Distance(a, b) = IF a >= b THEN a - b ELSE a - b + RingSize
  BY DistanceIs
<1> QED
  BY <1>1, <1>2

LEMMA MoveIs ==
  ASSUME NEW a \in Bytes, NEW n \in 0 .. RingSize
  PROVE  /\ Move(a, n) = IF a + n < RingSize THEN a + n ELSE a + n - RingSize
         /\ Move(a, n) \in Bytes
<1>1. RingSize \in Nat /\ a \in Nat /\ a < RingSize /\ n \in Nat /\ n <= RingSize
  BY SizeFacts DEF Bytes
<1>2. CASE a + n < RingSize
  BY <1>1, <1>2, Modulo DEF Move, Bytes
<1>3. CASE a + n >= RingSize
  <2>1. a + n \in RingSize .. 2 * RingSize - 1
    BY <1>1, <1>3
  <2> QED
    BY <1>1, <1>3, <2>1, Modulo DEF Move, Bytes
<1> QED
  BY <1>1, <1>2, <1>3

\* A step forward that does not pass the origin.
LEMMA DistanceMove ==
  ASSUME NEW a \in Bytes, NEW o \in Bytes, NEW n \in Nat, Distance(a, o) + n < RingSize
  PROVE  Move(a, n) \in Bytes /\ Distance(Move(a, n), o) = Distance(a, o) + n
<1>1. RingSize \in Nat /\ a \in 0 .. RingSize - 1 /\ o \in 0 .. RingSize - 1
  BY SizeFacts DEF Bytes
<1>2. /\ Distance(a, o) = IF a >= o THEN a - o ELSE a - o + RingSize
      /\ Distance(a, o) \in 0 .. RingSize - 1
  BY DistanceIs
<1>3. n \in 0 .. RingSize
  BY <1>1, <1>2
<1>4. /\ Move(a, n) = IF a + n < RingSize THEN a + n ELSE a + n - RingSize
      /\ Move(a, n) \in Bytes
  BY <1>3, MoveIs
<1>5. Distance(Move(a, n), o) = IF Move(a, n) >= o THEN Move(a, n) - o ELSE Move(a, n) - o + RingSize
  BY <1>4, DistanceIs
<1> QED
  BY <1>1, <1>2, <1>3, <1>4, <1>5

\* The origin moves forward, not past byte a.
LEMMA DistanceShift ==
  ASSUME NEW a \in Bytes, NEW o \in Bytes, NEW n \in Nat, n <= Distance(a, o)
  PROVE  Move(o, n) \in Bytes /\ Distance(a, Move(o, n)) = Distance(a, o) - n
<1>1. RingSize \in Nat /\ a \in 0 .. RingSize - 1 /\ o \in 0 .. RingSize - 1
  BY SizeFacts DEF Bytes
<1>2. /\ Distance(a, o) = IF a >= o THEN a - o ELSE a - o + RingSize
      /\ Distance(a, o) \in 0 .. RingSize - 1
  BY DistanceIs
<1>3. n \in 0 .. RingSize
  BY <1>1, <1>2
<1>4. /\ Move(o, n) = IF o + n < RingSize THEN o + n ELSE o + n - RingSize
      /\ Move(o, n) \in Bytes
  BY <1>3, MoveIs
<1>5. Distance(a, Move(o, n)) = IF a >= Move(o, n) THEN a - Move(o, n) ELSE a - Move(o, n) + RingSize
  BY <1>4, DistanceIs
<1> QED
  BY <1>1, <1>2, <1>3, <1>4, <1>5

\* The space left when ERXRDPT is x and ERXWRPT is w.
Space(x, w) == (x - w - 1) % RingSize

LEMMA SpaceIs ==
  ASSUME NEW x \in Bytes, NEW w \in Bytes
  PROVE  /\ Space(x, w) = IF x > w THEN x - w - 1 ELSE x - w - 1 + RingSize
         /\ Space(x, w) \in 0 .. RingSize - 1
<1>1. RingSize \in Nat /\ x \in Nat /\ w \in Nat /\ x < RingSize /\ w < RingSize
  BY SizeFacts DEF Bytes
<1>2. CASE x > w
  <2>1. x - w - 1 \in 0 .. RingSize - 1
    BY <1>1, <1>2
  <2> QED
    BY <1>1, <1>2, <2>1, Modulo DEF Space
<1>3. CASE x <= w
  <2>1. x - w - 1 \in -RingSize .. -1
    BY <1>1, <1>3
  <2> QED
    BY <1>1, <1>3, <2>1, Modulo DEF Space
<1> QED
  BY <1>1, <1>2, <1>3

\* A frame that fits takes its size from the space.
LEMMA SpaceTaken ==
  ASSUME NEW x \in Bytes, NEW w \in Bytes, NEW n \in Nat, n <= Space(x, w)
  PROVE  Move(w, n) \in Bytes /\ Space(x, Move(w, n)) = Space(x, w) - n
<1>1. RingSize \in Nat /\ x \in 0 .. RingSize - 1 /\ w \in 0 .. RingSize - 1
  BY SizeFacts DEF Bytes
<1>2. /\ Space(x, w) = IF x > w THEN x - w - 1 ELSE x - w - 1 + RingSize
      /\ Space(x, w) \in 0 .. RingSize - 1
  BY SpaceIs
<1>3. n \in 0 .. RingSize
  BY <1>1, <1>2
<1>4. /\ Move(w, n) = IF w + n < RingSize THEN w + n ELSE w + n - RingSize
      /\ Move(w, n) \in Bytes
  BY <1>3, MoveIs
<1>5. Space(x, Move(w, n)) = IF x > Move(w, n) THEN x - Move(w, n) - 1 ELSE x - Move(w, n) - 1 + RingSize
  BY <1>4, SpaceIs
<1> QED
  BY <1>1, <1>2, <1>3, <1>4, <1>5

\* recive_packet leaves ERXRDPT at the byte before the next frame.
LEMMA SpaceReleased ==
  ASSUME NEW o \in Bytes, NEW w \in Bytes, Distance(w, o) < RingSize - 1,
         NEW x, x = IF o = 0 THEN RingSize - 1 ELSE o - 1
  PROVE  x \in Bytes /\ Space(x, w) = RingSize - 2 - Distance(w, o)
<1>1. RingSize \in Nat /\ w \in 0 .. RingSize - 1 /\ o \in 0 .. RingSize - 1 /\ RingSize > 2
  BY SizeFacts DEF Bytes
<1>2. Distance(w, o) = IF w >= o THEN w - o ELSE w - o + RingSize
  BY DistanceIs
<1>3. x \in Bytes
  BY <1>1 DEF Bytes
<1>4. Space(x, w) = IF x > w THEN x - w - 1 ELSE x - w - 1 + RingSize
  BY <1>3, SpaceIs
<1> QED
  BY <1>1, <1>2, <1>3, <1>4

-----------------------------------------------------------------------------
(* Frames in the ring                                                      *)

Stretch == [at : Bytes, frame : Frames]

\* Where frame i of r ends, from the origin o.
EndOf(r, i, o) == Distance(r[i].at, o) + Size[r[i].frame]

\* The frames of r lie one behind the other from byte o up to byte w.
Laid(r, o, w) ==
  /\ r \in Seq(Stretch) /\ o \in Bytes /\ w \in Bytes
  /\ IF r = <<>> THEN w = o ELSE r[1].at = o
  /\ \A i \in 1 .. Len(r) :
       EndOf(r, i, o) = Distance(IF i = Len(r) THEN w ELSE r[i + 1].at, o)
  /\ \A i, j \in 1 .. Len(r) : i < j => EndOf(r, i, o) <= Distance(r[j].at, o)
  /\ \A i \in 1 .. Len(r) : EndOf(r, i, o) <= Distance(w, o)

LEMMA LaidTypes ==
  ASSUME NEW r, NEW o, NEW w, Laid(r, o, w)
  PROVE  /\ Len(r) \in Nat /\ Distance(w, o) \in 0 .. RingSize - 1
         /\ Distance(o, o) = 0
         /\ \A i \in 1 .. Len(r) : /\ r[i] \in Stretch /\ r[i].at \in Bytes /\ r[i].frame \in Frames
                                   /\ Size[r[i].frame] \in 1 .. MaxSize
                                   /\ Distance(r[i].at, o) \in 0 .. RingSize - 1
<1>1. r \in Seq(Stretch) /\ o \in Bytes /\ w \in Bytes /\ Len(r) \in Nat
  BY DEF Laid
<1>2. Distance(w, o) \in 0 .. RingSize - 1
  BY <1>1, DistanceIs
<1>3. Distance(o, o) = 0
  <2>1. o \in Nat
    BY <1>1, SizeFacts DEF Bytes
  <2>2. Distance(o, o) = o - o
    BY <1>1, <2>1, DistanceIs
  <2> QED
    BY <2>1, <2>2
<1>4. ASSUME NEW i \in 1 .. Len(r)
      PROVE  /\ r[i] \in Stretch /\ r[i].at \in Bytes /\ r[i].frame \in Frames
             /\ Size[r[i].frame] \in 1 .. MaxSize
             /\ Distance(r[i].at, o) \in 0 .. RingSize - 1
  <2>1. r[i] \in Stretch
    BY <1>1, ElementOfSeq
  <2>2. r[i].at \in Bytes /\ r[i].frame \in Frames
    BY <2>1 DEF Stretch
  <2> QED
    BY <1>1, <2>1, <2>2, DistanceIs, SizeFacts
<1> QED
  BY <1>1, <1>2, <1>3, <1>4

\* A frame that fits is stored behind the others.
LEMMA LaidAppend ==
  ASSUME NEW r, NEW o, NEW w, Laid(r, o, w), NEW f \in Frames,
         Distance(w, o) + Size[f] < RingSize
  PROVE  /\ Laid(Append(r, [at |-> w, frame |-> f]), o, Move(w, Size[f]))
         /\ Distance(Move(w, Size[f]), o) = Distance(w, o) + Size[f]
         /\ Len(Append(r, [at |-> w, frame |-> f])) = Len(r) + 1
<1> SUFFICES ASSUME NEW q, q = Append(r, [at |-> w, frame |-> f])
             PROVE  /\ Laid(q, o, Move(w, Size[f]))
                    /\ Distance(Move(w, Size[f]), o) = Distance(w, o) + Size[f]
                    /\ Len(q) = Len(r) + 1
  OBVIOUS
<1> DEFINE e == [at |-> w, frame |-> f]
           v == Move(w, Size[f])
<1>1. r \in Seq(Stretch) /\ o \in Bytes /\ w \in Bytes /\ e \in Stretch /\ Size[f] \in Nat
  BY SizeFacts DEF Laid, Stretch
<1>2. v \in Bytes /\ Distance(v, o) = Distance(w, o) + Size[f]
  BY <1>1, DistanceMove
<1>3. /\ q \in Seq(Stretch) /\ Len(q) = Len(r) + 1 /\ Len(r) \in Nat /\ q # <<>>
      /\ \A i \in 1 .. Len(r) : q[i] = r[i]
      /\ q[Len(r) + 1] = e
  BY <1>1, AppendProperties
<1> HIDE DEF v
<1>4. q[Len(q)].at = w /\ EndOf(q, Len(q), o) = Distance(v, o)
  BY <1>2, <1>3 DEF EndOf
<1>5. \A i \in 1 .. Len(r) : EndOf(q, i, o) = EndOf(r, i, o)
  BY <1>3 DEF EndOf
<1>6. q[1].at = o
  <2>1. CASE r = <<>>
    BY <1>1, <1>3, <1>4, <2>1 DEF Laid
  <2>2. CASE r # <<>>
    <3>1. 1 \in 1 .. Len(r)
      BY <1>1, <2>2, EmptySeq
    <3> QED
      BY <1>3, <2>2, <3>1 DEF Laid
  <2> QED
    BY <2>1, <2>2
<1>7. ASSUME NEW i \in 1 .. Len(q)
      PROVE  EndOf(q, i, o) = Distance(IF i = Len(q) THEN v ELSE q[i + 1].at, o)
  <2>1. CASE i = Len(q)
    BY <1>4, <2>1
  <2>2. CASE i # Len(q)
    <3>1. i \in 1 .. Len(r)
      BY <1>3, <2>2
    <3>2. EndOf(r, i, o) = Distance(IF i = Len(r) THEN w ELSE r[i + 1].at, o)
      BY <3>1 DEF Laid
    <3>3. q[i + 1].at = IF i = Len(r) THEN w ELSE r[i + 1].at
      BY <1>3, <1>4, <3>1
    <3> QED
      BY <1>5, <2>2, <3>1, <3>2, <3>3
  <2> QED
    BY <2>1, <2>2
<1>8. \A i \in 1 .. Len(r) : EndOf(q, i, o) <= Distance(w, o) /\ EndOf(q, i, o) \in Nat
  <2>1. ASSUME NEW i \in 1 .. Len(r)
        PROVE  EndOf(r, i, o) <= Distance(w, o) /\ EndOf(r, i, o) \in Nat
    BY <2>1, LaidTypes DEF Laid, EndOf
  <2> QED
    BY <1>5, <2>1
<1>9. Distance(w, o) \in Nat
  BY LaidTypes
<1>10. ASSUME NEW i \in 1 .. Len(q)
       PROVE  EndOf(q, i, o) <= Distance(v, o)
  <2>1. CASE i = Len(q)
    BY <1>1, <1>2, <1>4, <1>9, <2>1
  <2>2. CASE i # Len(q)
    <3>1. i \in 1 .. Len(r)
      BY <1>3, <2>2
    <3> QED
      BY <1>1, <1>2, <1>8, <1>9, <3>1
  <2> QED
    BY <2>1, <2>2
<1>11. ASSUME NEW i \in 1 .. Len(q), NEW j \in 1 .. Len(q), i < j
       PROVE  EndOf(q, i, o) <= Distance(q[j].at, o)
  <2>1. i \in 1 .. Len(r)
    BY <1>3, <1>11
  <2>2. CASE j = Len(q)
    BY <1>4, <1>8, <2>1, <2>2
  <2>3. CASE j # Len(q)
    <3>1. j \in 1 .. Len(r) /\ q[j] = r[j]
      BY <1>3, <2>3
    <3>2. EndOf(r, i, o) <= Distance(r[j].at, o)
      BY <1>11, <2>1, <3>1 DEF Laid
    <3> QED
      BY <1>5, <2>1, <3>1, <3>2
  <2> QED
    BY <2>2, <2>3
<1>12. Laid(q, o, v)
  BY <1>1, <1>2, <1>3, <1>6, <1>7, <1>10, <1>11 DEF Laid
<1> QED
  BY <1>2, <1>3, <1>12 DEF v

\* The oldest frame is released; the others lie as they did, from where it ended.
LEMMA LaidTail ==
  ASSUME NEW r, NEW o, NEW w, Laid(r, o, w), r # <<>>
  PROVE  /\ Laid(Tail(r), Move(o, Size[r[1].frame]), w)
         /\ Distance(w, Move(o, Size[r[1].frame])) = Distance(w, o) - Size[r[1].frame]
         /\ Len(Tail(r)) = Len(r) - 1
<1> SUFFICES ASSUME NEW q, q = Tail(r), NEW n, n = Size[r[1].frame], NEW p, p = Move(o, n)
             PROVE  /\ Laid(q, p, w)
                    /\ Distance(w, p) = Distance(w, o) - n
                    /\ Len(q) = Len(r) - 1
  OBVIOUS
<1>1. /\ r \in Seq(Stretch) /\ o \in Bytes /\ w \in Bytes /\ Len(r) \in Nat /\ 1 \in 1 .. Len(r)
      /\ r[1].at = o
  BY EmptySeq DEF Laid
<1>2. n \in Nat /\ n > 0 /\ EndOf(r, 1, o) = n
  BY <1>1, LaidTypes, SizeFacts DEF EndOf
<1>3. /\ q \in Seq(Stretch) /\ Len(q) = Len(r) - 1
      /\ \A i \in 1 .. Len(q) : q[i] = r[i + 1]
  BY <1>1, HeadTailProperties
<1>4. n <= Distance(w, o)
  BY <1>1, <1>2 DEF Laid
<1>5. p \in Bytes /\ Distance(w, p) = Distance(w, o) - n
  BY <1>1, <1>2, <1>4, DistanceShift
<1>6. ASSUME NEW i \in 1 .. Len(q)
      PROVE  /\ i + 1 \in 1 .. Len(r)
             /\ Distance(q[i].at, p) = Distance(r[i + 1].at, o) - n
             /\ EndOf(q, i, p) = EndOf(r, i + 1, o) - n
  <2>1. i + 1 \in 1 .. Len(r) /\ 1 < i + 1 /\ q[i] = r[i + 1]
    BY <1>1, <1>3
  <2>2. n <= Distance(r[i + 1].at, o)
    BY <1>1, <1>2, <2>1 DEF Laid
  <2>3. r[i + 1].at \in Bytes /\ Distance(r[i + 1].at, o) \in Int /\ Size[r[i + 1].frame] \in Int
    BY <2>1, LaidTypes, SizeFacts
  <2>4. Distance(r[i + 1].at, p) = Distance(r[i + 1].at, o) - n
    BY <1>1, <1>2, <2>2, <2>3, DistanceShift
  <2> QED
    BY <1>2, <2>1, <2>3, <2>4 DEF EndOf
<1>7. /\ Distance(w, o) \in Int
      /\ \A i \in 1 .. Len(r) : Distance(r[i].at, o) \in Int /\ EndOf(r, i, o) \in Int
  BY LaidTypes, SizeFacts DEF EndOf
<1>8. IF q = <<>> THEN w = p ELSE q[1].at = p
  <2>1. CASE q = <<>>
    <3>1. Len(r) = 1
      <4>1. Len(q) = 0
        BY <1>3, <2>1, EmptySeq
      <4> QED
        BY <1>1, <1>3, <4>1
    <3>2. Distance(w, o) = n
      <4>1. EndOf(r, 1, o) = Distance(IF 1 = Len(r) THEN w ELSE r[1 + 1].at, o)
        BY <1>1 DEF Laid
      <4> QED
        BY <1>2, <3>1, <4>1
    <3>3. Distance(w, p) = 0
      BY <1>2, <1>5, <3>2
    <3> QED
      BY <1>1, <1>5, <2>1, <3>3, DistanceZero
  <2>2. CASE q # <<>>
    <3>1. 1 \in 1 .. Len(q) /\ Len(r) > 1
      BY <1>1, <1>3, <2>2, EmptySeq
    <3>2. Distance(q[1].at, p) = Distance(r[2].at, o) - n
      BY <1>6, <3>1
    <3>3. Distance(r[2].at, o) = n
      BY <1>1, <1>2, <3>1 DEF Laid
    <3>4. Distance(q[1].at, p) = 0 /\ q[1].at \in Bytes
      <4>1. q[1] = r[2] /\ 2 \in 1 .. Len(r)
        BY <1>1, <1>3, <3>1
      <4> QED
        BY <1>2, <3>2, <3>3, <4>1, LaidTypes
    <3>5. q[1].at = p
      BY <1>5, <3>4, DistanceZero
    <3> QED
      BY <2>2, <3>5
  <2> QED
    BY <2>1, <2>2
<1>9. ASSUME NEW i \in 1 .. Len(q)
      PROVE  EndOf(q, i, p) = Distance(IF i = Len(q) THEN w ELSE q[i + 1].at, p)
  <2>1. EndOf(r, i + 1, o) = Distance(IF i + 1 = Len(r) THEN w ELSE r[i + 2].at, o)
    BY <1>6 DEF Laid
  <2>2. CASE i = Len(q)
    BY <1>1, <1>3, <1>5, <1>6, <2>1, <2>2
  <2>3. CASE i # Len(q)
    <3>1. i + 1 \in 1 .. Len(q) /\ i + 1 # Len(r)
      <4>1. PICK m \in Nat : m = Len(q) /\ Len(r) = m + 1
        <5>1. Len(q) \in Nat
          BY <1>3, LenProperties
        <5>2. Len(r) = Len(q) + 1
          BY <1>1, <1>3, <5>1
        <5> QED
          BY <5>1, <5>2, Zenon
      <4>2. i \in 1 .. m /\ i # m
        BY <2>3, <4>1
      <4>3. i + 1 \in 1 .. m /\ i + 1 # m + 1
        BY <4>2
      <4> QED
        BY <4>1, <4>3, Zenon
    <3>2. Distance(q[i + 1].at, p) = Distance(r[i + 2].at, o) - n
      BY <1>6, <3>1
    <3> QED
      BY <1>6, <2>1, <2>3, <3>1, <3>2
  <2> QED
    BY <2>2, <2>3
<1>10. ASSUME NEW i \in 1 .. Len(q), NEW j \in 1 .. Len(q), i < j
       PROVE  EndOf(q, i, p) <= Distance(q[j].at, p)
  <2>1. i + 1 \in 1 .. Len(r) /\ j + 1 \in 1 .. Len(r) /\ i + 1 < j + 1
    BY <1>6, <1>10
  <2>2. EndOf(r, i + 1, o) <= Distance(r[j + 1].at, o)
    BY <2>1 DEF Laid
  <2>3. EndOf(r, i + 1, o) \in Int /\ Distance(r[j + 1].at, o) \in Int /\ n \in Int
    <3>1. EndOf(r, i + 1, o) \in Int /\ Distance(r[j + 1].at, o) \in Int
      BY <1>7, <2>1, Zenon
    <3>2. n \in Int
      BY <1>2
    <3> QED
      BY <3>1, <3>2
  <2>4. EndOf(q, i, p) = EndOf(r, i + 1, o) - n /\ Distance(q[j].at, p) = Distance(r[j + 1].at, o) - n
    BY <1>6
  <2> QED
    BY <2>2, <2>3, <2>4
<1>11. ASSUME NEW i \in 1 .. Len(q)
       PROVE  EndOf(q, i, p) <= Distance(w, p)
  <2>1. EndOf(r, i + 1, o) <= Distance(w, o)
    BY <1>6 DEF Laid
  <2>2. EndOf(r, i + 1, o) \in Int /\ Distance(w, o) \in Int /\ n \in Int
    BY <1>2, <1>6, <1>7
  <2>3. EndOf(q, i, p) = EndOf(r, i + 1, o) - n
    BY <1>6, Zenon
  <2> QED
    BY <1>5, <2>1, <2>2, <2>3
<1>12. Laid(q, p, w)
  BY <1>1, <1>3, <1>5, <1>8, <1>9, <1>10, <1>11, Zenon DEF Laid
<1> QED
  BY <1>3, <1>5, <1>12

\* What is stored behind the frames does not reach any of them.
LEMMA LaidApart ==
  ASSUME NEW r, NEW o, NEW w, Laid(r, o, w), NEW i \in 1 .. Len(r),
         NEW n \in Nat, Distance(w, o) + n < RingSize
  PROVE  Span(r[i].at, Size[r[i].frame]) \cap Span(w, n) = {}
<1> SUFFICES ASSUME NEW k \in 0 .. Size[r[i].frame] - 1, NEW m \in 0 .. n - 1,
                    Move(r[i].at, k) = Move(w, m)
             PROVE  FALSE
  BY DEF Span
<1>1. /\ w \in Bytes /\ o \in Bytes /\ r[i].at \in Bytes /\ RingSize \in Nat
      /\ Size[r[i].frame] \in Nat /\ Distance(r[i].at, o) \in Nat /\ Distance(w, o) \in Nat
  <2>1. w \in Bytes /\ o \in Bytes
    BY DEF Laid
  <2>2. /\ r[i].at \in Bytes /\ Size[r[i].frame] \in 1 .. MaxSize
        /\ Distance(r[i].at, o) \in 0 .. RingSize - 1 /\ Distance(w, o) \in 0 .. RingSize - 1
    BY LaidTypes
  <2>3. RingSize \in Nat /\ MaxSize \in Nat
    BY SizeFacts
  <2> QED
    BY <2>1, <2>2, <2>3
<1>2. Distance(r[i].at, o) + Size[r[i].frame] <= Distance(w, o)
  BY DEF Laid, EndOf
<1>3. k \in Nat /\ m \in Nat /\ Distance(r[i].at, o) + k < RingSize /\ Distance(w, o) + m < RingSize
  BY <1>1, <1>2
<1>4. Distance(Move(r[i].at, k), o) = Distance(r[i].at, o) + k
  BY <1>1, <1>3, DistanceMove
<1>5. Distance(Move(w, m), o) = Distance(w, o) + m
  BY <1>1, <1>3, DistanceMove
<1> QED
  BY <1>1, <1>2, <1>3, <1>4, <1>5

\* Only the first frame starts at the origin.
LEMMA LaidFirst ==
  ASSUME NEW r, NEW o, NEW w, Laid(r, o, w), NEW i \in 1 .. Len(r), r[i].at = o
  PROVE  i = 1
<1>1. Len(r) \in Nat /\ 1 \in 1 .. Len(r)
  BY LaidTypes
<1>2. CASE 1 < i
  <2>1. Distance(r[1].at, o) + Size[r[1].frame] <= Distance(r[i].at, o)
    BY <1>1, <1>2 DEF Laid, EndOf
  <2>2. Distance(r[i].at, o) = 0
    BY LaidTypes
  <2> QED
    BY <1>1, <2>1, <2>2, LaidTypes, SizeFacts
<1> QED
  BY <1>1, <1>2

\* Two frames never fill two of the longest ones.
LEMMA LaidLong ==
  ASSUME NEW r, NEW o, NEW w, Laid(r, o, w), Distance(w, o) > 2 * MaxSize
  PROVE  Len(r) > 2
<1> SUFFICES ASSUME Len(r) <= 2 PROVE FALSE
  BY LaidTypes
<1>1. MaxSize \in Nat /\ Len(r) \in Nat /\ Distance(w, o) \in Nat /\ Distance(o, o) = 0
  BY LaidTypes, SizeFacts
<1>2. CASE Len(r) = 0
  <2>1. w = o
    BY <1>2, EmptySeq DEF Laid
  <2> QED
    BY <1>1, <2>1
<1>3. ASSUME Len(r) > 0
      PROVE  r[1].at = o /\ EndOf(r, 1, o) <= MaxSize /\ EndOf(r, 1, o) \in Nat
  <2>1. 1 \in 1 .. Len(r) /\ r # <<>>
    BY <1>1, <1>3
  <2>2. r[1].at = o /\ Size[r[1].frame] \in 1 .. MaxSize
    BY <2>1, LaidTypes DEF Laid
  <2> QED
    BY <1>1, <2>2 DEF EndOf
<1>4. CASE Len(r) = 1
  <2>1. EndOf(r, 1, o) = Distance(w, o)
    <3>1. 1 \in 1 .. Len(r)
      BY <1>4
    <3> QED
      BY <1>4, <3>1 DEF Laid
  <2> QED
    BY <1>1, <1>3, <1>4, <2>1
<1>5. CASE Len(r) = 2
  <2>1. /\ EndOf(r, 1, o) = Distance(r[2].at, o)
        /\ EndOf(r, 2, o) = Distance(w, o)
    <3>1. 1 \in 1 .. Len(r) /\ 2 \in 1 .. Len(r) /\ 1 # Len(r)
      BY <1>5
    <3>2. EndOf(r, 1, o) = Distance(IF 1 = Len(r) THEN w ELSE r[1 + 1].at, o)
      BY <3>1 DEF Laid
    <3>3. EndOf(r, 2, o) = Distance(IF 2 = Len(r) THEN w ELSE r[2 + 1].at, o)
      BY <3>1 DEF Laid
    <3> QED
      BY <1>5, <3>1, <3>2, <3>3
  <2>2. Size[r[2].frame] \in 1 .. MaxSize
    <3>1. 2 \in 1 .. Len(r)
      BY <1>5
    <3> QED
      BY <3>1, LaidTypes
  <2> QED
    BY <1>1, <1>3, <1>5, <2>1, <2>2 DEF EndOf
<1>6. Len(r) = 0 \/ Len(r) = 1 \/ Len(r) = 2
  <2>1. PICK m \in Nat : m = Len(r)
    BY <1>1
  <2>2. m = 0 \/ m = 1 \/ m = 2
    BY <2>1
  <2> QED
    BY <2>1, <2>2
<1> QED
  BY <1>2, <1>4, <1>5, <1>6

-----------------------------------------------------------------------------
(* The inductive invariant.                                                *)

\* The space of the stored frames, and no more than a byte beyond it, is protected.
Protected == Distance(ERXWRPT, Oldest) + FreeSpace \in {RingSize - 1, RingSize - 2}

Counted == EPKTCNT = Len(ring) + (IF hd.at = "decrement" THEN 1 ELSE 0)

\* What the driver read of the frame in hand is what the ring holds.
Reading ==
  /\ hd.at \in {"header", "data", "free"} => ring # <<>>
  /\ hd.at \in {"data", "free"} => enc_next_packet = Move(hd.start, Size[ring[1].frame])
  /\ hd.at = "free" => hd.frame = ring[1].frame

Seen == "RXERIF" \in hd.status

\* An overrun leaves three frames.  One may be on its way up when it happens, and one more
\* is taken by recive_packet before recive_packet_error is called.
Enough ==
  "RXERIF" \in flags =>
    /\ hd.at \in {"idle", "loop", "clear", "status"} => Len(ring) >= 2
    /\ hd.path = "packet" /\ hd.at \in {"header", "data", "free"} =>
         Len(ring) >= IF Seen THEN 2 ELSE 3
    /\ hd.path = "packet" /\ hd.at \in {"decrement", "deliver", "transmit"} =>
         Len(ring) >= IF Seen THEN 1 ELSE 2
    /\ hd.path = "error" /\ hd.at \in {"count", "deliver"} => Len(ring) >= 2

\* An overrun that was read stays flagged until recive_packet_error clears it, and that
\* function goes on only while there is another frame.
Paths ==
  /\ hd.path = "packet" /\ Seen
       /\ hd.at \in {"header", "data", "free", "decrement", "deliver", "transmit"}
       => "RXERIF" \in flags
  /\ hd.at = "deliver" /\ hd.path = "error" /\ hd.more => ring # <<>>
  /\ hd.at \in {"clear error", "count"} => hd.path = "error"
  /\ hd.at = "transmit" => hd.path = "packet"

Inv ==
  /\ TypeOK
  /\ Laid(ring, Oldest, ERXWRPT) /\ Protected /\ Counted
  /\ Reading /\ Enough /\ Paths

Regs == [at : Places, status : SUBSET {"PKTIF", "RXERIF", "TXIF", "TXERIF"},
         path : {"packet", "error"}, start : Bytes, frame : Frames, more : BOOLEAN]

LEMMA InvTypes ==
  ASSUME Inv
  PROVE  /\ ring \in Seq(Stretch) /\ Len(ring) \in Nat
         /\ ring # <<>> <=> Len(ring) > 0
         /\ ERXWRPT \in Bytes /\ ERXRDPT \in Bytes /\ enc_next_packet \in Bytes
         /\ EPKTCNT \in 0 .. MaxCount
         /\ flags \subseteq {"RXERIF", "TXIF", "TXERIF"} /\ edge \in BOOLEAN
         /\ hd \in Regs /\ given \in [frame : Frames, bit : BOOLEAN]
         /\ Oldest \in Bytes
         /\ EIR \subseteq {"PKTIF", "RXERIF", "TXIF", "TXERIF"}
<1>1. ring \in Seq(Stretch)
  BY DEF Inv, TypeOK, Stretch
<1>2. Len(ring) \in Nat /\ (ring # <<>> <=> Len(ring) > 0)
  BY <1>1, EmptySeq, LenProperties
<1>3. hd \in Regs /\ Oldest \in Bytes
  BY DEF Inv, TypeOK, Regs, Laid
<1> QED
  BY <1>1, <1>2, <1>3 DEF Inv, TypeOK, EIR

\* An empty ring is one without frames; a frame in it begins at the oldest byte.
LEMMA First ==
  ASSUME Inv, ring # <<>>
  PROVE  /\ 1 \in DOMAIN ring /\ 1 \in 1 .. Len(ring)
         /\ ring[1] \in Stretch /\ ring[1].frame \in Frames /\ Size[ring[1].frame] \in 1 .. MaxSize
         /\ ring[1].at = Oldest
         /\ Stored(Oldest) = {1}
<1>1. 1 \in 1 .. Len(ring) /\ DOMAIN ring = 1 .. Len(ring)
  BY InvTypes, LenProperties
<1>2. Laid(ring, Oldest, ERXWRPT)
  BY DEF Inv
<1>3. ring[1] \in Stretch /\ ring[1].frame \in Frames /\ Size[ring[1].frame] \in 1 .. MaxSize
  BY <1>1, <1>2, LaidTypes
<1>4. ring[1].at = Oldest
  BY <1>2 DEF Laid
<1>5. \A i \in 1 .. Len(ring) : ring[i].at = Oldest => i = 1
  BY <1>2, LaidFirst
<1>6. Stored(Oldest) = {1}
  BY <1>1, <1>4, <1>5 DEF Stored
<1> QED
  BY <1>1, <1>3, <1>4, <1>6

\* A step that leaves the ring and the oldest frame alone.
LEMMA RingKept ==
  ASSUME Inv, UNCHANGED <<ring, ERXWRPT, ERXRDPT>>, Oldest' = Oldest
  PROVE  Laid(ring, Oldest, ERXWRPT)' /\ Protected'
<1>1. Laid(ring', Oldest', ERXWRPT')
  BY DEF Inv
<1>2. FreeSpace' = FreeSpace
  BY DEF FreeSpace
<1>3. Protected'
  BY <1>2 DEF Inv, Protected
<1> QED
  BY <1>1, <1>3

\* Neither with a frame in hand whose space is not released, nor before its PKTDEC.
Elsewhere == hd.at \notin {"data", "free", "decrement"}

\* The handler moves to another place and leaves the ring alone.
LEMMA Moved ==
  ASSUME Inv, UNCHANGED <<ring, ERXWRPT, ERXRDPT, EPKTCNT, enc_next_packet>>,
         TypeOK', Elsewhere, Elsewhere', hd'.at = "header" => ring # <<>>, Enough', Paths'
  PROVE  Inv'
<1>2. Oldest' = Oldest
  BY DEF Oldest, Elsewhere
<1>3. Laid(ring, Oldest, ERXWRPT)' /\ Protected'
  BY <1>2, RingKept
<1>4. Counted'
  BY DEF Inv, Counted, Elsewhere
<1>5. Reading'
  BY DEF Reading, Elsewhere
<1> QED
  BY <1>3, <1>4, <1>5 DEF Inv

-----------------------------------------------------------------------------
(* The steps of the handler that do not read the ring.                     *)

LEMMA EnterKeeps ==
  ASSUME Inv, Enter
  PROVE  Inv'
<1>1. UNCHANGED <<ring, ERXWRPT, ERXRDPT, EPKTCNT, flags, enc_next_packet, given>> /\ edge' \in BOOLEAN
  BY DEF Enter, hw
<1>2. hd.at = "idle" /\ hd' = [hd EXCEPT !.at = "loop"] /\ hd \in Regs
  BY InvTypes DEF Enter, Goto
<1>3. hd' \in Regs /\ hd'.at = "loop" /\ hd'.path = hd.path /\ hd'.status = hd.status
  BY <1>2 DEF Regs, Places
<1>4. Enough' /\ Paths'
  BY <1>1, <1>2, <1>3 DEF Inv, Enough, Paths, Seen
<1>t. TypeOK'
  BY <1>1, <1>2, <1>3, <1>4, InvTypes DEF Inv, TypeOK, Regs
<1>e. Elsewhere /\ Elsewhere'
  BY <1>1, <1>2, <1>3, <1>4 DEF Elsewhere
<1> QED
  BY <1>1, <1>2, <1>3, <1>4, <1>t, <1>e, Moved

LEMMA LoopKeeps ==
  ASSUME Inv, Loop
  PROVE  Inv'
<1>1. UNCHANGED <<ring, ERXWRPT, ERXRDPT, EPKTCNT, flags, edge, enc_next_packet, given>>
  BY DEF Loop, hw
<1>2. /\ hd.at = "loop" /\ hd \in Regs
      /\ hd' = [hd EXCEPT !.at = IF EIR # {} THEN "clear" ELSE "idle", !.status = {}]
  BY InvTypes DEF Loop
<1>3. hd' \in Regs /\ hd'.at \in {"clear", "idle"} /\ hd'.path = hd.path /\ hd'.status = {}
  BY <1>2 DEF Regs, Places
<1>4. Enough' /\ Paths'
  BY <1>1, <1>2, <1>3 DEF Inv, Enough, Paths, Seen
<1>t. TypeOK'
  BY <1>1, <1>2, <1>3, <1>4, InvTypes DEF Inv, TypeOK, Regs
<1>e. Elsewhere /\ Elsewhere'
  BY <1>1, <1>2, <1>3, <1>4 DEF Elsewhere
<1> QED
  BY <1>1, <1>2, <1>3, <1>4, <1>t, <1>e, Moved

LEMMA ClearGpioKeeps ==
  ASSUME Inv, ClearGpio
  PROVE  Inv'
<1>1. UNCHANGED <<ring, ERXWRPT, ERXRDPT, EPKTCNT, flags, enc_next_packet, given>> /\ edge' \in BOOLEAN
  BY DEF ClearGpio, hw
<1>2. hd.at = "clear" /\ hd' = [hd EXCEPT !.at = "status"] /\ hd \in Regs
  BY InvTypes DEF ClearGpio, Goto
<1>3. hd' \in Regs /\ hd'.at = "status" /\ hd'.path = hd.path /\ hd'.status = hd.status
  BY <1>2 DEF Regs, Places
<1>4. Enough' /\ Paths'
  BY <1>1, <1>2, <1>3 DEF Inv, Enough, Paths, Seen
<1>t. TypeOK'
  BY <1>1, <1>2, <1>3, <1>4, InvTypes DEF Inv, TypeOK, Regs
<1>e. Elsewhere /\ Elsewhere'
  BY <1>1, <1>2, <1>3, <1>4 DEF Elsewhere
<1> QED
  BY <1>1, <1>2, <1>3, <1>4, <1>t, <1>e, Moved

\* With an overrun flagged two frames wait, so EPKTCNT is not 0 and recive_packet comes first.
LEMMA ReadStatusKeeps ==
  ASSUME Inv, ReadStatus
  PROVE  Inv'
<1>1. UNCHANGED <<ring, ERXWRPT, ERXRDPT, EPKTCNT, flags, edge, enc_next_packet, given>>
  BY DEF ReadStatus, hw
<1>2. /\ hd.at = "status" /\ hd \in Regs
      /\ hd' = [hd EXCEPT !.status = EIR, !.path = "packet",
                          !.at = IF "PKTIF" \in EIR THEN "header" ELSE "transmit"]
  BY InvTypes DEF ReadStatus
<1>3. /\ hd' \in Regs /\ hd'.path = "packet" /\ hd'.status = EIR
      /\ hd'.at = IF "PKTIF" \in EIR THEN "header" ELSE "transmit"
  <2>1. EIR \in SUBSET {"PKTIF", "RXERIF", "TXIF", "TXERIF"}
    BY InvTypes
  <2> QED
    BY <1>2, <2>1 DEF Regs, Places
<1>4. "RXERIF" \in EIR <=> "RXERIF" \in flags
  BY DEF EIR
<1>5. EPKTCNT = Len(ring)
  BY <1>2 DEF Inv, Counted
<1>6. "PKTIF" \in EIR <=> ring # <<>>
  <2>1. "PKTIF" \in EIR <=> EPKTCNT > 0
    BY InvTypes DEF EIR
  <2> QED
    BY <1>5, <2>1, InvTypes
<1>7. "RXERIF" \in flags => Len(ring) >= 2
  BY <1>2 DEF Inv, Enough
<1>8. "RXERIF" \in flags => hd'.at = "header" /\ Seen'
  BY <1>3, <1>4, <1>6, <1>7, InvTypes DEF Seen
<1>9. Enough'
  BY <1>1, <1>3, <1>7, <1>8 DEF Enough
<1>10. Paths'
  BY <1>1, <1>3, <1>4 DEF Paths, Seen
<1>t. TypeOK'
  BY <1>1, <1>2, <1>3, <1>6, <1>9, <1>10, InvTypes DEF Inv, TypeOK, Regs
<1>e. Elsewhere /\ Elsewhere'
  BY <1>1, <1>2, <1>3, <1>6, <1>9, <1>10 DEF Elsewhere
<1> QED
  BY <1>1, <1>2, <1>3, <1>6, <1>9, <1>10, <1>t, <1>e, Moved

LEMMA TransmitProcessKeeps ==
  ASSUME Inv, TransmitProcess
  PROVE  Inv'
<1>1. /\ UNCHANGED <<ring, ERXWRPT, ERXRDPT, EPKTCNT, edge, enc_next_packet, given>>
      /\ flags' = flags \ (hd.status \cap {"TXIF", "TXERIF"})
      /\ hd.at = "transmit" /\ hd \in Regs
  BY InvTypes DEF TransmitProcess
<1>2. "RXERIF" \in flags' <=> "RXERIF" \in flags
  BY <1>1
<1>3. flags' \subseteq {"RXERIF", "TXIF", "TXERIF"}
  BY <1>1, InvTypes
<1>4. CASE Seen
  <2>1. hd' = [hd EXCEPT !.at = "header", !.path = "error"]
    BY <1>4 DEF TransmitProcess, Seen
  <2>2. hd' \in Regs /\ hd'.at = "header" /\ hd'.path = "error"
    BY <1>1, <2>1 DEF Regs, Places
  <2>3. "RXERIF" \in flags /\ Len(ring) >= 1
    BY <1>1, <1>4 DEF Inv, Paths, Enough
  <2>4. ring # <<>>
    BY <2>3, InvTypes
  <2>5. Enough' /\ Paths'
    BY <2>2 DEF Enough, Paths
  <2>t. TypeOK'
    BY <1>1, <1>3, <2>2, <2>4, <2>5, InvTypes DEF Inv, TypeOK, Regs
  <2>e. Elsewhere /\ Elsewhere'
    BY <1>1, <1>3, <2>2, <2>4, <2>5 DEF Elsewhere
  <2> QED
    BY <1>1, <1>3, <2>2, <2>4, <2>5, <2>t, <2>e, Moved
<1>5. CASE ~Seen
  <2>1. hd' = [hd EXCEPT !.at = "loop"]
    BY <1>5 DEF TransmitProcess, Seen
  <2>2. hd' \in Regs /\ hd'.at = "loop" /\ hd'.path = hd.path
    BY <1>1, <2>1 DEF Regs, Places
  <2>3. "RXERIF" \in flags => Len(ring) >= 2
    BY <1>1, <1>5 DEF Inv, Paths, Enough
  <2>4. Enough' /\ Paths'
    BY <1>1, <1>2, <2>2, <2>3 DEF Enough, Paths
  <2>t. TypeOK'
    BY <1>1, <1>3, <2>2, <2>4, InvTypes DEF Inv, TypeOK, Regs
  <2>e. Elsewhere /\ Elsewhere'
    BY <1>1, <1>3, <2>2, <2>4 DEF Elsewhere
  <2> QED
    BY <1>1, <1>3, <2>2, <2>4, <2>t, <2>e, Moved
<1> QED
  BY <1>4, <1>5

LEMMA ClearErrorKeeps ==
  ASSUME Inv, ClearError
  PROVE  Inv'
<1>1. /\ UNCHANGED <<ring, ERXWRPT, ERXRDPT, EPKTCNT, edge, enc_next_packet, given>>
      /\ flags' = flags \ {"RXERIF"}
      /\ hd.at = "clear error" /\ hd \in Regs /\ hd' = [hd EXCEPT !.at = "count"]
  BY InvTypes DEF ClearError, Goto
<1>2. "RXERIF" \notin flags' /\ flags' \subseteq {"RXERIF", "TXIF", "TXERIF"}
  BY <1>1, InvTypes
<1>3. hd' \in Regs /\ hd'.at = "count" /\ hd'.path = hd.path
  BY <1>1 DEF Regs, Places
<1>4. Enough' /\ Paths'
  BY <1>1, <1>2, <1>3 DEF Inv, Enough, Paths
<1>t. TypeOK'
  BY <1>1, <1>2, <1>3, <1>4, InvTypes DEF Inv, TypeOK, Regs
<1>e. Elsewhere /\ Elsewhere'
  BY <1>1, <1>2, <1>3, <1>4 DEF Elsewhere
<1> QED
  BY <1>1, <1>2, <1>3, <1>4, <1>t, <1>e, Moved

LEMMA ReadCountKeeps ==
  ASSUME Inv, ReadCount
  PROVE  Inv'
<1>1. UNCHANGED <<ring, ERXWRPT, ERXRDPT, EPKTCNT, flags, edge, enc_next_packet, given>>
  BY DEF ReadCount, hw
<1>2. hd.at = "count" /\ hd \in Regs /\ hd' = [hd EXCEPT !.at = "deliver", !.more = EPKTCNT > 0]
  BY InvTypes DEF ReadCount
<1>3. hd' \in Regs /\ hd'.at = "deliver" /\ hd'.path = hd.path /\ (hd'.more => EPKTCNT > 0)
  <2> DEFINE m == EPKTCNT > 0
  <2>1. m \in BOOLEAN
    OBVIOUS
  <2>2. hd' = [hd EXCEPT !.at = "deliver", !.more = m]
    BY <1>2
  <2> HIDE DEF m
  <2>3. hd' \in Regs /\ hd'.at = "deliver" /\ hd'.path = hd.path /\ hd'.more = m
    BY <1>2, <2>1, <2>2 DEF Regs, Places
  <2> QED
    BY <2>3 DEF m
<1>4. EPKTCNT > 0 => ring # <<>>
  BY <1>2, InvTypes DEF Inv, Counted
<1>5. hd.path = "error"
  BY <1>2 DEF Inv, Paths
<1>6. Enough' /\ Paths'
  BY <1>1, <1>2, <1>3, <1>4, <1>5 DEF Inv, Enough, Paths
<1>t. TypeOK'
  BY <1>1, <1>2, <1>3, <1>6, InvTypes DEF Inv, TypeOK, Regs
<1>e. Elsewhere /\ Elsewhere'
  BY <1>1, <1>2, <1>3, <1>6 DEF Elsewhere
<1> QED
  BY <1>1, <1>2, <1>3, <1>6, <1>t, <1>e, Moved

LEMMA DeliverKeeps ==
  ASSUME Inv, Deliver
  PROVE  Inv'
<1>1. /\ UNCHANGED <<ring, ERXWRPT, ERXRDPT, EPKTCNT, flags, edge, enc_next_packet>>
      /\ hd.at = "deliver" /\ hd \in Regs
      /\ given' = [frame |-> hd.frame, bit |-> ~given.bit]
  BY InvTypes DEF Deliver, hw
<1>2. given' \in [frame : Frames, bit : BOOLEAN]
  BY <1>1 DEF Regs
<1>3. hd' = [hd EXCEPT !.at = IF hd.path = "error" /\ hd.more THEN "header" ELSE Returned]
  BY DEF Deliver, Goto
<1>4. /\ hd' \in Regs /\ hd'.path = hd.path /\ hd'.status = hd.status
      /\ hd'.at = IF hd.path = "error" /\ hd.more THEN "header" ELSE Returned
  BY <1>1, <1>3 DEF Regs, Places, Returned
<1>5. hd.path = "packet" \/ hd.path = "error"
  BY <1>1 DEF Regs
<1>6. CASE hd.path = "packet"
  <2>1. hd'.at = "transmit"
    BY <1>4, <1>6 DEF Returned
  <2>2. Enough' /\ Paths'
    BY <1>1, <1>4, <1>6, <2>1 DEF Inv, Enough, Paths, Seen
  <2>t. TypeOK'
    BY <1>1, <1>2, <1>4, <2>1, <2>2, InvTypes DEF Inv, TypeOK, Regs
  <2>e. Elsewhere /\ Elsewhere'
    BY <1>1, <1>2, <1>4, <2>1, <2>2 DEF Elsewhere
  <2> QED
    BY <1>1, <1>2, <1>4, <2>1, <2>2, <2>t, <2>e, Moved
<1>7. CASE hd.path = "error"
  <2>1. hd'.at = IF hd.more THEN "header" ELSE "loop"
    BY <1>4, <1>7 DEF Returned
  <2>2. hd'.at = "header" => ring # <<>>
    BY <1>1, <1>7, <2>1 DEF Inv, Paths
  <2>3. Enough' /\ Paths'
    BY <1>1, <1>4, <1>7, <2>1 DEF Inv, Enough, Paths, Seen
  <2>t. TypeOK'
    BY <1>1, <1>2, <1>4, <2>1, <2>2, <2>3, InvTypes DEF Inv, TypeOK, Regs
  <2>e. Elsewhere /\ Elsewhere'
    BY <1>1, <1>2, <1>4, <2>1, <2>2, <2>3 DEF Elsewhere
  <2> QED
    BY <1>1, <1>2, <1>4, <2>1, <2>2, <2>3, <2>t, <2>e, Moved
<1> QED
  BY <1>5, <1>6, <1>7

LEMMA TransmitKeeps ==
  ASSUME Inv, NEW outcome \in SUBSET {"TXIF", "TXERIF"}, Transmit(outcome)
  PROVE  Inv'
<1>1. /\ UNCHANGED <<ring, ERXWRPT, ERXRDPT, EPKTCNT, enc_next_packet, hd, given>>
      /\ flags' = (flags \ {"TXIF"}) \cup outcome
      /\ hd.at = "idle"
  BY DEF Transmit
<1>2. edge' \in BOOLEAN
  BY InvTypes DEF Transmit, Latched
<1>3. flags' \subseteq {"RXERIF", "TXIF", "TXERIF"} /\ ("RXERIF" \in flags' <=> "RXERIF" \in flags)
  BY <1>1, InvTypes
<1>4. Enough' /\ Paths'
  BY <1>1, <1>3 DEF Inv, Enough, Paths, Seen
<1>t. TypeOK'
  BY <1>1, <1>2, <1>3, <1>4, InvTypes DEF Inv, TypeOK, Regs
<1>e. Elsewhere /\ Elsewhere'
  BY <1>1, <1>2, <1>3, <1>4 DEF Elsewhere
<1> QED
  BY <1>1, <1>2, <1>3, <1>4, <1>t, <1>e, Moved

-----------------------------------------------------------------------------
(* The steps that read the oldest frame and release it.                    *)

LEMMA ReadHeaderKeeps ==
  ASSUME Inv, ReadHeader
  PROVE  Inv'
<1>1. /\ UNCHANGED <<ring, ERXWRPT, ERXRDPT, EPKTCNT, flags, edge, given>>
      /\ hd.at = "header" /\ hd \in Regs /\ ring # <<>> /\ Oldest = enc_next_packet
  BY InvTypes DEF ReadHeader, hw, Inv, Reading, Oldest
<1>2. Stored(enc_next_packet) = {1} /\ Size[ring[1].frame] \in 1 .. MaxSize
  BY <1>1, First
<1>3. /\ enc_next_packet' = Move(enc_next_packet, Size[ring[1].frame])
      /\ hd' = [hd EXCEPT !.at = "data", !.start = enc_next_packet]
  BY <1>2 DEF ReadHeader
<1>4. enc_next_packet' \in Bytes
  <2>1. Size[ring[1].frame] \in 0 .. RingSize
    BY <1>2, SizeFacts
  <2> QED
    BY <1>3, <2>1, InvTypes, MoveIs
<1>5. /\ hd' \in Regs /\ hd'.at = "data" /\ hd'.start = enc_next_packet
      /\ hd'.path = hd.path /\ hd'.status = hd.status
  BY <1>1, <1>3, InvTypes DEF Regs, Places
<1>6. TypeOK'
  BY <1>1, <1>4, <1>5 DEF Inv, TypeOK, Regs
<1>7. Oldest' = Oldest
  BY <1>1, <1>5 DEF Oldest
<1>8. Laid(ring, Oldest, ERXWRPT)' /\ Protected'
  BY <1>1, <1>7, RingKept
<1>9. Counted' /\ Reading'
  BY <1>1, <1>3, <1>5 DEF Inv, Counted, Reading
<1>10. Enough' /\ Paths'
  BY <1>1, <1>5 DEF Inv, Enough, Paths, Seen
<1> QED
  BY <1>6, <1>8, <1>9, <1>10 DEF Inv

LEMMA ReadDataKeeps ==
  ASSUME Inv, ReadData
  PROVE  Inv'
<1>1. /\ UNCHANGED <<ring, ERXWRPT, ERXRDPT, EPKTCNT, flags, edge, enc_next_packet, given>>
      /\ hd.at = "data" /\ hd \in Regs /\ ring # <<>> /\ Oldest = hd.start
  BY InvTypes DEF ReadData, hw, Inv, Reading, Oldest
<1>2. Stored(hd.start) = {1} /\ ring[1].frame \in Frames
  BY <1>1, First
<1>3. hd' = [hd EXCEPT !.at = "free", !.frame = ring[1].frame]
  BY <1>2 DEF ReadData
<1>4. /\ hd' \in Regs /\ hd'.at = "free" /\ hd'.start = hd.start /\ hd'.frame = ring[1].frame
      /\ hd'.path = hd.path /\ hd'.status = hd.status
  BY <1>1, <1>2, <1>3 DEF Regs, Places
<1>5. TypeOK'
  BY <1>1, <1>4 DEF Inv, TypeOK, Regs
<1>6. Oldest' = Oldest
  BY <1>1, <1>4 DEF Oldest
<1>7. Laid(ring, Oldest, ERXWRPT)' /\ Protected'
  BY <1>1, <1>6, RingKept
<1>8. Counted' /\ Reading'
  BY <1>1, <1>4 DEF Inv, Counted, Reading
<1>9. Enough' /\ Paths'
  BY <1>1, <1>4 DEF Inv, Enough, Paths, Seen
<1> QED
  BY <1>5, <1>7, <1>8, <1>9 DEF Inv

\* The frame that is released is the oldest one.
LEMMA ReleasedIs ==
  ASSUME Inv, hd.at = "free"
  PROVE  Released(hd.start) = Tail(ring)
<1>1. ring # <<>> /\ Oldest = hd.start
  BY DEF Inv, Reading, Oldest
<1>2. Stored(hd.start) = {1}
  BY <1>1, First
<1>3. Released(hd.start) = RemoveAt(ring, 1)
  BY <1>2 DEF Released
<1>4. RemoveAt(ring, 1) = SubSeq(ring, 1, 0) \o SubSeq(ring, 2, Len(ring))
  BY DEF RemoveAt
<1>5. SubSeq(ring, 1, 0) = <<>>
  BY InvTypes, SubSeqEmpty
<1>6. Tail(ring) = SubSeq(ring, 2, Len(ring))
  BY <1>1, InvTypes, TailIsSubSeq
<1>7. <<>> \o Tail(ring) = Tail(ring)
  BY <1>1, InvTypes, HeadTailProperties, ConcatEmptySeq
<1> QED
  BY <1>3, <1>4, <1>5, <1>6, <1>7, Zenon

LEMMA FreeKeeps ==
  ASSUME Inv, Free
  PROVE  Inv'
<1> DEFINE n == Size[ring[1].frame]
<1>1. /\ UNCHANGED <<ERXWRPT, EPKTCNT, flags, edge, enc_next_packet, given>>
      /\ hd.at = "free" /\ hd \in Regs /\ ring # <<>> /\ Oldest = hd.start
      /\ enc_next_packet = Move(Oldest, n)
      /\ ring' = Tail(ring) /\ hd' = [hd EXCEPT !.at = "decrement"]
  BY InvTypes, ReleasedIs DEF Free, Inv, Reading, Oldest, Goto
<1>2. ERXRDPT' = IF enc_next_packet = 0 THEN RingSize - 1 ELSE enc_next_packet - 1
  BY DEF Free
<1>3. Laid(ring, Oldest, ERXWRPT) /\ n \in 1 .. MaxSize
  BY <1>1, First DEF Inv
<1>4. /\ Laid(ring', enc_next_packet, ERXWRPT)
      /\ Distance(ERXWRPT, enc_next_packet) = Distance(ERXWRPT, Oldest) - n
      /\ Len(ring') = Len(ring) - 1
  <2>1. /\ Laid(Tail(ring), Move(Oldest, n), ERXWRPT)
        /\ Distance(ERXWRPT, Move(Oldest, n)) = Distance(ERXWRPT, Oldest) - n
        /\ Len(Tail(ring)) = Len(ring) - 1
    BY <1>1, <1>3, LaidTail
  <2> QED
    BY <1>1, <2>1
<1>5. /\ Distance(ERXWRPT, Oldest) \in 0 .. RingSize - 1
      /\ Distance(ERXWRPT, enc_next_packet) \in 0 .. RingSize - 1
  BY <1>3, <1>4, LaidTypes
<1>6. Distance(ERXWRPT, enc_next_packet) < RingSize - 1
  BY <1>3, <1>4, <1>5, SizeFacts
<1>7. /\ ERXRDPT' \in Bytes
      /\ Space(ERXRDPT', ERXWRPT) = RingSize - 2 - Distance(ERXWRPT, enc_next_packet)
  BY <1>2, <1>6, InvTypes, SpaceReleased
<1>8. /\ hd' \in Regs /\ hd'.at = "decrement" /\ hd'.path = hd.path /\ hd'.status = hd.status
  BY <1>1 DEF Regs, Places
<1>9. TypeOK'
  BY <1>1, <1>4, <1>7, <1>8 DEF Inv, TypeOK, Regs, Laid, Stretch
<1>10. Oldest' = enc_next_packet
  BY <1>1, <1>8 DEF Oldest
<1>11. Laid(ring, Oldest, ERXWRPT)'
  BY <1>1, <1>4, <1>10
<1>12. Protected'
  <2>1. FreeSpace' = RingSize - 2 - Distance(ERXWRPT, enc_next_packet)
    BY <1>1, <1>7 DEF FreeSpace, Space
  <2>2. Distance(ERXWRPT, enc_next_packet) + FreeSpace' = RingSize - 2
    BY <1>5, <2>1, SizeFacts
  <2> QED
    BY <1>1, <1>10, <2>2 DEF Protected
<1>13. Counted'
  BY <1>1, <1>4, <1>8, InvTypes DEF Inv, Counted
<1>14. Reading'
  BY <1>8 DEF Reading
<1>15. Enough'
  BY <1>1, <1>4, <1>8, InvTypes DEF Inv, Enough, Seen
<1>16. Paths'
  BY <1>1, <1>8 DEF Inv, Paths, Seen
<1> QED
  BY <1>9, <1>11, <1>12, <1>13, <1>14, <1>15, <1>16 DEF Inv

LEMMA DecrementKeeps ==
  ASSUME Inv, Decrement
  PROVE  Inv'
<1>1. /\ UNCHANGED <<ring, ERXWRPT, ERXRDPT, flags, edge, enc_next_packet, given>>
      /\ hd.at = "decrement" /\ hd \in Regs
      /\ EPKTCNT = Len(ring) + 1
  BY InvTypes DEF Decrement, Inv, Counted
<1>2. EPKTCNT' = Len(ring) /\ EPKTCNT' \in 0 .. MaxCount
  <2>1. EPKTCNT' = EPKTCNT - 1
    <3>1. EPKTCNT > 0
      BY <1>1, InvTypes
    <3> QED
      BY <3>1 DEF Decrement
  <2>2. Len(ring) \in Nat /\ EPKTCNT \in Nat /\ MaxCount \in Nat /\ EPKTCNT <= MaxCount
    BY InvTypes, SizeFacts
  <2> QED
    BY <1>1, <2>1, <2>2
<1>3. hd' = [hd EXCEPT !.at = IF hd.path = "packet" THEN "deliver" ELSE "clear error"]
  BY DEF Decrement, Goto
<1>4. /\ hd' \in Regs /\ hd'.path = hd.path /\ hd'.status = hd.status /\ hd'.path \in {"packet", "error"}
      /\ hd'.at = IF hd.path = "packet" THEN "deliver" ELSE "clear error"
  BY <1>1, <1>3 DEF Regs, Places
<1>5. TypeOK'
  BY <1>1, <1>2, <1>4 DEF Inv, TypeOK, Regs
<1>6. Oldest' = Oldest
  BY <1>1, <1>4 DEF Oldest
<1>7. Laid(ring, Oldest, ERXWRPT)' /\ Protected'
  BY <1>1, <1>6, RingKept
<1>8. Counted' /\ Reading'
  <2>1. Len(ring') = Len(ring) /\ Len(ring) + 0 = Len(ring)
    BY <1>1, InvTypes
  <2> QED
    BY <1>2, <1>4, <2>1 DEF Counted, Reading
<1>9. Enough' /\ Paths'
  BY <1>1, <1>4 DEF Inv, Enough, Paths, Seen
<1> QED
  BY <1>5, <1>7, <1>8, <1>9 DEF Inv

-----------------------------------------------------------------------------
(* A frame arrives.                                                        *)

\* A frame that is stored fits, and overwrites none of the others.
LEMMA StoredFrame ==
  ASSUME Inv, NEW f \in Frames, FreeSpace >= Size[f]
  PROVE  Distance(ERXWRPT, Oldest) + Size[f] < RingSize /\ Kept(Size[f]) = ring
<1>1. Laid(ring, Oldest, ERXWRPT) /\ Size[f] \in Nat
  BY SizeFacts DEF Inv
<1>2. Distance(ERXWRPT, Oldest) \in Nat /\ FreeSpace \in Nat
  <2>1. Space(ERXRDPT, ERXWRPT) \in Nat
    BY InvTypes, SpaceIs, SizeFacts
  <2> QED
    BY <1>1, <2>1, LaidTypes DEF FreeSpace, Space
<1>3. Distance(ERXWRPT, Oldest) + Size[f] < RingSize
  BY <1>1, <1>2, SizeFacts DEF Inv, Protected
<1>4. DOMAIN ring = 1 .. Len(ring)
  BY InvTypes, LenProperties
<1>5. ASSUME NEW i \in DOMAIN ring
      PROVE  ~Overwritten(ring[i], Size[f])
  BY <1>1, <1>3, <1>4, LaidApart DEF Overwritten
<1>6. Kept(Size[f]) = ring
  BY <1>5 DEF Kept
<1> QED
  BY <1>3, <1>6

LEMMA StoreKeeps ==
  ASSUME Inv, NEW f \in Frames, Arrive(f), FreeSpace >= Size[f] /\ EPKTCNT < MaxCount
  PROVE  Inv' /\ ring' = Append(ring, [at |-> ERXWRPT, frame |-> f])
<1>1. /\ UNCHANGED <<ERXRDPT, flags, enc_next_packet, hd, given>>
      /\ ERXWRPT' = Move(ERXWRPT, Size[f]) /\ EPKTCNT' = EPKTCNT + 1
      /\ edge' \in BOOLEAN
      /\ Oldest' = Oldest
  BY InvTypes DEF Arrive, Latched, Oldest
<1>2. ring' = Append(ring, [at |-> ERXWRPT, frame |-> f])
  BY StoredFrame DEF Arrive
<1>3. Laid(ring, Oldest, ERXWRPT) /\ Distance(ERXWRPT, Oldest) + Size[f] < RingSize
  BY StoredFrame DEF Inv
<1>4. /\ Laid(ring', Oldest, ERXWRPT')
      /\ Distance(ERXWRPT', Oldest) = Distance(ERXWRPT, Oldest) + Size[f]
      /\ Len(ring') = Len(ring) + 1
  <2>1. /\ Laid(Append(ring, [at |-> ERXWRPT, frame |-> f]), Oldest, Move(ERXWRPT, Size[f]))
        /\ Distance(Move(ERXWRPT, Size[f]), Oldest) = Distance(ERXWRPT, Oldest) + Size[f]
        /\ Len(Append(ring, [at |-> ERXWRPT, frame |-> f])) = Len(ring) + 1
    BY <1>3, LaidAppend
  <2> QED
    BY <1>1, <1>2, <2>1
<1>5. ring' # <<>> /\ (ring # <<>> => ring'[1] = ring[1])
  <2>1. ring \in Seq(Stretch) /\ [at |-> ERXWRPT, frame |-> f] \in Stretch
    BY InvTypes DEF Stretch
  <2>2. ring # <<>> => 1 \in 1 .. Len(ring)
    BY First
  <2> QED
    BY <1>2, <2>1, <2>2, AppendProperties
<1>6. ERXWRPT' \in Bytes /\ Space(ERXRDPT, ERXWRPT') = Space(ERXRDPT, ERXWRPT) - Size[f]
  <2>1. Size[f] \in Nat /\ Size[f] <= Space(ERXRDPT, ERXWRPT)
    BY SizeFacts DEF FreeSpace, Space
  <2> QED
    BY <1>1, <2>1, InvTypes, SpaceTaken
<1>7. TypeOK'
  BY <1>1, <1>4, <1>6, InvTypes, SizeFacts DEF Inv, TypeOK, Laid, Stretch
<1>8. Laid(ring, Oldest, ERXWRPT)'
  BY <1>1, <1>4
<1>9. Protected'
  <2>1. FreeSpace' = FreeSpace - Size[f]
    BY <1>1, <1>6 DEF FreeSpace, Space
  <2>2. Distance(ERXWRPT, Oldest) \in Int /\ FreeSpace \in Int /\ Size[f] \in Int
    <3>1. Space(ERXRDPT, ERXWRPT) \in Int
      BY InvTypes, SpaceIs, SizeFacts
    <3> QED
      BY <1>3, <3>1, LaidTypes, SizeFacts DEF FreeSpace, Space
  <2>3. Distance(ERXWRPT', Oldest') + FreeSpace' = Distance(ERXWRPT, Oldest) + FreeSpace
    BY <1>1, <1>4, <2>1, <2>2
  <2> QED
    BY <2>3 DEF Inv, Protected
<1>10. Counted'
  BY <1>1, <1>4, InvTypes DEF Inv, Counted
<1>11. Reading'
  BY <1>1, <1>5 DEF Inv, Reading
<1>12. Enough'
  BY <1>1, <1>4, InvTypes DEF Inv, Enough, Seen
<1>13. Paths'
  BY <1>1, <1>5 DEF Inv, Paths, Seen
<1> QED
  BY <1>2, <1>7, <1>8, <1>9, <1>10, <1>11, <1>12, <1>13 DEF Inv

\* A frame is refused only when at least three are stored, or two and the one in hand.
LEMMA DropKeeps ==
  ASSUME Inv, NEW f \in Frames, Arrive(f), ~(FreeSpace >= Size[f] /\ EPKTCNT < MaxCount)
  PROVE  Inv' /\ ring' = ring
<1>1. /\ UNCHANGED <<ring, ERXWRPT, EPKTCNT, ERXRDPT, enc_next_packet, hd, given>>
      /\ flags' = flags \cup {"RXERIF"} /\ edge' \in BOOLEAN
      /\ Oldest' = Oldest
  BY InvTypes DEF Arrive, Latched, Oldest
<1>2. Laid(ring, Oldest, ERXWRPT)' /\ Protected'
  BY <1>1, RingKept
<1>3. TypeOK' /\ Counted' /\ Reading' /\ Paths'
  BY <1>1, InvTypes DEF Inv, TypeOK, Counted, Reading, Paths, Seen
<1>4. Len(ring) >= 3 \/ (hd.at = "decrement" /\ Len(ring) >= 2)
  <2>1. CASE FreeSpace < Size[f]
    <3>1. /\ Laid(ring, Oldest, ERXWRPT)
          /\ Distance(ERXWRPT, Oldest) + FreeSpace \in {RingSize - 1, RingSize - 2}
      BY DEF Inv, Protected
    <3>2. Distance(ERXWRPT, Oldest) \in Int /\ FreeSpace \in Int
      <4>1. Space(ERXRDPT, ERXWRPT) \in Int
        BY InvTypes, SpaceIs, SizeFacts
      <4> QED
        BY <3>1, <4>1, LaidTypes, SizeFacts DEF FreeSpace, Space
    <3>3. Distance(ERXWRPT, Oldest) > 2 * MaxSize
      BY <2>1, <3>1, <3>2, SizeFacts
    <3> QED
      BY <3>1, <3>3, LaidLong, InvTypes
  <2>2. CASE EPKTCNT >= MaxCount
    BY <2>2, InvTypes, SizeFacts DEF Inv, Counted
  <2>3. FreeSpace < Size[f] \/ EPKTCNT >= MaxCount
    <3>1. FreeSpace \in Int /\ Size[f] \in Int /\ EPKTCNT \in Int /\ MaxCount \in Int
      <4>1. Space(ERXRDPT, ERXWRPT) \in Int
        BY InvTypes, SpaceIs, SizeFacts
      <4> QED
        BY <4>1, InvTypes, SizeFacts DEF FreeSpace, Space
    <3> QED
      BY <3>1
  <2> QED
    BY <2>1, <2>2, <2>3
<1>5. Enough'
  BY <1>1, <1>4, InvTypes DEF Enough, Seen
<1> QED
  BY <1>1, <1>2, <1>3, <1>5 DEF Inv

-----------------------------------------------------------------------------
(* The invariant holds.                                                    *)

LEMMA InitInv == Init => Inv
<1> SUFFICES ASSUME Init PROVE Inv
  OBVIOUS
<1>1. /\ ring = <<>> /\ ERXWRPT = 0 /\ ERXRDPT = 0 /\ EPKTCNT = 0 /\ flags = {} /\ edge = FALSE
      /\ enc_next_packet = 0 /\ 0 \in Bytes
  BY SizeFacts DEF Init, Bytes
<1>2. PICK f \in Frames :
        /\ hd = [at |-> "idle", status |-> {}, path |-> "packet", start |-> 0,
                 frame |-> f, more |-> FALSE]
        /\ given = [frame |-> f, bit |-> FALSE]
  BY DEF Init
<1>3. ring \in Seq(Stretch) /\ Len(ring) = 0
  BY <1>1, EmptySeq
<1>4. TypeOK
  <2>1. hd \in Regs
    BY <1>1, <1>2 DEF Regs, Places
  <2>2. given \in [frame : Frames, bit : BOOLEAN]
    BY <1>2
  <2>3. EPKTCNT \in 0 .. MaxCount
    BY <1>1, SizeFacts
  <2> QED
    BY <1>1, <1>3, <2>1, <2>2, <2>3 DEF TypeOK, Stretch, Regs
<1>5. Oldest = 0
  BY <1>1, <1>2 DEF Oldest
<1>6. Laid(ring, Oldest, ERXWRPT)
  BY <1>1, <1>3, <1>5 DEF Laid
<1>7. Protected
  <2>1. Distance(ERXWRPT, Oldest) = 0
    BY <1>6, LaidTypes, <1>1, <1>5
  <2>2. Space(ERXRDPT, ERXWRPT) = RingSize - 1
    <3>1. Space(ERXRDPT, ERXWRPT) = 0 - 0 - 1 + RingSize
      BY <1>1, SpaceIs
    <3> QED
      BY <3>1, SizeFacts
  <2> QED
    BY <2>1, <2>2, SizeFacts DEF Protected, FreeSpace, Space
<1>8. Counted /\ Reading /\ Enough /\ Paths
  BY <1>1, <1>2, <1>3 DEF Counted, Reading, Enough, Paths, Seen
<1> QED
  BY <1>4, <1>6, <1>7, <1>8 DEF Inv

LEMMA NextInv == Inv /\ [Next]_vars => Inv'
<1> SUFFICES ASSUME Inv, [Next]_vars PROVE Inv'
  OBVIOUS
<1>1. CASE Handler
  BY <1>1, EnterKeeps, LoopKeeps, ClearGpioKeeps, ReadStatusKeeps, TransmitProcessKeeps,
     ReadHeaderKeeps, ReadDataKeeps, FreeKeeps, DecrementKeeps, ClearErrorKeeps,
     ReadCountKeeps, DeliverKeeps DEF Handler
<1>2. ASSUME NEW f \in Frames, Arrive(f)
      PROVE  Inv'
  BY <1>2, StoreKeeps, DropKeeps
<1>3. ASSUME NEW outcome \in {{"TXIF"}, {"TXIF", "TXERIF"}}, Transmit(outcome)
      PROVE  Inv'
  BY <1>3, TransmitKeeps
<1>4. CASE UNCHANGED vars
  <2>1. UNCHANGED <<ring, ERXWRPT, ERXRDPT, EPKTCNT, flags, edge, enc_next_packet, hd, given>>
    BY <1>4 DEF vars, hw
  <2>2. TypeOK' /\ Oldest' = Oldest
    BY <2>1 DEF Inv, TypeOK, Oldest
  <2>3. Laid(ring, Oldest, ERXWRPT)' /\ Protected'
    BY <2>1, <2>2, RingKept
  <2>4. Counted' /\ Reading'
    BY <2>1 DEF Inv, Counted, Reading
  <2>5. Enough' /\ Paths'
    BY <2>1 DEF Inv, Enough, Paths, Seen
  <2> QED
    BY <2>2, <2>3, <2>4, <2>5 DEF Inv
<1> QED
  BY <1>1, <1>2, <1>3, <1>4 DEF Next

LEMMA Invariant == Spec => []Inv
BY InitInv, NextInv, PTL DEF Spec

\* Every variable of the driver and the controller keeps its range; in particular ERXRDPT and
\* enc_next_packet stay inside the ring where recive_packet wraps them.
THEOREM TypeCorrect == Spec => []TypeOK
<1>1. Inv => TypeOK
  BY DEF Inv
<1> QED
  BY <1>1, Invariant, PTL

\* A header is read only where the oldest frame starts, although recive_packet_error does not
\* look at EPKTCNT, and PKTDEC never meets a count of 0.
THEOREM HeaderAlwaysThere == Spec => []HeaderThere
<1>1. Inv => HeaderThere
  <2> SUFFICES ASSUME Inv PROVE HeaderThere
    OBVIOUS
  <2>1. hd.at = "header" => ring # <<>> /\ ring[1].at = enc_next_packet
    <3> SUFFICES ASSUME hd.at = "header" PROVE ring # <<>> /\ ring[1].at = enc_next_packet
      OBVIOUS
    <3>1. ring # <<>> /\ Oldest = enc_next_packet
      BY DEF Inv, Reading, Oldest
    <3> QED
      BY <3>1, First
  <2>2. hd.at = "decrement" => EPKTCNT > 0
    BY InvTypes DEF Inv, Counted
  <2> QED
    BY <2>1, <2>2 DEF HeaderThere
<1> QED
  BY <1>1, Invariant, PTL

\* EPKTCNT counts the frames in the ring, which lie one behind the other inside the space
\* that ERXRDPT protects: the controller never overwrites one the driver has yet to read.
THEOREM RingStaysConsistent == Spec => []RingConsistent
<1>1. Inv => RingConsistent
  <2> SUFFICES ASSUME Inv PROVE RingConsistent
    OBVIOUS
  <2>1. Laid(ring, Oldest, ERXWRPT) /\ DOMAIN ring = 1 .. Len(ring)
    BY InvTypes, LenProperties DEF Inv
  <2>2. \A a : Behind(a) = Distance(a, Oldest)
    BY DEF Behind, Distance
  <2>3. EPKTCNT = Len(ring) + (IF hd.at = "decrement" THEN 1 ELSE 0)
    BY DEF Inv, Counted
  <2>4. (IF ring = <<>> THEN ERXWRPT ELSE ring[1].at) = Oldest
    BY <2>1 DEF Laid
  <2>5. \A i \in DOMAIN ring :
          Behind(ring[i].at) + Size[ring[i].frame] =
            Behind(IF i = Len(ring) THEN ERXWRPT ELSE ring[i + 1].at)
    BY <2>1, <2>2 DEF Laid, EndOf
  <2>6. Behind(ERXWRPT) + FreeSpace \in {RingSize - 1, RingSize - 2}
    BY <2>2 DEF Inv, Protected
  <2> QED
    BY <2>3, <2>4, <2>5, <2>6 DEF RingConsistent
<1> QED
  BY <1>1, Invariant, PTL

-----------------------------------------------------------------------------
(* The ring is a FIFO.                                                     *)

LEMMA UnreadIs ==
  ASSUME NEW r \in Seq(Stretch), NEW u, u = [i \in DOMAIN r |-> r[i].frame]
  PROVE  /\ u \in Seq(Frames) /\ Len(u) = Len(r) /\ Len(r) \in Nat
         /\ \A i \in 1 .. Len(r) : u[i] = r[i].frame
<1>1. Len(r) \in Nat /\ DOMAIN r = 1 .. Len(r)
  BY LenProperties
<1>2. \A i \in 1 .. Len(r) : r[i].frame \in Frames
  <2>1. \A i \in 1 .. Len(r) : r[i] \in Stretch
    BY ElementOfSeq
  <2> QED
    BY <2>1 DEF Stretch
<1> QED
  BY <1>1, <1>2

LEMMA UnreadAppend ==
  ASSUME Inv, NEW f \in Frames, ring' = Append(ring, [at |-> ERXWRPT, frame |-> f])
  PROVE  Unread' = Append(Unread, f)
<1>1. ring \in Seq(Stretch) /\ [at |-> ERXWRPT, frame |-> f] \in Stretch
  BY InvTypes DEF Stretch
<1>2. /\ ring' \in Seq(Stretch) /\ Len(ring') = Len(ring) + 1
      /\ \A i \in 1 .. Len(ring) : ring'[i] = ring[i]
      /\ ring'[Len(ring) + 1] = [at |-> ERXWRPT, frame |-> f]
  BY <1>1, AppendProperties
<1>3. /\ Unread \in Seq(Frames) /\ Len(Unread) = Len(ring) /\ Len(ring) \in Nat
      /\ \A i \in 1 .. Len(ring) : Unread[i] = ring[i].frame
  BY <1>1, UnreadIs DEF Unread
<1>4. /\ Unread' \in Seq(Frames) /\ Len(Unread') = Len(ring')
      /\ \A i \in 1 .. Len(ring') : Unread'[i] = ring'[i].frame
  <2>1. Unread' = [i \in DOMAIN ring' |-> ring'[i].frame]
    BY DEF Unread
  <2>2. ring' \in Seq(Stretch)
    BY <1>2
  <2> QED
    BY <2>1, <2>2, UnreadIs
<1>5. /\ Append(Unread, f) \in Seq(Frames) /\ Len(Append(Unread, f)) = Len(ring) + 1
      /\ \A i \in 1 .. Len(ring) : Append(Unread, f)[i] = Unread[i]
      /\ Append(Unread, f)[Len(ring) + 1] = f
  BY <1>3, AppendProperties
<1>6. ASSUME NEW i \in 1 .. Len(Unread')
      PROVE  Unread'[i] = Append(Unread, f)[i]
  <2>1. CASE i = Len(ring) + 1
    BY <1>2, <1>4, <1>5, <2>1
  <2>2. CASE i # Len(ring) + 1
    <3>1. i \in 1 .. Len(ring)
      BY <1>2, <1>3, <1>4, <2>2
    <3> QED
      BY <1>2, <1>3, <1>4, <1>5, <3>1
  <2> QED
    BY <2>1, <2>2
<1> QED
  BY <1>2, <1>4, <1>5, <1>6, SeqEqual

LEMMA UnreadTail ==
  ASSUME Inv, ring # <<>>, ring' = Tail(ring)
  PROVE  Unread = <<ring[1].frame>> \o Unread'
<1>1. ring \in Seq(Stretch) /\ 1 \in 1 .. Len(ring)
  BY InvTypes, First
<1>2. /\ ring' \in Seq(Stretch) /\ Len(ring') = Len(ring) - 1
      /\ \A i \in 1 .. Len(ring') : ring'[i] = ring[i + 1]
  BY <1>1, HeadTailProperties
<1>3. /\ Unread \in Seq(Frames) /\ Len(Unread) = Len(ring) /\ Len(ring) \in Nat
      /\ \A i \in 1 .. Len(ring) : Unread[i] = ring[i].frame
  BY <1>1, UnreadIs DEF Unread
<1>4. /\ Unread' \in Seq(Frames) /\ Len(Unread') = Len(ring') /\ Len(ring') \in Nat
      /\ \A i \in 1 .. Len(ring') : Unread'[i] = ring'[i].frame
  BY <1>2, UnreadIs DEF Unread
<1>5. /\ <<ring[1].frame>> \in Seq(Frames) /\ Len(<<ring[1].frame>>) = 1
      /\ <<ring[1].frame>>[1] = ring[1].frame
  BY First
<1> DEFINE q == <<ring[1].frame>> \o Unread'
<1>6. /\ q \in Seq(Frames) /\ Len(q) = 1 + Len(Unread')
      /\ \A i \in 1 .. 1 + Len(Unread') :
           q[i] = IF i <= 1 THEN <<ring[1].frame>>[i] ELSE Unread'[i - 1]
  BY <1>4, <1>5, ConcatProperties
<1> HIDE DEF q
<1>7. ASSUME NEW i \in 1 .. Len(Unread)
      PROVE  Unread[i] = q[i]
  <2>1. CASE i = 1
    BY <1>1, <1>2, <1>3, <1>4, <1>5, <1>6, <2>1
  <2>2. CASE i # 1
    <3>1. i - 1 \in 1 .. Len(ring') /\ (i - 1) + 1 = i /\ i \in 1 .. 1 + Len(Unread') /\ ~(i <= 1)
      BY <1>2, <1>3, <1>4, <2>2
    <3> QED
      BY <1>2, <1>3, <1>4, <1>6, <3>1
  <2> QED
    BY <2>1, <2>2
<1>8. Len(Unread) = Len(q)
  BY <1>2, <1>3, <1>4, <1>6
<1>9. Unread = q
  BY <1>3, <1>6, <1>7, <1>8, SeqEqual
<1> QED
  BY <1>9 DEF q

\* A sequence behind another element.
LEMMA BehindOne ==
  ASSUME NEW x \in Frames, NEW u \in Seq(Frames)
  PROVE  /\ <<x>> \o u \in Seq(Frames) /\ <<x>> \o u # <<>>
         /\ Head(<<x>> \o u) = x /\ Tail(<<x>> \o u) = u
         /\ \A f \in Frames : Append(<<x>> \o u, f) = <<x>> \o Append(u, f)
<1> DEFINE q == <<x>> \o u
<1>1. <<x>> \in Seq(Frames) /\ Len(<<x>>) = 1 /\ <<x>>[1] = x /\ Len(u) \in Nat
  BY LenProperties
<1>2. /\ q \in Seq(Frames) /\ Len(q) = 1 + Len(u)
      /\ \A i \in 1 .. 1 + Len(u) : q[i] = IF i <= 1 THEN <<x>>[i] ELSE u[i - 1]
  BY <1>1, ConcatProperties
<1> HIDE DEF q
<1>3. q # <<>>
  BY <1>1, <1>2, EmptySeq
<1>4. q[1] = x
  <2>1. 1 \in 1 .. 1 + Len(u)
    BY <1>1
  <2> QED
    BY <1>1, <1>2, <2>1
<1>5. /\ Tail(q) \in Seq(Frames) /\ Len(Tail(q)) = Len(q) - 1
      /\ \A i \in 1 .. Len(Tail(q)) : Tail(q)[i] = q[i + 1]
  BY <1>2, <1>3, HeadTailProperties
<1>6. Len(Tail(q)) = Len(u)
  BY <1>1, <1>2, <1>5
<1>7. ASSUME NEW i \in 1 .. Len(u)
      PROVE  Tail(q)[i] = u[i]
  <2>1. i + 1 \in 1 .. 1 + Len(u) /\ ~(i + 1 <= 1) /\ (i + 1) - 1 = i
    BY <1>1
  <2>2. q[i + 1] = u[(i + 1) - 1]
    BY <1>2, <2>1
  <2>3. Tail(q)[i] = q[i + 1]
    BY <1>5, <1>6
  <2> QED
    BY <2>1, <2>2, <2>3
<1>8. Tail(q) = u
  BY <1>5, <1>6, <1>7, SeqEqual
<1>9. ASSUME NEW f \in Frames
      PROVE  Append(q, f) = <<x>> \o Append(u, f)
  <2>1. Append(q, f) = q \o <<f>> /\ Append(u, f) = u \o <<f>>
    BY <1>2, AppendIsConcat
  <2>2. <<f>> \in Seq(Frames)
    OBVIOUS
  <2>3. (<<x>> \o u) \o <<f>> = <<x>> \o (u \o <<f>>)
    BY <1>1, <2>2, ConcatAssociative
  <2> QED
    BY <2>1, <2>3 DEF q
<1>10. Head(q) = x
  BY <1>4
<1> QED
  BY <1>2, <1>3, <1>8, <1>9, <1>10 DEF q

LEMMA ReceivedIs ==
  ASSUME Inv
  PROVE  Unread \in Seq(Frames) /\ hd.frame \in Frames /\ Received \in Seq(Frames)
<1>1. Unread \in Seq(Frames)
  BY InvTypes, UnreadIs DEF Unread
<1>2. hd.frame \in Frames
  BY InvTypes DEF Regs
<1> QED
  BY <1>1, <1>2, BehindOne DEF Received

\* A step that keeps the ring, and the frame in hand if there is one.
LEMMA ReceivedKept ==
  ASSUME UNCHANGED <<ring, given>>, InHand' <=> InHand, InHand => hd'.frame = hd.frame
  PROVE  UNCHANGED <<Received, given>>
<1>1. Unread' = Unread
  BY DEF Unread
<1> QED
  BY <1>1 DEF Received

\* Storing a frame, and handing it up, are the steps of the FIFO; all others change nothing.
LEMMA FifoStep ==
  ASSUME Inv, [Next]_vars
  PROVE  [Fifo!Next]_<<Received, given>>
<1>0. hd \in Regs
  BY InvTypes
<1>1. ASSUME NEW f \in Frames, Arrive(f)
      PROVE  [Fifo!Next]_<<Received, given>>
  <2>1. UNCHANGED <<hd, given>>
    BY <1>1 DEF Arrive
  <2>2. CASE FreeSpace >= Size[f] /\ EPKTCNT < MaxCount
    <3>1. Unread' = Append(Unread, f)
      BY <1>1, <2>2, StoreKeeps, UnreadAppend
    <3>2. CASE InHand
      <4>1. Append(<<hd.frame>> \o Unread, f) = <<hd.frame>> \o Append(Unread, f)
        BY ReceivedIs, BehindOne
      <4>2. Received' = <<hd.frame>> \o Append(Unread, f)
        BY <2>1, <3>1, <3>2 DEF Received, InHand
      <4>3. Received = <<hd.frame>> \o Unread
        BY <3>2 DEF Received
      <4> QED
        BY <4>1, <4>2, <4>3, <2>1 DEF Fifo!Next, Fifo!Arrive
    <3>3. CASE ~InHand
      BY <2>1, <3>1, <3>3 DEF Fifo!Next, Fifo!Arrive, Received, InHand
    <3> QED
      BY <3>2, <3>3
  <2>3. CASE ~(FreeSpace >= Size[f] /\ EPKTCNT < MaxCount)
    <3>1. ring' = ring
      BY <1>1, <2>3, DropKeeps
    <3>2. UNCHANGED <<Received, given>>
      BY <2>1, <3>1, ReceivedKept DEF InHand
    <3> QED
      BY <3>2
  <2> QED
    BY <2>2, <2>3
<1>2. CASE Free
  <2>1. /\ hd.at = "free" /\ hd' = [hd EXCEPT !.at = "decrement"] /\ UNCHANGED given
        /\ ring' = Tail(ring)
    BY <1>2, ReleasedIs DEF Free, Goto
  <2>2. ring # <<>> /\ hd.frame = ring[1].frame
    BY <2>1 DEF Inv, Reading
  <2>3. Unread = <<ring[1].frame>> \o Unread'
    BY <2>1, <2>2, UnreadTail
  <2>4. hd'.at = "decrement" /\ hd'.frame = hd.frame
    BY <1>0, <2>1 DEF Regs
  <2>5. Received' = <<hd.frame>> \o Unread' /\ Received = Unread
    BY <2>1, <2>4 DEF Received, InHand
  <2>6. UNCHANGED <<Received, given>>
    BY <2>1, <2>2, <2>3, <2>5
  <2> QED
    BY <2>6
<1>3. CASE Deliver
  <2>1. hd.at = "deliver" /\ ring' = ring /\ given' = [frame |-> hd.frame, bit |-> ~given.bit]
    BY <1>3 DEF Deliver, hw
  <2>2. hd'.at \in {"header", "transmit", "loop"}
    BY <1>0, <1>3 DEF Deliver, Goto, Returned, Regs
  <2>3. Unread' = Unread
    BY <2>1 DEF Unread
  <2>4. Received = <<hd.frame>> \o Unread /\ Received' = Unread
    BY <2>1, <2>2, <2>3 DEF Received, InHand
  <2>5. Received # <<>> /\ Head(Received) = hd.frame /\ Tail(Received) = Unread
    BY <2>4, ReceivedIs, BehindOne
  <2>6. Fifo!HandUp
    BY <2>1, <2>4, <2>5 DEF Fifo!HandUp
  <2> QED
    BY <2>6 DEF Fifo!Next
<1>4. CASE Enter \/ Loop \/ ClearGpio \/ ReadStatus \/ TransmitProcess
  <2>1. UNCHANGED <<ring, given>>
    BY <1>4 DEF Enter, Loop, ClearGpio, ReadStatus, TransmitProcess, hw
  <2>2. ~InHand /\ ~InHand'
    BY <1>0, <1>4 DEF Enter, Loop, ClearGpio, ReadStatus, TransmitProcess, Goto, Regs, InHand
  <2>3. UNCHANGED <<Received, given>>
    BY <2>1, <2>2, ReceivedKept
  <2> QED
    BY <2>3
<1>5. CASE ReadHeader \/ ReadData
  <2>1. UNCHANGED <<ring, given>>
    BY <1>5 DEF ReadHeader, ReadData, hw
  <2>2. ~InHand
    BY <1>5 DEF ReadHeader, ReadData, InHand
  <2>3. ~InHand'
    <3>1. CASE ReadData
      BY <1>0, <3>1 DEF ReadData, Regs, InHand
    <3>2. CASE ReadHeader
      <4>1. \E pc \in {"data", "transmit", "loop"} :
              hd' = [hd EXCEPT !.at = pc, !.start = enc_next_packet]
        BY <3>2 DEF ReadHeader, Returned
      <4> QED
        BY <1>0, <4>1 DEF Regs, InHand
    <3> QED
      BY <1>5, <3>1, <3>2
  <2>4. UNCHANGED <<Received, given>>
    BY <2>1, <2>2, <2>3, ReceivedKept
  <2> QED
    BY <2>4
<1>6. CASE Decrement \/ ClearError \/ ReadCount
  <2>1. UNCHANGED <<ring, given>>
    BY <1>6 DEF Decrement, ClearError, ReadCount, hw
  <2>2. InHand
    BY <1>6 DEF Decrement, ClearError, ReadCount, InHand
  <2>3. InHand' /\ hd'.frame = hd.frame
    <3>1. CASE Decrement
      BY <1>0, <3>1 DEF Decrement, Goto, Regs, InHand
    <3>2. CASE ClearError
      BY <1>0, <3>2 DEF ClearError, Goto, Regs, InHand
    <3>3. CASE ReadCount
      <4>1. hd' = [hd EXCEPT !.at = "deliver", !.more = EPKTCNT > 0]
        BY <3>3 DEF ReadCount
      <4> QED
        BY <1>0, <4>1 DEF Regs, InHand
    <3> QED
      BY <1>6, <3>1, <3>2, <3>3
  <2>4. UNCHANGED <<Received, given>>
    BY <2>1, <2>2, <2>3, ReceivedKept
  <2> QED
    BY <2>4
<1>7. ASSUME NEW outcome \in {{"TXIF"}, {"TXIF", "TXERIF"}}, Transmit(outcome)
      PROVE  [Fifo!Next]_<<Received, given>>
  BY <1>7, ReceivedKept DEF Transmit, InHand
<1>8. CASE UNCHANGED vars
  BY <1>8, ReceivedKept DEF vars, hw, InHand
<1> QED
  BY <1>1, <1>2, <1>3, <1>4, <1>5, <1>6, <1>7, <1>8 DEF Next, Handler

\* Every frame the controller has stored is handed to TcpIp_RxIndication once, in the order of
\* arrival, also when recive_packet_error takes it after an overrun.
THEOREM RingImplementsFifo == Spec => ImplementsFifo
<1>1. Init => Fifo!Init
  <2> SUFFICES ASSUME Init PROVE Fifo!Init
    OBVIOUS
  <2>1. ring = <<>> /\ hd.at = "idle" /\ given \in [frame : Frames, bit : BOOLEAN]
    BY DEF Init
  <2>2. Unread = <<>>
    BY <2>1 DEF Unread
  <2> QED
    BY <2>1, <2>2 DEF Received, InHand, Fifo!Init
<1>2. Inv /\ [Next]_vars => [Fifo!Next]_<<Received, given>>
  BY FifoStep
<1> QED
  BY <1>1, <1>2, Invariant, PTL DEF Spec, ImplementsFifo, Fifo!Spec

=============================================================================
