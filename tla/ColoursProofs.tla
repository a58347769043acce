----------------------------- MODULE ColoursProofs -----------------------------
(* Proofs about Colours: the arithmetic of a blend stays in 16 bits, and a   *)
(* pixel never jumps, at no millisecond of any cycle and for any mask.       *)
EXTENDS Colours, FiniteSetTheorems, TLAPS

--------------------------------------------------------------------------------
(* One channel of a blend.                                                   *)

Channel == 0 .. 255

Sums             == {v \in Nat : v <= 65025}
Weighed(x, y, t) == (x * (255 - t)) + (y * t)
Scaled(v)        == v \div 255

(* The products and their sum fit in 16 bits, and nothing is cut off.        *)
LEMMA WeighedFits ==
    ASSUME NEW x \in Channel, NEW y \in Channel, NEW t \in Channel
    PROVE  Weighed(x, y, t) \in Sums
<1> DEFINE a == x * (255 - t)
           b == y * t
<1>1. t \in Int /\ a \in Int /\ b \in Int  BY DEF Channel
<1>2. 0 <= a /\ a <= 255 * (255 - t)  BY DEF Channel
<1>3. 0 <= b /\ b <= 255 * t  BY DEF Channel
<1>4. Weighed(x, y, t) = a + b  BY DEF Weighed
<1> HIDE DEF a, b
<1>5. a + b \in Nat /\ a + b <= 65025  BY <1>1, <1>2, <1>3
<1> QED  BY <1>4, <1>5 DEF Sums

LEMMA ScaledFits ==
    ASSUME NEW v \in Sums
    PROVE  /\ ((v % 65536) \div 255) % 256 = Scaled(v)
           /\ Scaled(v) \in Channel
<1>0. v \in Int /\ 0 <= v /\ v <= 65025  BY DEF Sums
<1>1. v % 65536 = v  BY <1>0
<1> DEFINE q == v \div 255
<1>2. v = (255 * q) + (v % 255) /\ q \in Int /\ v % 255 \in 0 .. 254  BY <1>0
<1> DEFINE r == v % 255
<1>3. v = (255 * q) + r /\ q \in Int /\ r \in 0 .. 254  BY <1>2
<1> HIDE DEF q, r
<1>4. q \in 0 .. 255  BY <1>0, <1>3
<1>5. q % 256 = q  BY <1>4
<1>6. ((v % 65536) \div 255) % 256 = q  BY <1>1, <1>5 DEF q
<1> QED  BY <1>4, <1>6 DEF q, Scaled, Channel

LEMMA LerpIsExact ==
    ASSUME NEW x \in Channel, NEW y \in Channel, NEW t \in Channel
    PROVE  /\ Weighed(x, y, t) \in Sums
           /\ Lerp(x, y, t) = Scaled(Weighed(x, y, t))
           /\ Lerp(x, y, t) \in Channel
<1> DEFINE v == Weighed(x, y, t)
<1>1. v \in Sums  BY WeighedFits
<1>2. Lerp(x, y, t) = ((v % 65536) \div 255) % 256  BY DEF Lerp, Weighed
<1> HIDE DEF v
<1>3. Lerp(x, y, t) = Scaled(v) /\ Scaled(v) \in Channel  BY <1>1, <1>2, ScaledFits
<1> QED  BY <1>1, <1>3 DEF v

(* A blend starts at the first colour.                                       *)
LEMMA LerpStart ==
    ASSUME NEW x \in Channel, NEW y \in Channel, NEW t \in Channel, t = 0
    PROVE  Lerp(x, y, t) = x
<1>1. Lerp(x, y, t) = Scaled(Weighed(x, y, t))  BY LerpIsExact
<1>2. Weighed(x, y, t) = 255 * x  BY DEF Channel, Weighed
<1>3. (255 * x) \div 255 = x  BY DEF Channel
<1> QED  BY <1>1, <1>2, <1>3 DEF Scaled

(* And ends within 1 of the second.                                          *)
LEMMA LerpEnd ==
    ASSUME NEW x \in Channel, NEW y \in Channel, NEW t \in Channel, t = 254
    PROVE  y - Lerp(x, y, t) \in -1 .. 1
<1>1. Lerp(x, y, t) = Scaled(Weighed(x, y, t))  BY LerpIsExact
<1>2. Weighed(x, y, t) = x + (254 * y)  BY DEF Channel, Weighed
<1>3. y - ((x + (254 * y)) \div 255) \in -1 .. 1  BY DEF Channel
<1> QED  BY <1>1, <1>2, <1>3 DEF Scaled

(* One step of a blend changes the channel by at most 1.                     *)
LEMMA LerpStep ==
    ASSUME NEW x \in Channel, NEW y \in Channel,
           NEW t \in Channel, NEW u \in Channel, u - t \in 0 .. 1
    PROVE  Lerp(x, y, u) - Lerp(x, y, t) \in -1 .. 1
<1> DEFINE v == Weighed(x, y, t)
           w == Weighed(x, y, u)
<1>1. v \in Sums /\ Lerp(x, y, t) = Scaled(v)  BY LerpIsExact
<1>2. w \in Sums /\ Lerp(x, y, u) = Scaled(w)  BY LerpIsExact
<1>3. w - v \in -255 .. 255
  <2>1. u = t \/ u = t + 1  BY DEF Channel
  <2>2. CASE u = t
    <3>1. w = v  BY <2>2
    <3> HIDE DEF v, w
    <3> QED  BY <3>1, <1>1 DEF Sums
  <2>3. CASE u = t + 1
    <3>1. w = v + (y - x)  BY <2>3 DEF Channel, Weighed
    <3> HIDE DEF v, w
    <3> QED  BY <3>1, <1>1 DEF Channel, Sums
  <2> QED  BY <2>1, <2>2, <2>3
<1> HIDE DEF v, w
<1>4. v \in Int /\ w \in Int  BY <1>1, <1>2 DEF Sums
<1>5. (w \div 255) - (v \div 255) \in -1 .. 1
  <2>1. w - v <= 255 /\ -255 <= w - v  BY <1>3, <1>4
  <2> QED  BY <2>1, <1>4
<1> QED  BY <1>1, <1>2, <1>5 DEF Scaled

(* How far a fade has come, at each of its 499 milliseconds.                 *)
LEMMA FadeBounds ==
    ASSUME NEW s \in Nat, s > 1000, s <= 1499
    PROVE  /\ FadeT(s) \in Channel
           /\ s = 1001 => FadeT(s) = 0
           /\ s = 1499 => FadeT(s) = 254
<1> DEFINE f == ((s + 500 - 1500) * 255) \div 500
<1>1. f \in Int /\ 0 <= f /\ f <= 254 /\ (s = 1001 => f = 0) /\ (s = 1499 => f = 254)  OBVIOUS
<1>2. FadeT(s) = f % 256  BY DEF FadeT, FadeMs, SlotMs
<1> HIDE DEF f
<1>3. f % 256 = f  BY <1>1
<1> QED  BY <1>1, <1>2, <1>3 DEF Channel

LEMMA FadeSteps ==
    ASSUME NEW s \in Nat, s > 1000, s < 1499
    PROVE  FadeT(s + 1) - FadeT(s) \in 0 .. 1
<1> DEFINE f == ((s + 500 - 1500) * 255) \div 500
           g == (((s + 1) + 500 - 1500) * 255) \div 500
<1>1. f \in Int /\ 0 <= f /\ f <= 254 /\ g \in Int /\ 0 <= g /\ g <= 254 /\ g - f \in 0 .. 1  OBVIOUS
<1>2. FadeT(s) = f % 256 /\ FadeT(s + 1) = g % 256  BY DEF FadeT, FadeMs, SlotMs
<1> HIDE DEF f, g
<1>3. f % 256 = f /\ g % 256 = g  BY <1>1
<1> QED  BY <1>1, <1>2, <1>3

--------------------------------------------------------------------------------
(* Colours.                                                                  *)

Near(c, d) == \A i \in 1 .. 3 : d[i] - c[i] \in -1 .. 1

Triple(x, y, z) == [i \in 1 .. 3 |-> IF i = 1 THEN x ELSE IF i = 2 THEN y ELSE z]

LEMMA ColorForIsRgb == \A b : ColorFor(b) \in Rgb
<1>2. Black \in Rgb  BY DEF Black, Rgb
<1> SUFFICES ASSUME NEW b PROVE ColorFor(b) \in Rgb
    OBVIOUS
<1>3. CASE col = "ByType" /\ b \in 0 .. 7
  <2>1. ColorFor(b) = ColorForType[b + 1]  BY <1>3 DEF ColorFor
  <2>2. \A i \in 1 .. 8 : ColorForType[i] \in Rgb
    <3>1. ColorForType[1] \in Rgb
      <4>1. ColorForType[1] = Triple(10, 10, 10)  BY DEF ColorForType, Triple
      <4>2. Triple(10, 10, 10) \in Rgb  BY DEF Triple, Rgb
      <4> QED  BY <4>1, <4>2
    <3>2. ColorForType[2] \in Rgb
      <4>1. ColorForType[2] = Triple(255, 80, 0)  BY DEF ColorForType, Triple
      <4>2. Triple(255, 80, 0) \in Rgb  BY DEF Triple, Rgb
      <4> QED  BY <4>1, <4>2
    <3>3. ColorForType[3] \in Rgb
      <4>1. ColorForType[3] = Triple(0, 200, 255)  BY DEF ColorForType, Triple
      <4>2. Triple(0, 200, 255) \in Rgb  BY DEF Triple, Rgb
      <4> QED  BY <4>1, <4>2
    <3>4. ColorForType[4] \in Rgb
      <4>1. ColorForType[4] = Triple(255, 0, 200)  BY DEF ColorForType, Triple
      <4>2. Triple(255, 0, 200) \in Rgb  BY DEF Triple, Rgb
      <4> QED  BY <4>1, <4>2
    <3>5. ColorForType[5] \in Rgb
      <4>1. ColorForType[5] = Triple(255, 220, 0)  BY DEF ColorForType, Triple
      <4>2. Triple(255, 220, 0) \in Rgb  BY DEF Triple, Rgb
      <4> QED  BY <4>1, <4>2
    <3>6. ColorForType[6] \in Rgb
      <4>1. ColorForType[6] = Triple(0, 255, 80)  BY DEF ColorForType, Triple
      <4>2. Triple(0, 255, 80) \in Rgb  BY DEF Triple, Rgb
      <4> QED  BY <4>1, <4>2
    <3>7. ColorForType[7] \in Rgb
      <4>1. ColorForType[7] = Triple(80, 80, 255)  BY DEF ColorForType, Triple
      <4>2. Triple(80, 80, 255) \in Rgb  BY DEF Triple, Rgb
      <4> QED  BY <4>1, <4>2
    <3>8. ColorForType[8] \in Rgb
      <4>1. ColorForType[8] = Triple(255, 255, 255)  BY DEF ColorForType, Triple
      <4>2. Triple(255, 255, 255) \in Rgb  BY DEF Triple, Rgb
      <4> QED  BY <4>1, <4>2
    <3> QED  BY <3>1, <3>2, <3>3, <3>4, <3>5, <3>6, <3>7, <3>8
  <2>3. ColorForType[b + 1] \in Rgb  BY <2>2, <1>3
  <2> QED  BY <2>1, <2>3
<1>4. CASE col = "ByService" /\ b \in 0 .. 3
  <2>1. ColorFor(b) = ColorForService[b + 1]  BY <1>4 DEF ColorFor
  <2>2. \A i \in 1 .. 4 : ColorForService[i] \in Rgb
    <3>1. ColorForService[1] \in Rgb
      <4>1. ColorForService[1] = Triple(10, 10, 10)  BY DEF ColorForService, Triple
      <4>2. Triple(10, 10, 10) \in Rgb  BY DEF Triple, Rgb
      <4> QED  BY <4>1, <4>2
    <3>2. ColorForService[2] \in Rgb
      <4>1. ColorForService[2] = Triple(0, 200, 255)  BY DEF ColorForService, Triple
      <4>2. Triple(0, 200, 255) \in Rgb  BY DEF Triple, Rgb
      <4> QED  BY <4>1, <4>2
    <3>3. ColorForService[3] \in Rgb
      <4>1. ColorForService[3] = Triple(255, 220, 0)  BY DEF ColorForService, Triple
      <4>2. Triple(255, 220, 0) \in Rgb  BY DEF Triple, Rgb
      <4> QED  BY <4>1, <4>2
    <3>4. ColorForService[4] \in Rgb
      <4>1. ColorForService[4] = Triple(255, 40, 40)  BY DEF ColorForService, Triple
      <4>2. Triple(255, 40, 40) \in Rgb  BY DEF Triple, Rgb
      <4> QED  BY <4>1, <4>2
    <3> QED  BY <3>1, <3>2, <3>3, <3>4
  <2>3. ColorForService[b + 1] \in Rgb  BY <2>2, <1>4
  <2> QED  BY <2>1, <2>3
<1>5. CASE ~(col = "ByType" /\ b \in 0 .. 7) /\ ~(col = "ByService" /\ b \in 0 .. 3)
    BY <1>2, <1>5 DEF ColorFor
<1> QED  BY <1>3, <1>4, <1>5

LEMMA TurnOfIsRgb == \A slot : TurnOf(slot) \in Rgb
<1>1. Black \in Rgb  BY DEF Black, Rgb
<1>2. \A c \in Rgb : Dim(c) \in Rgb
  <2>1. \A k \in 0 .. 255 : k \div 6 \in 0 .. 255  OBVIOUS
  <2> QED  BY <2>1 DEF Dim, DimDiv, Rgb
<1>3. \A active : PixelColor(active) \in Rgb
    BY <1>1, <1>2, ColorForIsRgb DEF PixelColor
<1> QED  BY <1>3, ColorForIsRgb DEF TurnOf

LEMMA TurnsInRange ==
    ASSUME bits \in SUBSET Bits
    PROVE  Turns \in 0 .. 8
<1>1. IsFiniteSet(Bits) /\ Cardinality(Bits) = 8
  <2>1. 0 \in Int /\ 7 \in Int  OBVIOUS
  <2>2. IsFiniteSet(0 .. 7) /\ Cardinality(0 .. 7) = IF 0 > 7 THEN 0 ELSE 7 - 0 + 1
      BY <2>1, FS_Interval, Zenon
  <2>3. (IF 0 > 7 THEN 0 ELSE 7 - 0 + 1) = 8  OBVIOUS
  <2> QED  BY <2>2, <2>3 DEF Bits
<1>2. Cardinality(bits) \in 0 .. 8
  <2>1. IsFiniteSet(bits) /\ Cardinality(bits) <= Cardinality(Bits)  BY <1>1, FS_Subset
  <2>2. Cardinality(bits) \in Nat  BY <2>1, FS_CardinalityType
  <2> QED  BY <1>1, <2>1, <2>2
<1>3. ActiveLen \in 0 .. 8  BY DEF ActiveLen
<1> QED  BY <1>2, <1>3 DEF Turns

LEMMA LerpIsChannel == \A x, y, t \in Channel : Lerp(x, y, t) \in Channel
BY LerpIsExact

LEMMA BlendIsRgb ==
    ASSUME NEW a \in Rgb, NEW b \in Rgb, NEW t \in Channel
    PROVE  Blend(a, b, t) \in Rgb
<1>1. \A i \in 1 .. 3 : a[i] \in Channel /\ b[i] \in Channel  BY DEF Rgb, Channel
<1>2. \A i \in 1 .. 3 : Lerp(a[i], b[i], t) \in Channel
  <2> TAKE i \in 1 .. 3
  <2>1. a[i] \in Channel /\ b[i] \in Channel  BY <1>1
  <2> QED  BY <2>1, LerpIsChannel
<1> QED  BY <1>2 DEF Blend, Rgb, Channel

(* A number below the modulus is its own remainder.                          *)
LEMMA SmallRemainder ==
    ASSUME NEW n \in 1 .. 8
    PROVE  /\ \A m \in Nat : m < n * 1500 => m % (n * 1500) = m
           /\ (n * 1500) % (n * 1500) = 0
           /\ \A k \in Nat : k < n => k % n = k
           /\ n % n = 0
<1>1. n = 1 \/ n = 2 \/ n = 3 \/ n = 4 \/ n = 5 \/ n = 6 \/ n = 7 \/ n = 8  OBVIOUS
<1>2. CASE n = 1
  <2>1. n * 1500 = 1500  BY <1>2
  <2>2. (\A m \in Nat : m < 1500 => m % 1500 = m) /\ 1500 % 1500 = 0  OBVIOUS
  <2>3. (\A k \in Nat : k < 1 => k % 1 = k) /\ 1 % 1 = 0  OBVIOUS
  <2> QED  BY <1>2, <2>1, <2>2, <2>3
<1>3. CASE n = 2
  <2>1. n * 1500 = 3000  BY <1>3
  <2>2. (\A m \in Nat : m < 3000 => m % 3000 = m) /\ 3000 % 3000 = 0  OBVIOUS
  <2>3. (\A k \in Nat : k < 2 => k % 2 = k) /\ 2 % 2 = 0  OBVIOUS
  <2> QED  BY <1>3, <2>1, <2>2, <2>3
<1>4. CASE n = 3
  <2>1. n * 1500 = 4500  BY <1>4
  <2>2. (\A m \in Nat : m < 4500 => m % 4500 = m) /\ 4500 % 4500 = 0  OBVIOUS
  <2>3. (\A k \in Nat : k < 3 => k % 3 = k) /\ 3 % 3 = 0  OBVIOUS
  <2> QED  BY <1>4, <2>1, <2>2, <2>3
<1>5. CASE n = 4
  <2>1. n * 1500 = 6000  BY <1>5
  <2>2. (\A m \in Nat : m < 6000 => m % 6000 = m) /\ 6000 % 6000 = 0  OBVIOUS
  <2>3. (\A k \in Nat : k < 4 => k % 4 = k) /\ 4 % 4 = 0  OBVIOUS
  <2> QED  BY <1>5, <2>1, <2>2, <2>3
<1>6. CASE n = 5
  <2>1. n * 1500 = 7500  BY <1>6
  <2>2. (\A m \in Nat : m < 7500 => m % 7500 = m) /\ 7500 % 7500 = 0  OBVIOUS
  <2>3. (\A k \in Nat : k < 5 => k % 5 = k) /\ 5 % 5 = 0  OBVIOUS
  <2> QED  BY <1>6, <2>1, <2>2, <2>3
<1>7. CASE n = 6
  <2>1. n * 1500 = 9000  BY <1>7
  <2>2. (\A m \in Nat : m < 9000 => m % 9000 = m) /\ 9000 % 9000 = 0  OBVIOUS
  <2>3. (\A k \in Nat : k < 6 => k % 6 = k) /\ 6 % 6 = 0  OBVIOUS
  <2> QED  BY <1>7, <2>1, <2>2, <2>3
<1>8. CASE n = 7
  <2>1. n * 1500 = 10500  BY <1>8
  <2>2. (\A m \in Nat : m < 10500 => m % 10500 = m) /\ 10500 % 10500 = 0  OBVIOUS
  <2>3. (\A k \in Nat : k < 7 => k % 7 = k) /\ 7 % 7 = 0  OBVIOUS
  <2> QED  BY <1>8, <2>1, <2>2, <2>3
<1>9. CASE n = 8
  <2>1. n * 1500 = 12000  BY <1>9
  <2>2. (\A m \in Nat : m < 12000 => m % 12000 = m) /\ 12000 % 12000 = 0  OBVIOUS
  <2>3. (\A k \in Nat : k < 8 => k % 8 = k) /\ 8 % 8 = 0  OBVIOUS
  <2> QED  BY <1>9, <2>1, <2>2, <2>3
<1> QED  BY <1>1, <1>2, <1>3, <1>4, <1>5, <1>6, <1>7, <1>8, <1>9

Phases(n) == 0 .. n * SlotMs - 1
Places    == 0 .. 1499

(* The slot and the place in it, and what a millisecond more makes of them.  *)
LEMMA SlotsOfPhase ==
    ASSUME NEW n \in 1 .. 8, NEW p \in Phases(n)
    PROVE  /\ p \div SlotMs \in 0 .. n - 1
           /\ p % SlotMs \in Places
           /\ p % SlotMs < 1499 =>
                 /\ (p + 1) % (n * SlotMs) = p + 1
                 /\ (p + 1) \div SlotMs = p \div SlotMs
                 /\ (p + 1) % SlotMs = (p % SlotMs) + 1
           /\ p % SlotMs = 1499 =>
                 /\ ((p + 1) % (n * SlotMs)) \div SlotMs = ((p \div SlotMs) + 1) % n
                 /\ ((p + 1) % (n * SlotMs)) % SlotMs = 0
           /\ (p + 1) % (n * SlotMs) \in Phases(n)
<1> DEFINE q == p \div 1500
           r == p % 1500
<1>2. /\ p = 1500 * q + r /\ q \in 0 .. 7 /\ r \in 0 .. 1499
      /\ r < 1499 => (p + 1) \div 1500 = q /\ (p + 1) % 1500 = r + 1
      /\ r = 1499 => (p + 1) \div 1500 = q + 1 /\ (p + 1) % 1500 = 0
  <2>1. p \in 0 .. 11999  BY DEF SlotMs, Phases
  <2>2. p = (1500 * q) + r /\ q \in Int /\ r \in 0 .. 1499  BY <2>1
  <2>3. /\ r < 1499 => (p + 1) \div 1500 = q /\ (p + 1) % 1500 = r + 1
        /\ r = 1499 => (p + 1) \div 1500 = q + 1 /\ (p + 1) % 1500 = 0
      BY <2>1
  <2> HIDE DEF q, r
  <2>4. q \in 0 .. 7  BY <2>1, <2>2
  <2> QED  BY <2>2, <2>3, <2>4
<1> HIDE DEF q, r
<1>3. p \in Nat /\ p < n * 1500  BY DEF SlotMs, Phases
<1>4. q \in 0 .. n - 1  BY <1>2, <1>3
<1>5. r < 1499 => p + 1 < n * 1500  BY <1>2, <1>4
<1>6. r = 1499 => p + 1 = 1500 * (q + 1)  BY <1>2
<1>7. (p + 1 < n * 1500 => (p + 1) % (n * 1500) = p + 1) /\ (p + 1 = n * 1500 => (p + 1) % (n * 1500) = 0)
  <2>1. p + 1 \in Nat  BY <1>3
  <2> QED  BY <2>1, SmallRemainder
<1>8. (q + 1 < n => (q + 1) % n = q + 1) /\ (q + 1 = n => (q + 1) % n = 0)
  <2>1. q + 1 \in Nat  BY <1>2
  <2> QED  BY <2>1, SmallRemainder
<1>9. p + 1 < n * 1500 \/ p + 1 = n * 1500  BY <1>3
<1>10. r = 1499 => /\ ((p + 1) % (n * 1500)) \div 1500 = (q + 1) % n
                   /\ ((p + 1) % (n * 1500)) % 1500 = 0
  <2> HAVE r = 1499
  <2>1. CASE p + 1 = n * 1500
    <3>1. q + 1 = n  BY <2>1, <1>4, <1>6
    <3>2. 0 \div 1500 = 0 /\ 0 % 1500 = 0  OBVIOUS
    <3> QED  BY <2>1, <3>1, <3>2, <1>7, <1>8
  <2>2. CASE p + 1 < n * 1500
    <3>1. q + 1 < n  BY <2>2, <1>4, <1>6
    <3> QED  BY <2>2, <3>1, <1>2, <1>7, <1>8
  <2> QED  BY <2>1, <2>2, <1>9
<1>11. r < 1499 => /\ (p + 1) % (n * 1500) = p + 1
                   /\ (p + 1) \div 1500 = q
                   /\ (p + 1) % 1500 = r + 1
    BY <1>2, <1>5, <1>7
<1>12. (p + 1) % (n * 1500) \in 0 .. n * 1500 - 1
    BY <1>3, <1>7, <1>9
<1> QED  BY <1>2, <1>4, <1>10, <1>11, <1>12 DEF q, r, SlotMs, Phases, Places

LEMMA NearSelf ==
    ASSUME NEW a \in Rgb
    PROVE  Near(a, a)
BY DEF Near, Rgb

(* The beginning, a step and the end of a fade from a to b.                  *)
LEMMA FadeIsSmooth ==
    ASSUME NEW a \in Rgb, NEW b \in Rgb, NEW t \in Channel, NEW u \in Channel
    PROVE  /\ t = 0 => Near(a, Blend(a, b, t))
           /\ u - t \in 0 .. 1 => Near(Blend(a, b, t), Blend(a, b, u))
           /\ t = 254 => Near(Blend(a, b, t), b)
<1> SUFFICES ASSUME NEW i \in 1 .. 3
             PROVE  /\ t = 0 => Blend(a, b, t)[i] - a[i] \in -1 .. 1
                    /\ u - t \in 0 .. 1 => Blend(a, b, u)[i] - Blend(a, b, t)[i] \in -1 .. 1
                    /\ t = 254 => b[i] - Blend(a, b, t)[i] \in -1 .. 1
    BY DEF Near
<1> DEFINE x == a[i]
           y == b[i]
<1>1. x \in Channel /\ y \in Channel  BY DEF Rgb, Channel
<1>2. Blend(a, b, t)[i] = Lerp(x, y, t) /\ Blend(a, b, u)[i] = Lerp(x, y, u)  BY DEF Blend
<1> HIDE DEF x, y
<1>3. t = 0 => Lerp(x, y, t) - x \in -1 .. 1
  <2>1. t = 0 => Lerp(x, y, t) = x  BY <1>1, LerpStart
  <2> QED  BY <1>1, <2>1 DEF Channel
<1>4. u - t \in 0 .. 1 => Lerp(x, y, u) - Lerp(x, y, t) \in -1 .. 1  BY <1>1, LerpStep
<1>5. t = 254 => y - Lerp(x, y, t) \in -1 .. 1  BY <1>1, LerpEnd
<1> QED  BY <1>2, <1>3, <1>4, <1>5 DEF x, y

--------------------------------------------------------------------------------
(* A frame and the frame a millisecond later.                                *)

PlainOrBlend(p) ==
    /\ p % SlotMs <= 1000 => Drawn(p) = TurnOf(p \div SlotMs)
    /\ p % SlotMs > 1000 =>
          Drawn(p) = Blend(TurnOf(p \div SlotMs), TurnOf(((p \div SlotMs) + 1) % Turns), FadeT(p % SlotMs))

LEMMA DrawnAt ==
    ASSUME NEW p \in Nat
    PROVE  PlainOrBlend(p)
<1> DEFINE s == p % SlotMs
<1>1. s \in Int  BY DEF SlotMs
<1>2. Drawn(p) = IF s + FadeMs <= SlotMs THEN TurnOf(p \div SlotMs)
                 ELSE Blend(TurnOf(p \div SlotMs), TurnOf(((p \div SlotMs) + 1) % Turns), FadeT(s))
    BY DEF Drawn
<1> HIDE DEF s
<1>3. s + FadeMs <= SlotMs <=> s <= 1000  BY <1>1 DEF FadeMs, SlotMs
<1>4. s > 1000 <=> ~(s <= 1000)  BY <1>1
<1> QED  BY <1>2, <1>3, <1>4 DEF s, PlainOrBlend

LEMMA CycleOfTurns ==
    ASSUME bits \in SUBSET Bits
    PROVE  /\ Turns \in 0 .. 8
           /\ Turns = 0 => Cycle = 1
           /\ Turns # 0 => Turns \in 1 .. 8 /\ Cycle = Turns * SlotMs
           /\ Cycle \in Nat \ {0}
BY TurnsInRange DEF Cycle, SlotMs

LEMMA ColourIsRgb ==
    ASSUME bits \in SUBSET Bits, NEW p \in 0 .. Cycle - 1
    PROVE  Colour(p) \in Rgb
<1>1. CASE Turns = 0
  <2>1. Black \in Rgb  BY DEF Black, Rgb
  <2> QED  BY <1>1, <2>1 DEF Colour
<1>2. CASE Turns = 1
    BY <1>2, TurnOfIsRgb DEF Colour
<1>3. CASE Turns \in 2 .. 8
  <2>1. Colour(p) = Drawn(p)  BY <1>3 DEF Colour
  <2>2. p \in Nat /\ p \in Phases(Turns)  BY <1>3, CycleOfTurns DEF Phases
  <2>3. p % SlotMs \in Nat /\ p % SlotMs <= 1499
    <3>1. Turns \in 1 .. 8  BY <1>3
    <3>2. p % SlotMs \in Places  BY <2>2, <3>1, SlotsOfPhase
    <3> QED  BY <3>2 DEF Places
  <2>4. CASE p % SlotMs <= 1000
      BY <2>1, <2>2, <2>4, DrawnAt, TurnOfIsRgb DEF PlainOrBlend
  <2>5. CASE p % SlotMs > 1000
    <3>2. FadeT(p % SlotMs) \in Channel  BY <2>3, <2>5, FadeBounds
    <3>3. Drawn(p) = Blend(TurnOf(p \div SlotMs), TurnOf(((p \div SlotMs) + 1) % Turns), FadeT(p % SlotMs))
        BY <2>2, <2>5, DrawnAt DEF PlainOrBlend
    <3> QED  BY <2>1, <3>2, <3>3, TurnOfIsRgb, BlendIsRgb
  <2> QED  BY <2>3, <2>4, <2>5
<1> QED  BY <1>1, <1>2, <1>3, TurnsInRange

LEMMA ColourIsSmooth ==
    ASSUME bits \in SUBSET Bits, NEW p \in 0 .. Cycle - 1
    PROVE  /\ Phase(p + 1) \in 0 .. Cycle - 1
           /\ Near(Colour(p), Colour(Phase(p + 1)))
<1>1. CASE Turns = 0
  <2>1. Phase(p + 1) = 0 /\ Phase(p + 1) \in 0 .. Cycle - 1
    <3>1. Cycle = 1 /\ p = 0  BY <1>1, CycleOfTurns
    <3> QED  BY <3>1 DEF Phase
  <2>2. Colour(p) = Black /\ Colour(Phase(p + 1)) = Black  BY <1>1 DEF Colour
  <2>3. Black \in Rgb  BY DEF Black, Rgb
  <2> QED  BY <2>1, <2>2, <2>3, NearSelf
<1>2. CASE Turns \in 1 .. 8
  <2> DEFINE n == Turns
             q == p \div SlotMs
             s == p % SlotMs
             p2 == Phase(p + 1)
  <2>1. n \in 1 .. 8 /\ Cycle = n * SlotMs /\ p \in Phases(n) /\ p \in Nat
      BY <1>2, CycleOfTurns DEF Phases
  <2>2. /\ q \in 0 .. n - 1 /\ s \in Nat /\ s <= 1499
        /\ p2 = (p + 1) % (n * SlotMs)
        /\ p2 \in 0 .. Cycle - 1 /\ p2 \in Nat
    <3>1. (p + 1) % (n * SlotMs) \in Phases(n) /\ q \in 0 .. n - 1 /\ s \in Places
        BY <2>1, SlotsOfPhase
    <3>2. s \in Nat /\ s <= 1499  BY <3>1 DEF Places
    <3>3. p2 = (p + 1) % (n * SlotMs)  BY <2>1 DEF Phase
    <3>4. p2 \in Phases(n)  BY <3>1, <3>3
    <3>5. p2 \in 0 .. Cycle - 1  BY <2>1, <3>4 DEF Phases
    <3>6. p2 \in Nat  BY <2>1, <3>4 DEF Phases
    <3> QED  BY <3>1, <3>2, <3>3, <3>5, <3>6
  <2>3. s < 1499 => p2 \div SlotMs = q /\ p2 % SlotMs = s + 1
      BY <2>1, <2>2, SlotsOfPhase
  <2>4. s = 1499 => p2 \div SlotMs = (q + 1) % n /\ p2 % SlotMs = 0
      BY <2>1, <2>2, SlotsOfPhase
  <2>5. CASE n = 1
    <3>1. Colour(p) = TurnOf(0) /\ Colour(p2) = TurnOf(0)  BY <2>5 DEF Colour
    <3> QED  BY <2>2, <3>1, NearSelf, TurnOfIsRgb
  <2>6. CASE n # 1
    <3>1. Colour(p) = Drawn(p) /\ Colour(p2) = Drawn(p2)  BY <2>1, <2>6 DEF Colour
    <3> DEFINE a == TurnOf(q)
               b == TurnOf((q + 1) % n)
    <3>2. a \in Rgb /\ b \in Rgb  BY TurnOfIsRgb
    <3>3. /\ s <= 1000 => Drawn(p) = a
          /\ s > 1000 => Drawn(p) = Blend(a, b, FadeT(s))
        BY <2>1, DrawnAt DEF PlainOrBlend
    <3>4. s + 1 <= 1000 => Drawn(p2) = a
        BY <2>2, <2>3, DrawnAt DEF PlainOrBlend
    <3>5. s >= 1000 /\ s < 1499 => Drawn(p2) = Blend(a, b, FadeT(s + 1))
      <4>1. s >= 1000 => s + 1 > 1000  BY <2>2
      <4> QED  BY <4>1, <2>2, <2>3, DrawnAt DEF PlainOrBlend
    <3>6. s = 1499 => Drawn(p2) = b
      <4>1. 0 <= 1000  OBVIOUS
      <4> QED  BY <4>1, <2>2, <2>4, DrawnAt DEF PlainOrBlend
    <3> HIDE DEF a, b, q, s, p2, n
    <3>7. Near(Drawn(p), Drawn(p2))
      <4>1. CASE s + 1 <= 1000
        <5>1. s <= 1000  BY <4>1, <2>2
        <5> QED  BY <4>1, <5>1, <3>2, <3>3, <3>4, NearSelf
      <4>2. CASE s = 1000
        <5>1. FadeT(s + 1) = 0 /\ FadeT(s + 1) \in Channel
          <6>1. s + 1 = 1001 /\ s + 1 \in Nat /\ s + 1 > 1000 /\ s + 1 <= 1499  BY <4>2
          <6> QED  BY <6>1, FadeBounds
        <5>2. Near(a, Blend(a, b, FadeT(s + 1)))  BY <3>2, <5>1, FadeIsSmooth
        <5>3. s <= 1000 /\ s >= 1000 /\ s < 1499  BY <4>2
        <5> QED  BY <3>3, <3>5, <5>2, <5>3
      <4>3. CASE s > 1000 /\ s < 1499
        <5>1. s > 1000 /\ s >= 1000 /\ s < 1499 /\ s <= 1499
              /\ s + 1 \in Nat /\ s + 1 > 1000 /\ s + 1 <= 1499
            BY <4>3, <2>2
        <5>2. FadeT(s) \in Channel /\ FadeT(s + 1) \in Channel  BY <5>1, <2>2, FadeBounds
        <5>3. FadeT(s + 1) - FadeT(s) \in 0 .. 1  BY <5>1, <2>2, FadeSteps
        <5>4. Near(Blend(a, b, FadeT(s)), Blend(a, b, FadeT(s + 1)))
            BY <3>2, <5>2, <5>3, FadeIsSmooth
        <5> QED  BY <3>3, <3>5, <5>1, <5>4
      <4>4. CASE s = 1499
        <5>1. FadeT(s) = 254 /\ FadeT(s) \in Channel
          <6>1. s > 1000 /\ s <= 1499  BY <4>4
          <6> QED  BY <6>1, <4>4, <2>2, FadeBounds
        <5>2. Near(Blend(a, b, FadeT(s)), b)  BY <3>2, <5>1, FadeIsSmooth
        <5>3. s > 1000  BY <4>4
        <5> QED  BY <3>3, <3>6, <4>4, <5>2, <5>3
      <4>5. s + 1 <= 1000 \/ s = 1000 \/ (s > 1000 /\ s < 1499) \/ s = 1499  BY <2>2
      <4> QED  BY <4>1, <4>2, <4>3, <4>4, <4>5
    <3> QED  BY <2>2, <3>1, <3>7 DEF p2
  <2> QED  BY <2>5, <2>6
<1> QED  BY <1>1, <1>2, TurnsInRange

--------------------------------------------------------------------------------
(* The state machine.                                                        *)

(* A frame shows the colour that belongs to its millisecond.                 *)
InPhase == ColoursTypeOK /\ rgb = Colour(now)

LEMMA InitInPhase == ColoursInit => InPhase
<1> SUFFICES ASSUME ColoursInit PROVE InPhase  OBVIOUS
<1>1. bits \in SUBSET Bits  BY MasksAssumption DEF ColoursInit
<1>2. now \in 0 .. Cycle - 1  BY <1>1, CycleOfTurns DEF ColoursInit
<1>3. rgb = Colour(now) /\ viz \in VizMode /\ col \in ColorMode  BY DEF ColoursInit
<1>4. rgb \in Rgb  BY <1>1, <1>2, <1>3, ColourIsRgb
<1> QED  BY <1>1, <1>2, <1>3, <1>4 DEF InPhase, ColoursTypeOK

LEMMA StepInPhase ==
    ASSUME InPhase, [Millisecond]_colourVars
    PROVE  /\ InPhase'
           /\ (\A i \in 1 .. 3 : rgb'[i] - rgb[i] \in -1 .. 1)
<1>1. bits \in SUBSET Bits /\ now \in 0 .. Cycle - 1 /\ rgb = Colour(now) /\ rgb \in Rgb
    BY DEF InPhase, ColoursTypeOK
<1>2. Cycle' = Cycle /\ (\A p : Colour(p)' = Colour(p))
  <2>1. viz' = viz /\ col' = col /\ bits' = bits  BY DEF Millisecond, colourVars
  <2>2. Turns' = Turns  BY <2>1 DEF Turns, ActiveLen
  <2>3. \A b : ColorFor(b)' = ColorFor(b)  BY <2>1 DEF ColorFor
  <2>4. \A a : PixelColor(a)' = PixelColor(a)  BY <2>1 DEF PixelColor, ColorFor
  <2>5. \A s : TurnOf(s)' = TurnOf(s)  BY <2>1 DEF TurnOf, PixelColor, ColorFor
  <2>6. \A p : Drawn(p)' = Drawn(p)  BY <2>1, <2>2 DEF Drawn, Turns, ActiveLen, TurnOf, PixelColor, ColorFor
  <2> QED  BY <2>1 DEF Cycle, Colour, Drawn, Turns, ActiveLen, TurnOf, PixelColor, ColorFor
<1>3. CASE Millisecond
  <2>1. now' = Phase(now + 1) /\ rgb' = Colour(now') /\ viz' = viz /\ col' = col /\ bits' = bits
      BY <1>3 DEF Millisecond
  <2>2. now' \in 0 .. Cycle - 1 /\ Near(Colour(now), Colour(now'))
      BY <1>1, <2>1, ColourIsSmooth
  <2>3. rgb' \in Rgb  BY <1>1, <2>1, <2>2, ColourIsRgb
  <2>4. rgb' = Colour(now)'
      BY <2>1 DEF Colour, Drawn, Turns, ActiveLen, TurnOf, PixelColor, ColorFor
  <2>5. InPhase'
      BY <1>1, <1>2, <2>1, <2>2, <2>3, <2>4 DEF InPhase, ColoursTypeOK
  <2> QED  BY <1>1, <2>1, <2>2, <2>5 DEF Near
<1>4. CASE UNCHANGED colourVars
  <2>1. viz' = viz /\ col' = col /\ bits' = bits /\ now' = now /\ rgb' = rgb
      BY <1>4 DEF colourVars
  <2>2. Colour(now)' = Colour(now)
      BY <2>1 DEF Colour, Drawn, Turns, ActiveLen, TurnOf, PixelColor, ColorFor
  <2>3. InPhase'  BY <1>1, <1>2, <2>1, <2>2 DEF InPhase, ColoursTypeOK
  <2>4. Near(rgb, rgb)  BY <1>1, NearSelf
  <2> QED  BY <2>1, <2>3, <2>4 DEF Near
<1> QED  BY <1>3, <1>4

(* The invariant that says which colour belongs to which millisecond, from   *)
(* which the smoothness of every step follows (draw_per_cluster).            *)
THEOREM AlwaysInPhase == ColoursSpec => []InPhase
<1>1. InPhase /\ [Millisecond]_colourVars => InPhase'  BY StepInPhase
<1> QED  BY <1>1, InitInPhase, PTL DEF ColoursSpec

(* Whatever mask a pixel has, its colour is one of three bytes and no table  *)
(* or slot is left (cluster_color, draw_global_pulse).                       *)
THEOREM TypeCorrect == ColoursSpec => []ColoursTypeOK
<1>1. InPhase => ColoursTypeOK  BY DEF InPhase
<1> QED  BY <1>1, AlwaysInPhase, PTL

(* For every mask, mode and millisecond: no channel jumps, at the beginning  *)
(* and the end of a fade, from slot to slot and where the cycle starts again *)
(* (cluster_color, draw_global_pulse, blend).                                *)
THEOREM ColoursNeverJump == ColoursSpec => FadesSmoothly
<1>1. InPhase /\ [Millisecond]_colourVars
         => [\A i \in 1 .. 3 : rgb'[i] - rgb[i] \in -1 .. 1]_colourVars
    BY StepInPhase
<1> QED  BY <1>1, AlwaysInPhase, PTL DEF ColoursSpec, FadesSmoothly

--------------------------------------------------------------------------------
(* Everyone's turn.                                                          *)

Below(mask, b) == {c \in mask : c < b}

LEMMA MaskIsFinite ==
    ASSUME NEW mask \in SUBSET Bits
    PROVE  IsFiniteSet(mask) /\ Cardinality(mask) \in Nat
<1>1. 0 \in Int /\ 7 \in Int  OBVIOUS
<1>2. IsFiniteSet(Bits)  BY <1>1, FS_Interval, Zenon DEF Bits
<1>3. IsFiniteSet(mask)  BY <1>2, FS_Subset
<1> QED  BY <1>3, FS_CardinalityType

(* The number of members below a bit is its place among the turns.           *)
LEMMA PlaceInRange ==
    ASSUME NEW mask \in SUBSET Bits, NEW b \in mask
    PROVE  Cardinality(Below(mask, b)) \in 0 .. Cardinality(mask) - 1
<1>1. Below(mask, b) \in SUBSET mask /\ Below(mask, b) \in SUBSET Bits  BY DEF Below
<1>2. b \notin Below(mask, b)  BY DEF Below, Bits
<1>3. IsFiniteSet(mask) /\ Cardinality(mask) \in Nat /\ Cardinality(Below(mask, b)) \in Nat
    BY <1>1, MaskIsFinite
<1>4. /\ Cardinality(Below(mask, b)) <= Cardinality(mask)
      /\ Cardinality(mask) # Cardinality(Below(mask, b))
    BY <1>1, <1>2, <1>3, FS_Subset
<1> QED  BY <1>3, <1>4

LEMMA PlaceIsUnique ==
    ASSUME NEW mask \in SUBSET Bits, NEW b \in mask, NEW d \in mask,
           Cardinality(Below(mask, b)) = Cardinality(Below(mask, d))
    PROVE  b = d
<1>1. \A x, y \in mask : x < y => Cardinality(Below(mask, x)) # Cardinality(Below(mask, y))
  <2> SUFFICES ASSUME NEW x \in mask, NEW y \in mask, x < y
               PROVE  Cardinality(Below(mask, x)) # Cardinality(Below(mask, y))
      OBVIOUS
  <2>1. x \in Below(mask, y) /\ x \notin Below(mask, x)  BY DEF Below, Bits
  <2>2. \A c \in mask : c < x => c < y
    <3>1. mask \in SUBSET Int  BY DEF Bits
    <3> QED  BY <3>1
  <2>3. Below(mask, x) \in SUBSET Below(mask, y)  BY <2>2 DEF Below
  <2>4. Below(mask, y) \in SUBSET Bits  BY DEF Below
  <2>5. IsFiniteSet(Below(mask, y))  BY <2>4, MaskIsFinite
  <2> QED  BY <2>1, <2>3, <2>5, FS_Subset
<1>2. b < d \/ d < b \/ b = d  BY DEF Bits
<1> QED  BY <1>1, <1>2

(* nth_set_bit finds every member: clearing lowest bits skips none.          *)
LEMMA NthSetBitFindsAll ==
    ASSUME NEW mask \in SUBSET Bits, NEW b \in mask
    PROVE  NthSetBit(mask, Cardinality(Below(mask, b))) = b
<1> DEFINE n == Cardinality(Below(mask, b))
<1>1. n < Cardinality(mask)
  <2>1. n \in 0 .. Cardinality(mask) - 1  BY PlaceInRange
  <2>2. Cardinality(mask) \in Nat  BY MaskIsFinite
  <2> QED  BY <2>1, <2>2
<1>2. \A d \in mask : Cardinality({c \in mask : c < d}) = n => d = b
    BY PlaceIsUnique DEF Below
<1>3. Cardinality({c \in mask : c < b}) = n  BY DEF Below
<1> HIDE DEF n
<1>4. NthSetBit(mask, n) = b  BY <1>1, <1>2, <1>3 DEF NthSetBit
<1> QED  BY <1>4 DEF n

(* Every member of a pixel is the one some slot belongs to.                  *)
LEMMA EveryMemberHasASlot ==
    ASSUME bits \in SUBSET Bits, col \in ColorMode, NEW b \in Bits, Member(b)
    PROVE  \E q \in 0 .. Turns - 1 : TurnOf(q) = ColorFor(b)
<1>1. CASE viz = "PerCluster"
  <2>1. b \in bits  BY DEF Member
  <2>2. Cardinality(Below(bits, b)) \in 0 .. Turns - 1  BY <1>1, <2>1, PlaceInRange DEF Turns
  <2>3. TurnOf(Cardinality(Below(bits, b))) = ColorFor(b)
      BY <1>1, <2>1, NthSetBitFindsAll DEF TurnOf
  <2> QED  BY <2>2, <2>3
<1>2. CASE viz # "PerCluster"
  <2>1. PICK q \in 0 .. ActiveLen - 1 : b = Active(q)  BY <1>2 DEF Member
  <2>2. TurnOf(q) = PixelColor(b) /\ Turns = ActiveLen  BY <1>2, <2>1 DEF TurnOf, Turns
  <2>3. PixelColor(b) = ColorFor(b)  BY DEF PixelColor, Member
  <2> QED  BY <2>1, <2>2, <2>3
<1> QED  BY <1>1, <1>2

LEMMA SlotBegins ==
    ASSUME NEW q \in 0 .. 7, NEW s \in 0 .. 1000
    PROVE  /\ (q * SlotMs + s) \div SlotMs = q
           /\ (q * SlotMs + s) % SlotMs = s
<1> SUFFICES /\ (q * 1500 + s) \div 1500 = q
             /\ (q * 1500 + s) % 1500 = s
    BY DEF SlotMs
<1> QED  OBVIOUS

(* Every member of a pixel is shown in its own full colour for a second of   *)
(* every cycle, whichever members the pixel has: "cycle through every set    *)
(* bit" (display.rs).                                                        *)
THEOREM EveryMemberHasItsTurn ==
    ASSUME bits \in SUBSET Bits, col \in ColorMode, NEW b \in Bits, Member(b)
    PROVE  \E q \in 0 .. Turns - 1 : \A s \in 0 .. SlotMs - FadeMs :
               /\ q * SlotMs + s \in 0 .. Cycle - 1
               /\ Colour(q * SlotMs + s) = ColorFor(b)
<1>1. PICK q \in 0 .. Turns - 1 : TurnOf(q) = ColorFor(b)  BY EveryMemberHasASlot
<1>2. Turns \in 1 .. 8 /\ Cycle = Turns * SlotMs /\ q \in 0 .. 7
  <2>1. Turns \in 0 .. 8  BY TurnsInRange
  <2> QED  BY <1>1, <2>1, CycleOfTurns
<1> SUFFICES ASSUME NEW s \in 0 .. SlotMs - FadeMs
             PROVE  /\ q * SlotMs + s \in 0 .. Cycle - 1
                    /\ Colour(q * SlotMs + s) = ColorFor(b)
    OBVIOUS
<1>3. s \in 0 .. 1000 /\ SlotMs = 1500  BY DEF SlotMs, FadeMs
<1>4. q * SlotMs + s \in 0 .. Cycle - 1 /\ q * SlotMs + s \in Nat  BY <1>1, <1>2, <1>3
<1>5. CASE Turns = 1
  <2>1. q = 0  BY <1>1, <1>5
  <2> QED  BY <1>1, <1>4, <1>5, <2>1 DEF Colour
<1>6. CASE Turns # 1
  <2>1. Colour(q * SlotMs + s) = Drawn(q * SlotMs + s)  BY <1>2, <1>6 DEF Colour
  <2>2. (q * SlotMs + s) \div SlotMs = q /\ (q * SlotMs + s) % SlotMs = s  BY <1>2, <1>3, SlotBegins
  <2>3. s <= 1000  BY <1>3
  <2>4. Drawn(q * SlotMs + s) = TurnOf(q)  BY <1>4, <2>2, <2>3, DrawnAt DEF PlainOrBlend
  <2> QED  BY <1>1, <1>4, <2>1, <2>4
<1> QED  BY <1>5, <1>6
================================================================================
