--------------------------- MODULE DisplayProofs ----------------------------
(***************************************************************************)
(* What the pixel operators of Rect and Blit compute, for all coordinates  *)
(* and all bytes: clipping keeps exactly the pixels it should and stays in *)
(* step with the source, the product of two fractions is rounded, and the  *)
(* kernels for SSE2 and AVX2 blend as the plain loop does.                 *)
(* And the pace of the frames, for every rate of refresh and every         *)
(* frequency of the clocks, however long a frame takes and whenever the    *)
(* thread is preempted.                                                    *)
(***************************************************************************)
EXTENDS Blit, Pacing, TLAPS

-----------------------------------------------------------------------------
(* Rectangles (compositor/rect.h): what the damage tracker and the scissor need. *)

\* rect_union() returns a rectangle that covers every pixel of both arguments,
\* empty ones included, so that merging damage never loses a pixel.
THEOREM UnionCovers ==
    ASSUME NEW a \in Rects, NEW b \in Rects, NEW px \in Int, NEW py \in Int,
           Covers(a, px, py) \/ Covers(b, px, py)
    PROVE  Covers(RectUnion(a, b), px, py)
PROOF
<1>1. CASE RectEmpty(a)
    BY <1>1 DEF RectUnion, Covers, RectEmpty, Rects
<1>2. CASE ~RectEmpty(a) /\ RectEmpty(b)
    BY <1>2 DEF RectUnion, Covers, RectEmpty, Rects
<1>3. CASE ~RectEmpty(a) /\ ~RectEmpty(b)
    BY <1>3 DEF RectUnion, Covers, RectMake, MinOf, MaxOf, Rects
<1>4. QED
    BY <1>1, <1>2, <1>3

\* rect_intersect() covers exactly the common pixels.
THEOREM IntersectExact ==
    ASSUME NEW r \in Rects, NEW c \in Rects, NEW px \in Int, NEW py \in Int
    PROVE  Covers(RectIntersect(r, c), px, py) <=> Covers(r, px, py) /\ Covers(c, px, py)
PROOF
<1> DEFINE x0 == MaxOf(r.x, c.x)
           y0 == MaxOf(r.y, c.y)
           x1 == MinOf(r.x + r.w, c.x + c.w)
           y1 == MinOf(r.y + r.h, c.y + c.h)
<1>1. /\ x0 \in Int /\ y0 \in Int /\ x1 \in Int /\ y1 \in Int
      /\ Covers(r, px, py) /\ Covers(c, px, py)
         <=> x0 <= px /\ px < x1 /\ y0 <= py /\ py < y1
    BY DEF Covers, MaxOf, MinOf, Rects
<1>2. CASE x1 <= x0 \/ y1 <= y0
    <2>1. RectIntersect(r, c) = RectMake(0, 0, 0, 0)
        BY <1>2 DEF RectIntersect
    <2>2. ~Covers(RectMake(0, 0, 0, 0), px, py)
        BY DEF Covers, RectMake
    <2> HIDE DEF x0, y0, x1, y1
    <2>3. QED
        BY <1>1, <1>2, <2>1, <2>2
<1>3. CASE ~(x1 <= x0 \/ y1 <= y0)
    <2>1. RectIntersect(r, c) = RectMake(x0, y0, x1 - x0, y1 - y0)
        BY <1>3 DEF RectIntersect
    <2> HIDE DEF x0, y0, x1, y1
    <2>2. Covers(RectMake(x0, y0, x1 - x0, y1 - y0), px, py)
          <=> x0 <= px /\ px < x1 /\ y0 <= py /\ py < y1
        BY <1>1 DEF Covers, RectMake
    <2>3. QED
        BY <1>1, <2>1, <2>2
<1>4. QED
    BY <1>2, <1>3

\* rect_overlaps() holds of two nonempty rectangles exactly when they share a
\* pixel, which is what keeps the damage list disjoint.
THEOREM OverlapsIffShared ==
    ASSUME NEW a \in Rects, NEW b \in Rects, ~RectEmpty(a), ~RectEmpty(b)
    PROVE  RectOverlaps(a, b)
           <=> \E px, py \in Int : Covers(a, px, py) /\ Covers(b, px, py)
PROOF
<1>1. ASSUME RectOverlaps(a, b)
      PROVE  \E px, py \in Int : Covers(a, px, py) /\ Covers(b, px, py)
    <2> DEFINE qx == MaxOf(a.x, b.x)
               qy == MaxOf(a.y, b.y)
    <2>1. qx \in Int /\ qy \in Int /\ Covers(a, qx, qy) /\ Covers(b, qx, qy)
        BY <1>1 DEF RectOverlaps, Covers, MaxOf, Rects, RectEmpty
    <2> HIDE DEF qx, qy
    <2>2. QED
        BY <2>1
<1>2. ASSUME NEW px \in Int, NEW py \in Int, Covers(a, px, py), Covers(b, px, py)
      PROVE  RectOverlaps(a, b)
    BY <1>2 DEF RectOverlaps, Covers, Rects
<1>3. QED
    BY <1>1, <1>2

-----------------------------------------------------------------------------
(* Clipping and blending. *)

\* A byte; the provers would take an interval apart.
Byte == {n \in Nat : n <= 255}

\* clip_rect() keeps a pixel of the rectangle if and only if it is on the screen and inside
\* the scissor, and reads for it the source's pixel that belongs there.
THEOREM ClipExact ==
    ASSUME NEW x \in Int, NEW w \in Int, NEW size \in Int, NEW sx \in Int, NEW sw \in Int, NEW p \in Int
    PROVE  LET c == EffectiveClip(size, sx, sw)
               r == ClipSpan(x, w, c)
           IN  /\ (Survives(w, c, r) /\ r.x <= p /\ p < r.x + r.w)
                     <=> (x <= p /\ p < x + w /\ 0 <= p /\ p < size /\ sx <= p /\ p < sx + sw)
               /\ r.s + (p - r.x) = p - x
BY DEF EffectiveClip, ClipSpan, Survives, MaxOf, MinOf

\* The product of two bytes fits 16 bits with room to spare.
LEMMA ByteProduct ==
    ASSUME NEW a \in Byte, NEW b \in Byte
    PROVE  a * b \in Nat /\ a * b <= 255 * b /\ a * b <= 65025
<1>1. a * b \in Nat
    BY SMT DEF Byte
<1>2. a * b <= 255 * b
    <2>1. (255 - a) * b >= 0
        BY SMT DEF Byte
    <2> QED
        BY <2>1, SMT DEF Byte
<1> QED
    BY <1>1, <1>2, SMT DEF Byte

LEMMA DivUnique256 ==
    ASSUME NEW n \in Int, NEW k \in Int, NEW m \in Nat, m < 256, n = 256 * k + m
    PROVE  n \div 256 = k
BY SMT

LEMMA Div255 ==
    ASSUME NEW n \in Nat
    PROVE  \E k \in Nat, m \in Nat : n = 255 * k + m /\ m < 255 /\ n \div 255 = k
BY SMT

LEMMA Rounded ==
    ASSUME NEW x \in Nat, x <= 65025
    PROVE  /\ ((x + 128) + ((x + 128) \div 256)) \div 256 = (x + 127) \div 255
           /\ (x + 127) \div 255 \in Byte
<1>1. PICK q \in Nat, r \in Nat : x + 127 = 255 * q + r /\ r < 255 /\ (x + 127) \div 255 = q
    BY Div255
<1>2. q <= 255
    BY <1>1
<1>3. CASE r + 1 >= q
    <2>1. (x + 128) \div 256 = q
        BY <1>1, <1>2, <1>3, DivUnique256, x + 128 = 256 * q + (r + 1 - q)
    <2>2. (x + 128 + q) \div 256 = q
        BY <1>1, <1>2, DivUnique256, x + 128 + q = 256 * q + (r + 1)
    <2> QED
        BY <1>1, <1>2, <2>1, <2>2 DEF Byte
<1>4. CASE r + 1 < q
    <2>1. (x + 128) \div 256 = q - 1
        BY <1>1, <1>2, <1>4, DivUnique256, x + 128 = 256 * (q - 1) + (r + 257 - q)
    <2>2. (x + 128 + (q - 1)) \div 256 = q
        BY <1>1, <1>2, DivUnique256, x + 128 + (q - 1) = 256 * q + r
    <2> QED
        BY <1>1, <1>2, <2>1, <2>2 DEF Byte
<1> QED
    BY <1>1, <1>3, <1>4

\* mul8() divides by 255 and rounds to the nearest, without a division ("(a * b + 127) /
\* 255 implemented without div").
THEOREM MulRounds ==
    ASSUME NEW a \in Byte, NEW b \in Byte
    PROVE  Mul8(a, b) = (a * b + 127) \div 255 /\ Mul8(a, b) \in Byte
<1>1. PICK x \in Nat : x = a * b /\ x <= 65025
    BY ByteProduct
<1>2. Mul8(a, b) = ((x + 128) + ((x + 128) \div 256)) \div 256
    BY <1>1 DEF Mul8
<1>3. Mul8(a, b) = (x + 127) \div 255 /\ (x + 127) \div 255 \in Byte
    BY <1>1, <1>2, Rounded
<1> QED
    BY <1>1, <1>3

\* What mul8() makes of the ends of the range, and that it grows with its argument.
LEMMA MulEnds ==
    ASSUME NEW a \in Byte
    PROVE  Mul8(a, 0) = 0 /\ Mul8(a, 255) = a
<1>1. Mul8(a, 0) = (a * 0 + 127) \div 255 /\ Mul8(a, 255) = (a * 255 + 127) \div 255
    BY MulRounds DEF Byte
<1>2. (a * 0 + 127) \div 255 = 0 /\ (a * 255 + 127) \div 255 = a
    BY SMT DEF Byte
<1> QED
    BY <1>1, <1>2

LEMMA MulBounded ==
    ASSUME NEW a \in Byte, NEW b \in Byte
    PROVE  Mul8(a, b) <= b
<1>1. PICK x \in Nat : x = a * b /\ x <= 255 * b
    BY ByteProduct
<1>2. Mul8(a, b) = (x + 127) \div 255
    BY <1>1, MulRounds
<1>3. b \in Nat
    BY DEF Byte
<1>4. (x + 127) \div 255 <= b
    <2>1. PICK k \in Nat, m \in Nat : x + 127 = 255 * k + m /\ m < 255 /\ (x + 127) \div 255 = k
        BY Div255
    <2> QED
        BY <1>1, <1>3, <2>1
<1> QED
    BY <1>2, <1>4

\* In 16 bits nothing is lost.
LEMMA LaneProduct ==
    ASSUME NEW a \in Byte, NEW b \in Byte
    PROVE  LaneMul8(a, b) = Mul8(a, b)
<1>1. PICK x \in Nat : x = a * b /\ x <= 65025
    BY ByteProduct
<1>2. PICK k \in Nat : (x + 128) \div 256 = k /\ k <= 255
    BY <1>1
<1>3. x % 65536 = x /\ (x + 128) % 65536 = x + 128 /\ (x + 128 + k) % 65536 = x + 128 + k
    BY <1>1, <1>2
<1>4. Mul8(a, b) = (x + 128 + k) \div 256
    BY <1>1, <1>2 DEF Mul8
<1>5. LaneMul8(a, b) = (x + 128 + k) \div 256
    BY <1>1, <1>2, <1>3 DEF LaneMul8
<1> QED
    BY <1>4, <1>5

\* A blend is a byte again: the sum of the two parts never needs to be cut off at 255.
THEOREM BlendFits ==
    ASSUME NEW c \in Byte, NEW d \in Byte, NEW a \in Byte
    PROVE  /\ Mul8(c, a) + Mul8(d, 255 - a) \in Byte
           /\ Blend(d, c, a) = Mul8(c, a) + Mul8(d, 255 - a)
<1>1. 255 - a \in Byte /\ a \in Nat
    BY DEF Byte
<1>2. Mul8(c, a) \in Nat /\ Mul8(d, 255 - a) \in Nat
    BY <1>1, MulRounds, ZenonT(30) DEF Byte
<1>3. Mul8(c, a) <= a /\ Mul8(d, 255 - a) <= 255 - a
    BY <1>1, MulBounded
<1>4. Mul8(c, a) + Mul8(d, 255 - a) \in Byte
    BY <1>1, <1>2, <1>3 DEF Byte
<1>5. Saturate(Mul8(c, a) + Mul8(d, 255 - a)) = Mul8(c, a) + Mul8(d, 255 - a)
    BY <1>4 DEF Saturate, Byte
<1>6. CASE a = 0
    BY <1>6, <1>4, MulEnds DEF Blend, Byte
<1>7. CASE a = 255
    BY <1>7, <1>4, MulEnds DEF Blend, Byte
<1> QED
    BY <1>4, <1>5, <1>6, <1>7 DEF Blend

\* The kernels blend every pixel as the plain loop does, the fully transparent and the
\* fully opaque ones included, for which the loop has branches of their own ("Math matches
\* the scalar paths byte-for-byte").
THEOREM KernelsAgree ==
    ASSUME NEW d \in Byte, NEW s \in [a : Byte, c : Byte], NEW ga \in Byte
    PROVE  LanePx(d, s, ga) = ScalarAlphaPx(d, s, ga)
<1>0. s.a \in Byte /\ s.c \in Byte
    OBVIOUS
<1>1. PICK a \in Byte : a = Mul8(s.a, ga) /\ a = LaneMul8(s.a, ga)
    BY <1>0, MulRounds, LaneProduct
<1>2. 255 - a \in Byte /\ (255 - a) % 65536 = 255 - a
    BY DEF Byte
<1>3. LaneMul8(s.c, a) = Mul8(s.c, a) /\ LaneMul8(d, (255 - a) % 65536) = Mul8(d, 255 - a)
    BY <1>0, <1>2, LaneProduct
<1>4. PICK n \in Byte : n = Mul8(s.c, a) + Mul8(d, 255 - a) /\ Blend(d, s.c, a) = n
    BY <1>0, BlendFits
<1>5. n % 65536 = n /\ Saturate(n) = n
    BY DEF Byte, Saturate
<1>6. LanePx(d, s, ga) = Saturate((LaneMul8(s.c, a) + LaneMul8(d, (255 - a) % 65536)) % 65536)
    BY <1>1 DEF LanePx
<1>7. LanePx(d, s, ga) = n
    BY <1>3, <1>4, <1>5, <1>6
<1> QED
    BY <1>1, <1>4, <1>7 DEF ScalarAlphaPx

-----------------------------------------------------------------------------
(* The pace of the frames (Pacing).  BootConfig takes the steps of Pacing  *)
(* with the policy and the timer as kmain() has left them; so does         *)
(* PaceSpec.                                                               *)

Rates == policy.refresh_hz \in Int /\ timer.hz \in Nat /\ timer.tsc \in Nat
PaceNext == (Paint \/ Tick) /\ UNCHANGED <<policy, timer>>
PaceSpec == PacingInit /\ Rates /\ [][PaceNext]_<<paceVars, policy, timer>>

-----------------------------------------------------------------------------
(* The numbers. *)

LEMMA MaxOfTwo ==
    ASSUME NEW a \in Int, NEW b \in Int
    PROVE  Max({a, b}) = IF a >= b THEN a ELSE b
<1> DEFINE m == IF a >= b THEN a ELSE b
<1>1. m \in {a, b} /\ \A y \in {a, b} : m >= y
    OBVIOUS
<1>2. \A x \in {a, b} : (\A y \in {a, b} : x >= y) => x = m
    OBVIOUS
<1> HIDE DEF m
<1>3. Max({a, b}) = m
    BY <1>1, <1>2 DEF Max
<1> QED
    BY <1>3 DEF m

LEMMA MinOfTwo ==
    ASSUME NEW a \in Int, NEW b \in Int
    PROVE  Min({a, b}) = IF a <= b THEN a ELSE b
<1> DEFINE m == IF a <= b THEN a ELSE b
<1>1. m \in {a, b} /\ \A y \in {a, b} : m <= y
    OBVIOUS
<1>2. \A x \in {a, b} : (\A y \in {a, b} : x <= y) => x = m
    OBVIOUS
<1> HIDE DEF m
<1>3. Min({a, b}) = m
    BY <1>1, <1>2 DEF Min
<1> QED
    BY <1>3 DEF m

\* Division with remainder.
LEMMA DivideBy ==
    ASSUME NEW v \in Nat \ {0}, NEW q \in Int, NEW r \in Nat, r < v, NEW n \in Int, n = q * v + r
    PROVE  n \div v = q /\ n % v = r
<1> DEFINE d == n \div v
           m == n % v
<1>1. d \in Int /\ m \in Int /\ 0 <= m /\ m < v /\ n = v * d + m
    BY SMT
<1> HIDE DEF d, m
<1>2. PICK e \in Int : e = d - q
    BY <1>1
<1>3. v * e = r - m
    BY <1>1, <1>2, SMT
<1>4. e >= 1 => v * e >= v
    BY SMT
<1>5. e <= -1 => v * e <= -v
    BY SMT
<1>6. e = 0
    BY <1>1, <1>3, <1>4, <1>5
<1>7. d = q
    BY <1>1, <1>2, <1>6
<1>8. m = r
    BY <1>1, <1>3, <1>6
<1> QED
    BY <1>7, <1>8 DEF d, m

\* Both periods are positive, so the clocks always move on.
LEMMA Periods ==
    ASSUME Rates
    PROVE  Per \in Nat \ {0} /\ VPer \in Nat \ {0}
<1> DEFINE t == CompositorHz(policy.refresh_hz)
<1>1. t \in Nat \ {0} /\ t = Clamp(policy.refresh_hz, 30, 360)
    BY MaxOfTwo, MinOfTwo DEF Rates, CompositorHz, Clamp
<1> HIDE DEF t
<1>2. timer.tsc \div t \in Int /\ timer.hz \div t \in Int
    BY <1>1, SMT DEF Rates
<1>3. Max({timer.tsc \div t, PerFloor}) \in Nat \ {0} /\ Max({timer.hz \div t, 1}) \in Nat \ {0}
      /\ Max({timer.tsc \div t, VsyncFloor}) \in Nat \ {0}
    BY <1>2, MaxOfTwo, PacingAssumption
<1>4. Per = IF TscOn THEN Max({timer.tsc \div t, PerFloor}) ELSE Max({timer.hz \div t, 1})
    BY DEF Per, t
<1>5. VPer = Max({timer.tsc \div t, VsyncFloor})
    BY <1>1 DEF VPer
<1> QED
    BY <1>3, <1>4, <1>5

\* Catching up with the refreshes ends at the next one: phase is the place of the clock
\* between two of them.
LEMMA CaughtUp ==
    ASSUME VPer \in Nat \ {0}, NEW ph \in Nat, ph < VPer, NEW k \in Int, NEW left \in Int,
           left = k * VPer - ph
    PROVE  CatchUp(left) = IF left <= 0 THEN VPer - ph ELSE left
<1>1. SUFFICES ASSUME left <= 0 PROVE CatchUp(left) = VPer - ph
    BY DEF CatchUp
<1> DEFINE v == VPer
<1>2. v \in Nat \ {0} /\ CatchUp(left) = left + v * ((-left) \div v + 1)
    BY <1>1 DEF CatchUp
<1>3. ph < v /\ left = k * v - ph
    OBVIOUS
<1> HIDE DEF v
<1>4. PICK q \in Int, n \in Int : q = -k /\ n = -left
    OBVIOUS
<1>5. n = q * v + ph
    BY <1>2, <1>3, <1>4, SMT
<1>6. n \div v = q
    BY <1>2, <1>3, <1>5, DivideBy
<1>7. left + v * (-k + 1) = v - ph
    BY <1>2, <1>3, SMT
<1> QED
    BY <1>2, <1>4, <1>6, <1>7 DEF v

-----------------------------------------------------------------------------
(* The invariant. *)

PaceTypes ==
    /\ at \in {"boot", "wait", "frame", "vsync"}
    /\ started \in BOOLEAN /\ vset \in BOOLEAN
    /\ due \in Int /\ vdue \in Int
    /\ phase \in Nat /\ ended \in Nat /\ bucket \in Nat
    /\ at = "wait" => started
    /\ at = "boot" => ~started

\* What the thread may still make up for is what its deadline lies back: while it waits,
\* the bucket has at most two frames more than that, and one more while it paints.
BucketInv ==
    /\ ~started => bucket = 0
    /\ at = "wait" => due <= Per /\ (bucket = 0 \/ bucket <= 2 * Per + due)
    /\ (started /\ at \in {"frame", "vsync"}) =>
          due <= 0 /\ (bucket <= Per \/ bucket <= 3 * Per + due)

\* The deadline of vsync is a refresh; once a frame has ended it is the next one.
VsyncInv ==
    /\ ~vset => phase = 0 /\ ended = 0 /\ at # "vsync"
    /\ phase < VPer
    /\ vset => \E k \in Int : vdue = k * VPer - phase
    /\ ended \in {0, 1}
    /\ ended = 1 => vdue = VPer - phase

PaceInv == Rates /\ PaceTypes /\ BucketInv /\ VsyncInv

LEMMA PaceInitially == PacingInit /\ Rates => PaceInv
<1> SUFFICES ASSUME PacingInit, Rates PROVE PaceInv
    OBVIOUS
<1>1. VPer \in Nat \ {0}
    BY Periods
<1>2. PaceTypes
    <2>1. started \in BOOLEAN /\ ~started /\ vset \in BOOLEAN
        BY Zenon DEF PacingInit
    <2> QED
        BY <2>1 DEF PacingInit, PaceTypes
<1>3. BucketInv
    BY DEF PacingInit, BucketInv
<1>4. VsyncInv
    BY <1>1 DEF PacingInit, VsyncInv
<1> QED
    BY <1>2, <1>3, <1>4 DEF PaceInv

\* The deadline of the thread after a frame.
LEMMA ReturnKeeps ==
    ASSUME Rates, PaceTypes, BucketInv, at \in {"frame", "vsync"}, Return, UNCHANGED <<policy, timer>>
    PROVE  /\ BucketInv' /\ due' \in Int /\ bucket' = bucket /\ started' = started
           /\ at' = IF started THEN "wait" ELSE "boot"
<1> DEFINE p == Per
<1>1. p \in Nat \ {0}
    BY Periods
<1>2. p' = p
    BY DEF Per, TscOn
<1>3. NextDue = IF (IF TscOn THEN due + p < -p ELSE due < -p) THEN p ELSE due + p
    BY DEF NextDue
<1>4. BucketInv <=> /\ ~started => bucket = 0
                    /\ at = "wait" => due <= p /\ (bucket = 0 \/ bucket <= 2 * p + due)
                    /\ (started /\ at \in {"frame", "vsync"}) =>
                          due <= 0 /\ (bucket <= p \/ bucket <= 3 * p + due)
    BY DEF BucketInv
<1>5. BucketInv' <=> /\ ~started' => bucket' = 0
                     /\ at' = "wait" => due' <= p /\ (bucket' = 0 \/ bucket' <= 2 * p + due')
                     /\ (started' /\ at' \in {"frame", "vsync"}) =>
                           due' <= 0 /\ (bucket' <= p \/ bucket' <= 3 * p + due')
    BY <1>2 DEF BucketInv
<1> HIDE DEF p
<1>6. CASE ~started
    BY <1>4, <1>5, <1>6 DEF Return, PaceTypes
<1>7. CASE started
    BY <1>1, <1>3, <1>4, <1>5, <1>7 DEF Return, PaceTypes
<1> QED
    BY <1>6, <1>7 DEF PaceTypes

\* The deadline of vsync after the wait for it: the next refresh.
LEMMA LeaveKeeps ==
    ASSUME Rates, PaceTypes, VsyncInv, VsyncLeave, UNCHANGED <<policy, timer>>
    PROVE  VsyncInv' /\ vdue' \in Int /\ ended' = 1
<1> DEFINE v == VPer
<1>1. v \in Nat \ {0} /\ v' = v
    BY Periods DEF VPer
<1>2. vset /\ at = "vsync" /\ vdue <= 0
    BY DEF VsyncLeave, VsyncInv
<1>3. PICK k \in Int : vdue = k * v - phase
    BY <1>2 DEF VsyncInv
<1>4. phase \in Nat /\ phase < v /\ vdue \in Int
    BY DEF PaceTypes, VsyncInv
<1>5. ended = 0
    BY <1>1, <1>2, <1>4 DEF VsyncInv
<1>6. vdue' = CatchUp(vdue + v)
    BY DEF VsyncLeave
<1>7. vdue + v = (k + 1) * v - phase
    BY <1>1, <1>3, <1>4, SMT
<1>8. k <= 0
    <2>1. k >= 1 => k * v >= v
        BY <1>1, SMT
    <2> QED
        BY <1>1, <1>2, <1>3, <1>4, <2>1
<1>9. vdue' = v - phase
    <2>1. PICK j \in Int, left \in Int : j = k + 1 /\ left = vdue + v
        BY <1>1, <1>4
    <2>2. left = j * v - phase
        BY <1>7, <2>1
    <2>3. CatchUp(left) = IF left <= 0 THEN v - phase ELSE left
        BY <1>1, <1>4, <2>2, CaughtUp, ZenonT(30)
    <2>4. k = 0 => left = v - phase
        BY <1>1, <1>3, <1>4, <2>1, SMT
    <2>5. k <= -1 => k * v <= -v
        BY <1>1, SMT
    <2>6. k <= -1 => left <= 0
        BY <1>1, <1>3, <1>4, <2>1, <2>5
    <2> QED
        BY <1>6, <1>8, <2>1, <2>3, <2>4, <2>6
<1>10. phase' = phase /\ vset' /\ ended' = 1 /\ at' # "vsync"
    BY <1>2, <1>5 DEF VsyncLeave, Return
<1>11. vdue' = 1 * v - phase
    BY <1>1, <1>4, <1>9
<1> HIDE DEF v
<1>12. \E i \in Int : vdue' = i * v - phase
    BY <1>11
<1> QED
    BY <1>1, <1>4, <1>9, <1>10, <1>12 DEF VsyncInv, v

\* The wait for the first refresh, or for the next.
LEMMA EnterKeeps ==
    ASSUME Rates, PaceTypes, VsyncInv, VsyncEnter, UNCHANGED <<policy, timer>>
    PROVE  VsyncInv' /\ vdue' \in Int /\ phase' \in Nat
<1> DEFINE v == VPer
<1>1. v \in Nat \ {0} /\ v' = v
    BY Periods DEF VPer
<1>2. phase \in Nat /\ phase < v /\ vdue \in Int /\ vset \in BOOLEAN
    BY DEF PaceTypes, VsyncInv
<1>3. ended' = ended /\ vset' /\ at' = "vsync"
    BY DEF VsyncEnter
<1>4. CASE ~vset
    <2>1. vdue' = CatchUp(v) /\ phase' = 0 /\ ended = 0
        BY <1>4 DEF VsyncEnter, VsyncInv
    <2>2. CatchUp(v) = v
        BY <1>1 DEF CatchUp
    <2>3. v = 1 * v - 0
        BY <1>1
    <2> HIDE DEF v
    <2>4. \E i \in Int : vdue' = i * v - phase'
        BY <2>1, <2>2, <2>3
    <2> QED
        BY <1>1, <1>3, <2>1, <2>2, <2>4 DEF VsyncInv, v
<1>5. CASE vset
    <2>1. vdue' = CatchUp(vdue) /\ phase' = phase
        BY <1>5 DEF VsyncEnter
    <2>2. PICK k \in Int : vdue = k * v - phase
        BY <1>5 DEF VsyncInv
    <2>3. CatchUp(vdue) = IF vdue <= 0 THEN v - phase ELSE vdue
        BY <1>1, <1>2, <2>2, CaughtUp, ZenonT(30)
    <2>4. v - phase = 1 * v - phase /\ v - phase > 0
        BY <1>1, <1>2
    <2>5. ended = 1 => vdue' = v - phase
        BY <2>1, <2>3 DEF VsyncInv
    <2>6. vdue' \in Int
        BY <1>1, <1>2, <2>1, <2>3
    <2> HIDE DEF v
    <2>7. \E i \in Int : vdue' = i * v - phase'
        BY <2>1, <2>2, <2>3, <2>4
    <2>8. ended \in {0, 1}
        BY DEF VsyncInv
    <2> QED
        BY <1>1, <1>2, <1>3, <2>1, <2>5, <2>6, <2>7, <2>8 DEF VsyncInv, v
<1> QED
    BY <1>2, <1>4, <1>5

\* The clock moves both deadlines and the place between two refreshes.
LEMMA TickKeeps ==
    ASSUME Rates, PaceTypes, BucketInv, VsyncInv, Tick, UNCHANGED <<policy, timer>>
    PROVE  PaceTypes' /\ BucketInv' /\ VsyncInv'
<1> DEFINE v == VPer
           p == Per
           next == (phase + 1) % v
<1>1. v \in Nat \ {0} /\ v' = v /\ p \in Nat \ {0} /\ p' = p
    BY Periods DEF VPer, Per, TscOn
<1>2. phase \in Nat /\ phase < v /\ vdue \in Int /\ due \in Int /\ bucket \in Nat
    BY DEF PaceTypes, VsyncInv
<1>3. next = IF phase + 1 < v THEN phase + 1 ELSE 0
    <2>1. PICK n \in Int : n = phase + 1
        BY <1>2
    <2>2. CASE n < v
        <3>1. n = 0 * v + n /\ n \in Nat
            BY <1>1, <1>2, <2>1
        <3>2. n % v = n
            BY <1>1, <2>2, <3>1, DivideBy
        <3> QED
            BY <2>1, <2>2, <3>2
    <2>3. CASE ~(n < v)
        <3>1. n = 1 * v + 0 /\ 0 < v
            BY <1>1, <1>2, <2>1, <2>3
        <3>2. n % v = 0
            BY <1>1, <3>1, DivideBy
        <3> QED
            BY <2>1, <2>3, <3>2
    <2> QED
        BY <2>2, <2>3
<1>4. bucket' = IF bucket >= 1 THEN bucket - 1 ELSE 0
    <2>1. PICK b \in Int : b = bucket - 1
        BY <1>2
    <2>2. bucket' = Max({b, 0})
        BY <2>1 DEF Tick
    <2> QED
        BY <1>2, <2>1, <2>2, MaxOfTwo
<1>5. due' \in Int /\ due' = IF started THEN (IF due - 1 >= -4 * p THEN due - 1 ELSE -4 * p) ELSE due
    <2>1. PICK a \in Int, b \in Int : a = due - 1 /\ b = -4 * p
        BY <1>1, <1>2
    <2>2. due' = IF started THEN Max({a, b}) ELSE due
        BY <2>1 DEF Tick
    <2> QED
        BY <1>2, <2>1, <2>2, MaxOfTwo
<1>6. /\ vdue' = IF ~vset THEN vdue ELSE IF vdue <= -3 * v THEN vdue + v - 1 ELSE vdue - 1
      /\ phase' = IF vset THEN next ELSE 0
      /\ ended' = IF next = 0 THEN 0 ELSE ended
      /\ at' = at /\ started' = started /\ vset' = vset
    BY DEF Tick
<1> HIDE DEF v, p, next
<1>7. PaceTypes'
    BY <1>1, <1>2, <1>3, <1>4, <1>5, <1>6 DEF PaceTypes
<1>8. BucketInv'
    <2>1. ~started => bucket' = 0
        BY <1>4 DEF BucketInv
    <2>2. ASSUME at = "wait" PROVE due' <= p /\ (bucket' = 0 \/ bucket' <= 2 * p + due')
        <3>1. started /\ due <= p /\ (bucket = 0 \/ bucket <= 2 * p + due)
            BY <2>2 DEF PaceTypes, BucketInv, p
        <3> QED
            BY <1>1, <1>2, <1>4, <1>5, <3>1
    <2>3. ASSUME started, at \in {"frame", "vsync"}
          PROVE  due' <= 0 /\ (bucket' <= p \/ bucket' <= 3 * p + due')
        <3>1. due <= 0 /\ (bucket <= p \/ bucket <= 3 * p + due)
            BY <2>3 DEF BucketInv, p
        <3> QED
            BY <1>1, <1>2, <1>4, <1>5, <2>3, <3>1
    <2> QED
        BY <1>1, <1>6, <2>1, <2>2, <2>3 DEF BucketInv, p
<1>9. VsyncInv'
    <2>1. CASE ~vset
        BY <1>1, <1>6, <2>1 DEF VsyncInv, v
    <2>2. CASE vset
        <3>1. PICK k \in Int : vdue = k * v - phase
            BY <2>2 DEF VsyncInv, v
        <3>2. vdue - 1 = k * v - (phase + 1) /\ vdue - 1 = (k - 1) * v - (phase + 1 - v)
              /\ vdue + v - 1 = (k + 1) * v - (phase + 1) /\ vdue + v - 1 = k * v - (phase + 1 - v)
            BY <1>1, <1>2, <3>1, SMT
        <3>3. \E i \in Int : vdue' = i * v - phase'
            <4>1. CASE phase + 1 < v
                BY <1>2, <1>3, <1>6, <2>2, <3>2, <4>1
            <4>2. CASE ~(phase + 1 < v)
                <5>1. phase + 1 - v = 0 /\ phase' = 0
                    BY <1>1, <1>2, <1>3, <1>6, <2>2, <4>2
                <5> QED
                    BY <1>2, <1>6, <2>2, <3>2, <5>1
            <4> QED
                BY <4>1, <4>2
        <3>4. ended' \in {0, 1} /\ phase' < v
            BY <1>1, <1>3, <1>6, <2>2 DEF VsyncInv
        <3>5. ended' = 1 => vdue' = v - phase'
            <4>1. ended = 1 => vdue = v - phase
                BY DEF VsyncInv, v
            <4> QED
                BY <1>1, <1>2, <1>3, <1>6, <2>2, <4>1
        <3> QED
            BY <1>1, <1>6, <2>2, <3>3, <3>4, <3>5, ZenonT(30) DEF VsyncInv, v
    <2> QED
        BY <2>1, <2>2 DEF PaceTypes
<1> QED
    BY <1>7, <1>8, <1>9

\* Every step keeps the invariant.
LEMMA PaceStep == PaceInv /\ [PaceNext]_<<paceVars, policy, timer>> => PaceInv'
<1> SUFFICES ASSUME PaceInv, [PaceNext]_<<paceVars, policy, timer>> PROVE PaceInv'
    OBVIOUS
<1>1. Rates /\ PaceTypes /\ BucketInv /\ VsyncInv
    BY DEF PaceInv
<1>2. UNCHANGED <<policy, timer>>
    BY DEF PaceNext
<1>3. Rates' /\ Per' = Per /\ VPer' = VPer
    BY <1>1, <1>2 DEF Rates, Per, VPer, TscOn
<1>4. Per \in Nat \ {0} /\ VPer \in Nat \ {0}
    BY <1>1, Periods
<1>5. CASE BootFrame
    <2>1. at' = "frame" /\ at = "boot" /\ UNCHANGED <<started, due, vdue, vset, phase, ended, bucket>>
        BY <1>5 DEF BootFrame
    <2>2. PaceTypes' /\ ~started
        BY <1>1, <2>1 DEF PaceTypes
    <2>3. BucketInv'
        BY <1>1, <2>1, <2>2 DEF BucketInv
    <2>4. VsyncInv'
        BY <1>1, <1>3, <2>1 DEF VsyncInv
    <2> QED
        BY <1>3, <2>2, <2>3, <2>4 DEF PaceInv
<1>6. CASE StartThread
    <2>1. at' = "wait" /\ at = "boot" /\ started' = TRUE /\ due' = Per
          /\ UNCHANGED <<vdue, vset, phase, ended, bucket>>
        BY <1>6 DEF StartThread
    <2>2. PaceTypes' /\ ~started
        BY <1>1, <1>4, <2>1 DEF PaceTypes
    <2>3. BucketInv'
        BY <1>1, <1>3, <1>4, <2>1, <2>2 DEF BucketInv
    <2>4. VsyncInv'
        BY <1>1, <1>3, <2>1 DEF VsyncInv
    <2> QED
        BY <1>3, <2>2, <2>3, <2>4 DEF PaceInv
<1>7. CASE BeginFrame
    <2>1. at' = "frame" /\ at = "wait" /\ due <= 0 /\ bucket' = bucket + Per
          /\ UNCHANGED <<started, due, vdue, vset, phase, ended>>
        BY <1>7 DEF BeginFrame
    <2>2. PaceTypes' /\ started
        BY <1>1, <1>4, <2>1 DEF PaceTypes
    <2>3. BucketInv'
        BY <1>1, <1>3, <1>4, <2>1, <2>2 DEF BucketInv, PaceTypes
    <2>4. VsyncInv'
        BY <1>1, <1>3, <2>1 DEF VsyncInv
    <2> QED
        BY <1>3, <2>2, <2>3, <2>4 DEF PaceInv
<1>8. CASE EndFrame
    <2>1. at = "frame" /\ Return /\ UNCHANGED <<vdue, vset, phase, ended>>
        BY <1>8 DEF EndFrame
    <2>2. BucketInv' /\ due' \in Int /\ bucket' = bucket /\ started' = started
          /\ at' = IF started THEN "wait" ELSE "boot"
        BY <1>1, <1>2, <2>1, ReturnKeeps
    <2>3. PaceTypes'
        BY <1>1, <2>1, <2>2 DEF PaceTypes
    <2>4. VsyncInv'
        BY <1>1, <1>3, <2>1, <2>2 DEF VsyncInv
    <2> QED
        BY <1>3, <2>2, <2>3, <2>4 DEF PaceInv
<1>9. CASE VsyncEnter
    <2>1. at' = "vsync" /\ at = "frame" /\ vset' = TRUE /\ UNCHANGED <<started, due, ended, bucket>>
        BY <1>9 DEF VsyncEnter
    <2>2. VsyncInv' /\ vdue' \in Int /\ phase' \in Nat
        BY <1>1, <1>2, <1>9, EnterKeeps
    <2>3. PaceTypes'
        BY <1>1, <2>1, <2>2 DEF PaceTypes
    <2>4. BucketInv'
        BY <1>1, <1>3, <2>1 DEF BucketInv
    <2> QED
        BY <1>3, <2>2, <2>3, <2>4 DEF PaceInv
<1>10. CASE VsyncLeave
    <2>1. at = "vsync" /\ Return /\ UNCHANGED <<vset, phase>>
        BY <1>10 DEF VsyncLeave
    <2>2. BucketInv' /\ due' \in Int /\ bucket' = bucket /\ started' = started
          /\ at' = IF started THEN "wait" ELSE "boot"
        BY <1>1, <1>2, <2>1, ReturnKeeps
    <2>3. VsyncInv' /\ vdue' \in Int /\ ended' = 1
        BY <1>1, <1>2, <1>10, LeaveKeeps
    <2>4. PaceTypes'
        BY <1>1, <2>1, <2>2, <2>3 DEF PaceTypes
    <2> QED
        BY <1>3, <2>2, <2>3, <2>4 DEF PaceInv
<1>11. CASE Tick
    BY <1>1, <1>2, <1>3, <1>11, TickKeeps DEF PaceInv
<1>12. CASE UNCHANGED <<paceVars, policy, timer>>
    BY <1>1, <1>3, <1>12 DEF PaceInv, PaceTypes, BucketInv, VsyncInv, paceVars
<1> QED
    BY <1>5, <1>6, <1>7, <1>8, <1>9, <1>10, <1>11, <1>12 DEF PaceNext, Paint

\* The thread never waits for longer than one frame, makes up for at most two frames that
\* it missed, and with vsync ends at most one frame between two refreshes: for every rate,
\* clock and length of the frames (compositor_thread_body(),
\* display_vsync_wait_after_present()).
THEOREM PaceSafety == PaceSpec => []FramesPaced
<1>1. PaceInv => FramesPaced
    <2> SUFFICES ASSUME PaceInv PROVE FramesPaced
        OBVIOUS
    <2>1. Per \in Nat \ {0}
        BY Periods DEF PaceInv
    <2>2. started => due <= Per
        BY <2>1 DEF PaceInv, PaceTypes, BucketInv
    <2>3. bucket <= 3 * Per
        BY <2>1 DEF PaceInv, PaceTypes, BucketInv
    <2>4. ended <= 1
        BY DEF PaceInv, VsyncInv
    <2> QED
        BY <2>2, <2>3, <2>4 DEF FramesPaced
<1> QED
    BY <1>1, PaceInitially, PaceStep, PTL DEF PaceSpec
=============================================================================
