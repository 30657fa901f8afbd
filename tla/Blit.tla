-------------------------------- MODULE Blit --------------------------------
(***************************************************************************)
(* The pixels: clipping, copying, blending and rounded corners             *)
(* (compositor/blit.c), the row kernels for SSE2 and AVX2                  *)
(* (compositor/blit_simd.c), and compose_band() (compositor/parallel.c),   *)
(* which makes a picture of them.                                          *)
(*                                                                         *)
(* The three colour channels are treated alike, so a pixel of a surface is *)
(* its alpha and one channel, [a, c], and a pixel of the screen, whose     *)
(* alpha is ignored, one channel.                                          *)
(***************************************************************************)
EXTENDS Rect, Sequences, SequencesExt

CONSTANT Jobs \* what is painted: [kind, pic, bands, damage, surfaces, bg], rows to blend, or a root

VARIABLES
    job,
    picture, \* the compositor's buffer: picture[y][x]
    todo     \* bands that no CPU has taken

blitVars == <<job, picture, todo>>

Isas == {"none", "sse2", "avx2"}

-----------------------------------------------------------------------------
(* Clipping, on one axis: w pixels from x, of which those from lo to hi - 1 are kept.     *)

\* effective_clip(): the screen's pixels that the scissor leaves.
EffectiveClip(size, x, w) ==
    [lo |-> MaxOf(x, 0), hi |-> MinOf(x + w, size)]

\* clip_rect(): where the rest begins, how long it is, and what was cut off in front.  The
\* variant forgets to advance in the source.
ClipSpanLag(x, w, c) ==
    LET left == IF x < c.lo THEN c.lo ELSE x
        rest == w - (left - x)
    IN  [x |-> left, w |-> IF left + rest > c.hi THEN c.hi - left ELSE rest, s |-> 0]
ClipSpan(x, w, c) ==
    LET left == IF x < c.lo THEN c.lo ELSE x
        rest == w - (left - x)
    IN  [x |-> left, w |-> IF left + rest > c.hi THEN c.hi - left ELSE rest, s |-> left - x]

Survives(w, c, r) == c.lo < c.hi /\ w > 0 /\ r.x < c.hi /\ r.w > 0

-----------------------------------------------------------------------------
(* Arithmetic. *)

Mul8(a, b) == LET t == a * b + 128 IN (t + t \div 256) \div 256

\* mul8_sse2() and mul8_avx2() of a product, in lanes of 16 bits
LaneMul8(a, b) ==
    LET t == (((a * b) % 65536) + 128) % 65536
    IN  ((t + t \div 256) % 65536) \div 256

\* isqrt_u32(), from the highest power of four down
ISqrt(x) ==
    FoldLeft(LAMBDA r, k : LET bit == 4^(16 - k)
                               take == r.x >= r.r + bit
                           IN  [x |-> IF take THEN r.x - (r.r + bit) ELSE r.x,
                                r |-> r.r \div 2 + IF take THEN bit ELSE 0],
             [x |-> x, r |-> 0], [k \in 1 .. 16 |-> k]).r

\* rounded_corner_mask(): how much of the pixel is inside, in 255ths
CornerMask(lx, ly, w, h, r) ==
    LET left == lx < r
        top == ly < r
        corner == r > 0 /\ (left \/ lx >= w - r) /\ (top \/ ly >= h - r)
        dx == lx * 16 + 8 - (IF left THEN 2 * r - 1 ELSE 2 * (w - r) + 1) * 8
        dy == ly * 16 + 8 - (IF top THEN 2 * r - 1 ELSE 2 * (h - r) + 1) * 8
        d == ISqrt(dx * dx + dy * dy)
        m == ((r * 16 + 8 - d) * 255 + 8) \div 16
    IN  IF ~corner \/ d + 8 <= r * 16 THEN 255
        ELSE IF d >= r * 16 + 8 THEN 0
        ELSE IF m > 255 THEN 255 ELSE m

-----------------------------------------------------------------------------
(* One pixel of the screen d under one of a surface s. *)

Saturate(n) == IF n > 255 THEN 255 ELSE n
Blend(d, c, a) == IF a = 0 THEN d ELSE IF a = 255 THEN c ELSE Saturate(Mul8(c, a) + Mul8(d, 255 - a))

CopyMaskedPx(d, s, mask) == Blend(d, s.c, mask)
AlphaMaskedPx(d, s, ga, mask) == Blend(d, s.c, Mul8(Mul8(s.a, ga), mask))
ScalarAlphaPx(d, s, ga) == Blend(d, s.c, Mul8(s.a, ga))

\* A pixel in the lanes: no branches, and the sum is packed with saturation.
LanePx(d, s, ga) ==
    LET a == LaneMul8(s.a, ga)
    IN  Saturate((LaneMul8(s.c, a) + LaneMul8(d, (255 - a) % 65536)) % 65536)

\* Rows: groups of eight, groups of four, and the rest one by one.
Sse2Row(d, s, ga, from) ==
    LET n == Len(d) - from
    IN  [i \in 1 .. n |-> IF i <= 4 * (n \div 4) THEN LanePx(d[from + i], s[from + i], ga)
                          ELSE ScalarAlphaPx(d[from + i], s[from + i], ga)]
Avx2Row(d, s, ga) ==
    LET wide == 8 * (Len(d) \div 8)
    IN  [i \in 1 .. wide |-> LanePx(d[i], s[i], ga)] \o Sse2Row(d, s, ga, wide)
AlphaRow(isa, d, s, ga) ==
    CASE isa = "avx2" -> Avx2Row(d, s, ga)
      [] isa = "sse2" -> Sse2Row(d, s, ga, 0)
      [] isa = "none" -> [i \in DOMAIN d |-> AlphaMaskedPx(d[i], s[i], ga, 255)]
CopyRow(d, s) == [i \in DOMAIN d |-> s[i].c]

-----------------------------------------------------------------------------
(* Pictures: pic[y][x].  A surface is [x, y, w, h, px, opaque, alpha, radius, visible]. *)

\* The row of a surface whose local row is ly, from sx on, over the screen's row d.
PaintRow(isa, s, d, ly, sx) ==
    LET src == [i \in DOMAIN d |-> s.px[ly][sx + i - 1]]
        Mask(i) == CornerMask(sx + i - 1, ly, s.w, s.h, s.radius)
    IN  IF s.radius = 0 \/ ~(ly < s.radius \/ ly >= s.h - s.radius)
        THEN IF s.opaque THEN CopyRow(d, src) ELSE AlphaRow(isa, d, src, s.alpha)
        ELSE [i \in DOMAIN d |-> IF s.opaque THEN CopyMaskedPx(d[i], src[i], Mask(i))
                                 ELSE AlphaMaskedPx(d[i], src[i], s.alpha, Mask(i))]

\* What all six primitives share: what is left of the rectangle r, across and down, and the
\* picture with the row rows[y] in it for each y of that.
Clipped(size, sub, r) ==
    LET cx == EffectiveClip(size[1], sub.x, sub.w)
        cy == EffectiveClip(size[2], sub.y, sub.h)
        h == ClipSpan(r.x, r.w, cx)
        v == ClipSpan(r.y, r.h, cy)
    IN  [h |-> h, v |-> v, left |-> Survives(r.w, cx, h) /\ Survives(r.h, cy, v)]
Columns(c) == c.h.x .. c.h.x + c.h.w - 1
PicRows(c) == c.v.x .. c.v.x + c.v.w - 1
Repaint(pic, c, rows) ==
    IF ~c.left THEN pic
    ELSE [y \in DOMAIN pic |-> [x \in DOMAIN pic[y] |->
             IF y \in PicRows(c) /\ x \in Columns(c) THEN rows[y][x - c.h.x + 1] ELSE pic[y][x]]]

Fill(pic, size, sub, bg) ==
    LET c == Clipped(size, sub, sub)
    IN  Repaint(pic, c, [y \in PicRows(c) |-> [i \in 1 .. c.h.w |-> bg]])
BlitSurface(isa, pic, size, sub, s) ==
    LET c == Clipped(size, sub, s)
        Under(y) == [i \in 1 .. c.h.w |-> pic[y][c.h.x + i - 1]]
    IN  IF ~s.opaque /\ s.alpha = 0 THEN pic
        ELSE Repaint(pic, c, [y \in PicRows(c) |-> PaintRow(isa, s, Under(y), c.v.s + y - c.v.x, c.h.s)])

\* compose_band(): surfaces are sorted bottom to top.
ComposeRect(isa, pic, size, sub, surfaces, bg) ==
    FoldLeft(LAMBDA p, s : IF ~s.visible \/ s.alpha = 0 \/ ~RectOverlaps(s, sub) THEN p
                           ELSE BlitSurface(isa, p, size, sub, s),
             Fill(pic, size, sub, bg), surfaces)
ComposeBand(isa, pic, size, band, damage, surfaces, bg) ==
    FoldLeft(LAMBDA p, r : IF RectEmpty(RectIntersect(r, band)) THEN p
                           ELSE ComposeRect(isa, p, size, RectIntersect(r, band), surfaces, bg),
             pic, damage)

-----------------------------------------------------------------------------
(* The CPUs take the bands in any order, and need not have the same kernels. *)

Size == <<Len(job.pic[1]), Len(job.pic)>>
Start == [y \in 0 .. Size[2] - 1 |-> [x \in 0 .. Size[1] - 1 |-> job.pic[y + 1][x + 1]]]

BlitInit ==
    /\ job \in Jobs
    /\ picture = IF job.kind = "frame" THEN Start ELSE <<>>
    /\ todo = IF job.kind = "frame" THEN DOMAIN job.bands ELSE {}

TakeBand ==
    /\ \E i \in todo, isa \in Isas :
          /\ todo' = todo \ {i}
          /\ picture' = ComposeBand(isa, picture, Size, job.bands[i], job.damage, job.surfaces, job.bg)
    /\ UNCHANGED job

-----------------------------------------------------------------------------
(* Properties. *)

\* A pixel of the scene: every surface that is there, from the bottom to the top.
ScenePx(x, y) ==
    FoldLeft(LAMBDA d, s :
                IF ~s.visible \/ s.alpha = 0 \/ ~Covers(s, x, y) THEN d
                ELSE LET px == s.px[y - s.y][x - s.x]
                         mask == CornerMask(x - s.x, y - s.y, s.w, s.h, s.radius)
                     IN  IF s.opaque THEN CopyMaskedPx(d, px, mask) ELSE AlphaMaskedPx(d, px, s.alpha, mask),
             job.bg, job.surfaces)
Damaged(x, y) == \E i \in DOMAIN job.damage : Covers(job.damage[i], x, y)

\* However the damage is cut into rectangles and bands, in whatever order and with
\* whichever row kernels they are painted, the damaged pixels are those of the scene and
\* all others stay as they were; the kernels agree in the lanes and in the tail of a row
\* ("switching between SSE2, AVX2 and scalar produces the same framebuffer"); the root
\* that rounds the corners is exact.
BlitExact ==
    CASE job.kind = "frame" ->
            todo = {} => picture = [y \in DOMAIN Start |-> [x \in DOMAIN Start[y] |->
                                       IF Damaged(x, y) THEN ScenePx(x, y) ELSE Start[y][x]]]
      [] job.kind = "row" -> \A isa \in Isas : AlphaRow(isa, job.d, job.s, job.ga) = AlphaRow("none", job.d, job.s, job.ga)
      [] job.kind = "root" -> \A n \in job.range : LET r == ISqrt(n) IN r * r <= n /\ n < (r + 1) * (r + 1)
      [] OTHER -> TRUE
=============================================================================
