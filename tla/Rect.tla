-------------------------------- MODULE Rect --------------------------------
(***************************************************************************)
(* Screen rectangles (compositor/rect.h).  Coordinates are integers: the   *)
(* callers keep them far from the ends of int32_t.                         *)
(***************************************************************************)
EXTENDS Integers

Rects == [x : Int, y : Int, w : Int, h : Int]

RectMake(x, y, w, h) == [x |-> x, y |-> y, w |-> w, h |-> h]
RectEmpty(r) == r.w <= 0 \/ r.h <= 0

MinOf(a, b) == IF a < b THEN a ELSE b
MaxOf(a, b) == IF a > b THEN a ELSE b

\* The pixels of a rectangle.
Covers(r, px, py) == r.x <= px /\ px < r.x + r.w /\ r.y <= py /\ py < r.y + r.h

\* The smallest rectangle around both.
RectUnion(a, b) ==
    IF RectEmpty(a) THEN b
    ELSE IF RectEmpty(b) THEN a
    ELSE LET x0 == MinOf(a.x, b.x)
             y0 == MinOf(a.y, b.y)
             x1 == MaxOf(a.x + a.w, b.x + b.w)
             y1 == MaxOf(a.y + a.h, b.y + b.h)
         IN RectMake(x0, y0, x1 - x0, y1 - y0)

\* The common part; empty at the origin if there is none.
RectIntersect(r, c) ==
    LET x0 == MaxOf(r.x, c.x)
        y0 == MaxOf(r.y, c.y)
        x1 == MinOf(r.x + r.w, c.x + c.w)
        y1 == MinOf(r.y + r.h, c.y + c.h)
    IN IF x1 <= x0 \/ y1 <= y0 THEN RectMake(0, 0, 0, 0)
       ELSE RectMake(x0, y0, x1 - x0, y1 - y0)

RectOverlaps(a, b) ==
    ~( \/ a.x + a.w <= b.x \/ b.x + b.w <= a.x
       \/ a.y + a.h <= b.y \/ b.y + b.h <= a.y)

=============================================================================
