------------------------------- MODULE Damage -------------------------------
(***************************************************************************)
(* The damage accumulator (compositor/damage.c): at most MaxRects          *)
(* rectangles, kept apart by merging, collapsed to one when they run out.  *)
(***************************************************************************)
EXTENDS Rect, Sequences, FiniteSets, SequencesExt

CONSTANT MaxRects   \* DAMAGE_MAX_RECTS, 16 in the code

ASSUME DamageAssumption == MaxRects \in Nat \ {0}

\* The last entry takes the place of entry i.
SwapRemove(d, i) == SubSeq([d EXCEPT ![i] = d[Len(d)]], 1, Len(d) - 1)

FirstOverlap(d, r) ==
    LET hits == {i \in DOMAIN d : RectOverlaps(d[i], r)}
    IN IF hits = {} THEN 0 ELSE CHOOSE i \in hits : \A j \in hits : i <= j

\* The merge loop: until r overlaps no entry, it swallows the first it overlaps.
RECURSIVE MergeAll(_, _)
MergeAll(d, r) ==
    LET i == FirstOverlap(d, r)
    IN IF i = 0 THEN <<d, r>> ELSE MergeAll(SwapRemove(d, i), RectUnion(d[i], r))

UnionOf(first, rest) == FoldLeft(RectUnion, first, rest)

\* The list is full: rects[0] = r, then every other entry is united with it.
Overflow(d, r) == <<UnionOf(r, Tail(d))>>

DamageAdd(d, r) ==
    IF RectEmpty(r) THEN d
    ELSE LET m == MergeAll(d, r)
         IN IF Len(m[1]) >= MaxRects THEN Overflow(m[1], m[2])
            ELSE Append(m[1], m[2])

DamageClip(d, bounds) ==
    LET cut == [i \in DOMAIN d |-> RectIntersect(d[i], bounds)]
    IN SelectSeq(cut, LAMBDA r : ~RectEmpty(r))

DamageAreaSum(d) == FoldLeft(LAMBDA sum, r : sum + r.w * r.h, 0, d)

Covered(d, px, py) == \E i \in DOMAIN d : Covers(d[i], px, py)

=============================================================================
