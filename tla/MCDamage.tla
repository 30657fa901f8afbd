------------------------------ MODULE MCDamage ------------------------------
(***************************************************************************)
(* One accumulator through a frame: any rectangles of a small plane added  *)
(* in any order, then clipped to the screen.                               *)
(***************************************************************************)
EXTENDS Damage

CONSTANTS Width, Height,  \* the screen; rectangles may stick out of it
          Sides           \* widths and heights, 0 included

VARIABLES list,   \* the accumulator
          marked, \* history: the pixels of all rectangles added since the reset
          bound   \* history: screen clipping done

vars == <<list, marked, bound>>

Plane == (-1 .. Width) \X (0 .. Height)
Screen == RectMake(0, 0, Width, Height)
Inputs == {RectMake(x, y, w, h) : x \in -1 .. Width - 1, y \in 0 .. Height - 1,
                                  w \in Sides, h \in Sides}
PixelsOf(r) == {p \in Plane : Covers(r, p[1], p[2])}

Init == list = << >> /\ marked = {} /\ bound = FALSE

Reset ==
    /\ list' = << >> /\ marked' = {} /\ bound' = FALSE

Add(r) ==
    /\ ~bound
    /\ list' = DamageAdd(list, r)
    /\ marked' = marked \cup PixelsOf(r)
    /\ UNCHANGED bound

Clip ==
    /\ list' = DamageClip(list, Screen)
    /\ marked' = {p \in marked : Covers(Screen, p[1], p[2])}
    /\ bound' = TRUE

Next == Reset \/ Clip \/ \E r \in Inputs : Add(r)
Spec == Init /\ [][Next]_vars

\* Whatever is added, in whatever order, damage_add() leaves a list that still
\* covers every pixel that must be redrawn, also after damage_clip().
NothingLost == \A p \in marked : Covered(list, p[1], p[2])

\* The rectangles of the list never overlap, also when a merged rectangle grows
\* into others: damage_area_sum(), the damage_px statistic, counts every covered
\* pixel once.
AreaIsPixels ==
    DamageAreaSum(list) = Cardinality({p \in Plane : Covered(list, p[1], p[2])})

=============================================================================
