----------------------------- MODULE Compositor -----------------------------
(***************************************************************************)
(* The compositor (compositor/compositor.c) with its surfaces (surface.c), *)
(* the display server's calls (gpu/display_server.c) and the copy to the   *)
(* front buffer (gpu/display.c): only what changed since the previous      *)
(* frame is repainted, so the screen is right only if damage tracking is.  *)
(*                                                                         *)
(* The screen is one row of Width cells.  A cell holds the background it   *)
(* was cleared to and the layers painted on it, bottom first, each with    *)
(* its surface, its look and its content: two cells are equal only if no   *)
(* blend of the layers can tell them apart.  `look' stands for alpha,      *)
(* opaque, corner_radius and visible; NoLook is invisible or alpha 0.      *)
(*                                                                         *)
(* The frame runs in the compositor thread.  Other threads may run between *)
(* its steps, except while it composes (the barrier, see ParallelCompose)  *)
(* and while it copies to the front buffer (interrupts off).               *)
(***************************************************************************)
EXTENDS Damage

CONSTANTS Client, Cursor,   \* surfaces with a user z, and at the cursor layer
          Width,            \* cells of the screen
          Span,             \* cells of a surface
          Places,           \* x positions surfaces are moved to
          Looks,            \* looks a surface may have, NoLook included
          NoLook,
          Colours,          \* desktop background colours
          UserMax,          \* SURFACE_Z_USER_MAX, INT32_MAX - 1 in the code
          ZMin,             \* bound on compositor_lower()
          MaxSlots,         \* COMPOSITOR_MAX_SURFACES, 64 in the code
          Workloads,        \* which calls the clients make, on which surfaces
          Interleaved,      \* do they also make them while a frame is running?
          ReAdd,            \* do they add a surface that they removed before?
          PartialAfterFull  \* do they mark a part of a surface that is all dirty?

Surface == Client \cup Cursor
CursorLayer == UserMax + 1
Cell == 0 .. Width - 1
Local == 0 .. Span - 1

ASSUME CompositorAssumption ==
    /\ Client \cap Cursor = {} /\ NoLook \in Looks
    /\ \A w \in Workloads : w.on \subseteq Surface
    /\ Width \in Nat \ {0} /\ Span \in Nat \ {0} /\ UserMax \in Nat /\ ZMin <= 0

VARIABLES
    surf,    \* the surfaces
    slots,   \* slots[0 .. slot_count)
    full,    \* full_damage_requested
    carry,   \* carry_damage
    bg,      \* thread_args.bg
    back,    \* the compositor's buffer
    front,   \* the frame buffer on screen
    pc,      \* where the frame is
    frame,   \* the frame's locals: its bg, damage, slot index and z-sorted list
    work,    \* the workload of this behaviour
    touched, \* history: a client changed something since this frame began
    gone     \* history: surfaces that were removed

vars == <<surf, slots, full, carry, bg, back, front, pc, frame, work, touched, gone>>

NoPixel == << >>
Strip(x, w) == RectMake(x, 0, w, 1)
Screen == Strip(0, Width)
Registered == Range(slots)
Contributes(look) == look # NoLook

\* surface_create(); the cursor sets its own z.
NewSurface(s) ==
    [x |-> 0, z |-> IF s \in Cursor THEN CursorLayer ELSE 0,
     look |-> CHOOSE l \in Looks : l # NoLook, pix |-> [c \in Local |-> 0],
     dirty |-> TRUE, part |-> Strip(0, 0), known |-> FALSE,
     px |-> 0, pz |-> 0, plook |-> NoLook]

\* compositor_init()
Init ==
    /\ surf = [s \in Surface |-> NewSurface(s)]
    /\ slots = << >> /\ full = TRUE /\ carry = << >> /\ bg \in Colours
    /\ back = [c \in Cell |-> NoPixel] /\ front = back
    /\ pc = "wait" /\ frame = [bg |-> bg, dmg |-> << >>, i |-> 0, order |-> << >>]
    /\ work \in Workloads /\ touched = TRUE /\ gone = {}

-----------------------------------------------------------------------------
(* What the clients do. *)

May(op) == op \in work.calls /\ (Interleaved \/ pc = "wait")
Touch == touched' = TRUE
ClientLeaves == UNCHANGED <<back, front, pc, frame, work>>
OnlySurf == Touch /\ ClientLeaves /\ UNCHANGED <<slots, full, carry, bg, gone>>

\* compositor_add()
CompositorAdd(s) ==
    /\ May("add") /\ s \notin Registered /\ (ReAdd \/ s \notin gone)
    /\ slots' = IF Len(slots) >= MaxSlots THEN slots ELSE Append(slots, s)
    /\ Touch /\ ClientLeaves /\ UNCHANGED <<surf, full, carry, bg, gone>>

\* The place the surface had in the last frame must be repainted.
Hole(s) == IF surf[s].known THEN DamageAdd(carry, Strip(surf[s].px, Span)) ELSE carry

\* compositor_remove()
CompositorRemove(s) ==
    /\ May("remove") /\ s \in Registered
    /\ carry' = Hole(s)
    /\ slots' = SelectSeq(slots, LAMBDA t : t # s)
    /\ gone' = gone \cup {s}
    /\ Touch /\ ClientLeaves /\ UNCHANGED <<surf, full, bg>>

\* surface_move()
Move(s, x) ==
    /\ May("move") /\ surf[s].x # x
    /\ surf' = [surf EXCEPT ![s].x = x]
    /\ OnlySurf

\* surface_show(), surface_set_alpha(), surface_set_corner_radius()
Show(s, look) ==
    /\ May("show") /\ surf[s].look # look
    /\ surf' = [surf EXCEPT ![s].look = look]
    /\ OnlySurf

\* Variant without the clamp.
ClampNone(z) == z

Clamp(z) == MinOf(z, UserMax)

\* surface_set_z(); the cursor keeps the layer it gave itself.
SetZ(s, z) ==
    /\ May("z") /\ s \in Client
    /\ surf' = [surf EXCEPT ![s].z = Clamp(z)]
    /\ OnlySurf

\* display_server_surface_place()
PlaceAt(s, x, z) == surf' = [surf EXCEPT ![s].x = x, ![s].z = Clamp(z)]
SurfacePlace(s, x, z) ==
    /\ May("place") /\ s \in Client
    /\ PlaceAt(s, x, z)
    /\ OnlySurf

\* display_server_surface_submit(): placed also if it is there already or there is no
\* slot for it.
SurfaceSubmit(s, x, z) ==
    /\ May("submit") /\ s \in Client /\ (ReAdd \/ s \notin gone)
    /\ PlaceAt(s, x, z)
    /\ slots' = IF s \in Registered \/ Len(slots) >= MaxSlots THEN slots ELSE Append(slots, s)
    /\ Touch /\ ClientLeaves /\ UNCHANGED <<full, carry, bg, gone>>

UserZ == {surf[s].z : s \in {t \in Registered : surf[t].z < CursorLayer}}
TopZUser == IF UserZ = {} THEN 0 ELSE CHOOSE z \in UserZ : \A y \in UserZ : y <= z
BottomZUser == IF UserZ = {} THEN 0 ELSE CHOOSE z \in UserZ : \A y \in UserZ : z <= y

\* compositor_raise()
Raise(s) ==
    /\ May("raise") /\ surf[s].z < CursorLayer
    /\ surf' = [surf EXCEPT ![s].z = Clamp(TopZUser + 1)]
    /\ OnlySurf

\* compositor_lower()
Lower(s) ==
    /\ May("lower") /\ surf[s].z < CursorLayer /\ BottomZUser > ZMin
    /\ surf' = [surf EXCEPT ![s].z = BottomZUser - 1]
    /\ OnlySurf

\* surface_mark_dirty(): all of it, no partial rectangle.
AllDirty(s) == [s EXCEPT !.dirty = TRUE, !.part = Strip(0, 0)]

\* surface_clear(), or a client that draws everywhere and marks the surface.
Paint(s) ==
    /\ May("paint")
    /\ surf' = [surf EXCEPT ![s] = AllDirty(
                   [@ EXCEPT !.pix = [c \in Local |-> 1 - @[c]]])]
    /\ OnlySurf

\* surface_mark_dirty_rect(): grows the partial rectangle, or starts one.
PartDirty(s, r) == [s EXCEPT !.dirty = TRUE, !.part = RectUnion(@, r)]

\* A client that draws one cell and marks it.
PaintCell(s, c) ==
    /\ May("cell")
    /\ PartialAfterFull \/ ~surf[s].known \/ ~surf[s].dirty \/ ~RectEmpty(surf[s].part)
    /\ surf' = [surf EXCEPT ![s] = PartDirty([@ EXCEPT !.pix[c] = 1 - @], Strip(c, 1))]
    /\ OnlySurf

\* compositor_set_desktop_bg()
SetDesktopBg(colour) ==
    /\ May("bg") /\ colour # bg
    /\ bg' = colour /\ full' = TRUE
    /\ Touch /\ ClientLeaves /\ UNCHANGED <<surf, slots, carry, gone>>

\* compositor_mark_full_damage()
MarkFullDamage ==
    /\ May("full") /\ ~full
    /\ full' = TRUE
    /\ ClientLeaves /\ UNCHANGED <<surf, slots, carry, bg, touched, gone>>

-----------------------------------------------------------------------------
(* compositor_frame() *)

FrameLeaves == UNCHANGED <<bg, work, touched, gone>>
At(here, there) == pc = here /\ pc' = there

\* The call, with the colour of that moment.
Begin ==
    /\ At("wait", "full")
    /\ frame' = [bg |-> bg, dmg |-> << >>, i |-> 1, order |-> << >>]
    /\ touched' = FALSE
    /\ UNCHANGED <<surf, slots, full, carry, bg, back, front, work, gone>>

TakeFull ==
    /\ At("full", "carry")
    /\ frame' = IF full THEN [frame EXCEPT !.dmg = DamageAdd(@, Screen)] ELSE frame
    /\ full' = FALSE
    /\ FrameLeaves /\ UNCHANGED <<surf, slots, carry, back, front>>

MergeCarry ==
    /\ At("carry", "reset")
    /\ frame' = [frame EXCEPT !.dmg = FoldLeft(DamageAdd, @, carry)]
    /\ FrameLeaves /\ UNCHANGED <<surf, slots, full, carry, back, front>>

ResetCarry ==
    /\ At("reset", "walk")
    /\ carry' = << >>
    /\ FrameLeaves /\ UNCHANGED <<surf, slots, full, back, front, frame>>

\* surface_geom_matches_prev()
GeomMatches(s) == s.known /\ s.x = s.px /\ s.z = s.pz /\ s.look = s.plook

\* Variant that forgets the old place.
ChangedDamageNew(s) == IF Contributes(s.look) THEN <<Strip(s.x, Span)>> ELSE << >>

\* The damage of a surface that changed: where it was and where it is.
ChangedDamage(s) ==
    (IF s.known /\ Contributes(s.plook) THEN <<Strip(s.px, Span)>> ELSE << >>)
    \o (IF Contributes(s.look) THEN <<Strip(s.x, Span)>> ELSE << >>)

PartDamage(s) == IF Contributes(s.look) THEN <<Strip(s.x + s.part.x, s.part.w)>> ELSE << >>

\* What one surface adds; nothing unless surface_changed().
SurfaceDamage(s) ==
    IF s.dirty /\ ~RectEmpty(s.part) /\ GeomMatches(s) THEN PartDamage(s)
    ELSE IF s.dirty \/ ~GeomMatches(s) THEN ChangedDamage(s)
    ELSE << >>

Walk ==
    /\ pc = "walk" /\ frame.i <= Len(slots)
    /\ frame' = [frame EXCEPT !.i = @ + 1,
                    !.dmg = FoldLeft(DamageAdd, @, SurfaceDamage(surf[slots[frame.i]]))]
    /\ FrameLeaves /\ UNCHANGED <<surf, slots, full, carry, back, front, pc>>

ClipDamage ==
    /\ pc = "walk" /\ frame.i > Len(slots)
    /\ frame' = [frame EXCEPT !.dmg = DamageClip(@, Screen)]
    /\ pc' = IF frame'.dmg = << >> THEN "idle" ELSE "sort"
    /\ FrameLeaves /\ UNCHANGED <<surf, slots, full, carry, back, front>>

\* Nothing to draw: no snapshot either.
IdleFrame ==
    /\ At("idle", "wait")
    /\ FrameLeaves /\ UNCHANGED <<surf, slots, full, carry, back, front, frame>>

Below(i, j) ==
    \/ surf[slots[i]].z < surf[slots[j]].z
    \/ surf[slots[i]].z = surf[slots[j]].z /\ i < j

\* sort_indices(), a stable sort by z.
SortIndices == [k \in DOMAIN slots |->
    slots[CHOOSE i \in DOMAIN slots : Cardinality({j \in DOMAIN slots : Below(j, i)}) = k - 1]]

SortSlots ==
    /\ At("sort", "compose")
    /\ frame' = [frame EXCEPT !.order = SortIndices]
    /\ FrameLeaves /\ UNCHANGED <<surf, slots, full, carry, back, front>>

\* The pixel that painting `order' bottom to top leaves in cell c.
Painted(order, colour, c) ==
    LET on == SelectSeq(order, LAMBDA s : Contributes(surf[s].look)
                                          /\ Covers(Strip(surf[s].x, Span), c, 0))
    IN <<colour>> \o [k \in DOMAIN on |->
          <<on[k], surf[on[k]].look, surf[on[k]].pix[c - surf[on[k]].x]>>]

\* parallel_compose(): every damaged cell is cleared and painted again.
Compose ==
    /\ At("compose", "present")
    /\ back' = [c \in Cell |-> IF Covered(frame.dmg, c, 0)
                               THEN Painted(frame.order, frame.bg, c) ELSE back[c]]
    /\ FrameLeaves /\ UNCHANGED <<surf, slots, full, carry, front, frame>>

Published == {c \in Cell : Covered(frame.dmg, c, 0)}

\* display_present_damage()
PresentDamage ==
    /\ At("present", "snapshot")
    /\ front' = [c \in Cell |-> IF c \in Published THEN back[c] ELSE front[c]]
    /\ FrameLeaves /\ UNCHANGED <<surf, slots, full, carry, back, frame>>

\* What phase 4 remembers of a surface.
Seen(s) == [s EXCEPT !.known = TRUE, !.px = s.x, !.pz = s.z, !.plook = s.look,
                     !.dirty = FALSE, !.part = Strip(0, 0)]

Snapshot ==
    /\ At("snapshot", "wait")
    /\ surf' = [s \in Surface |-> IF s \in Registered THEN Seen(surf[s]) ELSE surf[s]]
    /\ FrameLeaves /\ UNCHANGED <<slots, full, carry, back, front, frame>>

FrameStep ==
    \/ Begin \/ TakeFull \/ MergeCarry \/ ResetCarry \/ Walk \/ ClipDamage
    \/ IdleFrame \/ SortSlots \/ Compose \/ PresentDamage \/ Snapshot

ClientStep ==
    \/ \E s \in work.on : \/ CompositorAdd(s) \/ CompositorRemove(s)
                          \/ Raise(s) \/ Lower(s) \/ Paint(s)
                          \/ \E x \in Places : Move(s, x)
                          \/ \E l \in Looks : Show(s, l)
                          \/ \E z \in 0 .. UserMax + 1 : SetZ(s, z)
                          \/ \E c \in Local : PaintCell(s, c)
                          \/ \E x \in Places, z \in {0, UserMax + 1} :
                                SurfaceSubmit(s, x, z) \/ SurfacePlace(s, x, z)
    \/ \E colour \in Colours : SetDesktopBg(colour)
    \/ MarkFullDamage

Next == FrameStep \/ ClientStep
Spec == Init /\ [][Next]_vars

-----------------------------------------------------------------------------
(* Properties. *)

\* A full repaint of what is registered now.
Scene == [c \in Cell |-> Painted(SortIndices, bg, c)]

\* When a frame has ended and nothing changed since it began, the screen shows
\* what a full repaint would: "the next compositor_frame() picks them up"
\* (surface.h), whatever was moved, restacked, hidden, painted, added or removed for
\* good in frames before, and whichever of them compositor_frame() found idle.
ScreenShowsScene == (pc = "wait" /\ ~touched) => front = Scene

\* No user surface is painted over the cursor, however often compositor_raise()
\* and surface_set_z() are called.
CursorOnTop ==
    \A c \in Cell : \A i, j \in DOMAIN front[c] :
        (1 < i /\ i < j /\ front[c][i][1] \in Cursor) => front[c][j][1] \in Cursor

=============================================================================
