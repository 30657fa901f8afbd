----------------------------- MODULE FramePaint -----------------------------
(***************************************************************************)
(* What parallel_compose() promises to its caller, compositor_frame():     *)
(* between the call and its return every band of the frame is painted      *)
(* exactly once, and nothing is painted outside a call (the damage list    *)
(* and the z-sorted surface array live on the caller's stack).             *)
(***************************************************************************)
EXTENDS Integers

CONSTANT MaxBands    \* PARALLEL_MAX_BANDS

VARIABLES composing, \* TRUE between the call and the return
          bandCount, \* bands of the current (or last) frame; 0: no damage
          painted    \* how often each band of the frame has been painted

paintVars == <<composing, bandCount, painted>>

BandIds == 0 .. MaxBands - 1

PaintInit ==
    /\ composing = FALSE
    /\ bandCount = 0
    /\ painted = [b \in BandIds |-> 0]

Call(n) ==
    /\ ~composing
    /\ composing' = TRUE
    /\ bandCount' = n
    /\ painted' = [b \in BandIds |-> 0]

Paint(b) ==
    /\ composing
    /\ b < bandCount
    /\ painted[b] = 0
    /\ painted' = [painted EXCEPT ![b] = 1]
    /\ UNCHANGED <<composing, bandCount>>

Return ==
    /\ composing
    /\ \A b \in BandIds : b < bandCount => painted[b] = 1
    /\ composing' = FALSE
    /\ UNCHANGED <<bandCount, painted>>

PaintNext ==
    \/ \E n \in 0 .. MaxBands : Call(n)
    \/ \E b \in BandIds : Paint(b)
    \/ Return

PaintSpec == PaintInit /\ [][PaintNext]_paintVars

=============================================================================
