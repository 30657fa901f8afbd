------------------------------- MODULE Pacing -------------------------------
(***************************************************************************)
(* When frames are painted: the loop of the compositor thread              *)
(* (compositor/compositor.c) and the wait for the next refresh at the end  *)
(* of each compositor_frame() (gpu/display.c), with the rates of           *)
(* DisplayPolicy.  The clock is the TSC, or the timer's ticks if the TSC   *)
(* was not calibrated.                                                     *)
(*                                                                         *)
(* Deadlines are kept as the time left until they are met, so the clock    *)
(* itself has no bound.  A deadline that was missed by so much that no     *)
(* comparison of the code tells it from a nearer one is moved to that one. *)
(***************************************************************************)
EXTENDS DisplayPolicy

CONSTANTS
    PerFloor,   \* 1000: fewest cycles of a frame
    VsyncFloor  \* 2000: fewest cycles of a refresh

ASSUME PacingAssumption == PerFloor \in Nat \ {0} /\ VsyncFloor \in Nat \ {0}

VARIABLES
    policy,     \* g_pol
    timer,      \* timer_hz and tsc_hz, as TimerInit left them
    at,         \* where the painting thread is
    bootFrames, \* frames kmain() has to paint before it starts the thread
    started,    \* compositor_start() was called
    due,        \* next_tsc or next_tick, less the clock
    vdue,       \* vsync_next_tsc, less the clock
    vset,       \* vsync_next_tsc # 0
    \* history: place of the clock between two refreshes, frames that ended since the
    \* last one; a bucket filled by each frame of the thread and emptied by the clock
    phase, ended, bucket

paceVars == <<at, bootFrames, started, due, vdue, vset, phase, ended, bucket>>

TscOn == timer.tsc # 0
VsyncOn == policy.vsync = "1" /\ TscOn

\* tsc_per_frame or fpt, and the time of one refresh
Per == LET target == CompositorHz(policy.refresh_hz)
       IN  IF TscOn THEN Max({timer.tsc \div target, PerFloor}) ELSE Max({timer.hz \div target, 1})
VPer == Max({timer.tsc \div Clamp(policy.refresh_hz, 30, 360), VsyncFloor})

\* while (now >= vsync_next_tsc) vsync_next_tsc += per
CatchUp(left) == IF left <= 0 THEN left + VPer * ((-left) \div VPer + 1) ELSE left

-----------------------------------------------------------------------------

PacingInit ==
    /\ at = "boot" /\ bootFrames = 2 /\ started = FALSE
    /\ due = 0 /\ vdue = 0 /\ vset = FALSE
    /\ phase = 0 /\ ended = 0 /\ bucket = 0

\* kmain() calls compositor_frame() itself.
BootFrame ==
    /\ at = "boot" /\ bootFrames > 0
    /\ bootFrames' = bootFrames - 1 /\ at' = "frame"
    /\ UNCHANGED <<started, due, vdue, vset, phase, ended, bucket>>

\* compositor_start(), and the thread up to its loop
StartThread ==
    /\ at = "boot" /\ bootFrames = 0
    /\ started' = TRUE /\ at' = "wait" /\ due' = Per
    /\ UNCHANGED <<bootFrames, vdue, vset, phase, ended, bucket>>

\* The thread has waited for its deadline.
BeginFrame ==
    /\ at = "wait" /\ due <= 0
    /\ at' = "frame" /\ bucket' = bucket + Per
    /\ UNCHANGED <<bootFrames, started, due, vdue, vset, phase, ended>>

\* The next deadline.  One that was missed by too much is given up (cs_drops); the
\* variant runs after all of them.
NextDueAll == due + Per
NextDue ==
    LET late == IF TscOn THEN due + Per < -Per ELSE due < -Per
    IN  IF late THEN Per ELSE due + Per

\* compositor_frame() returns.
Return ==
    /\ at' = IF started THEN "wait" ELSE "boot"
    /\ due' = IF started THEN NextDue ELSE due
    /\ UNCHANGED <<bootFrames, started, bucket>>

\* Without vsync the frame is over when it was presented or there was no damage.
EndFrame ==
    /\ at = "frame" /\ ~VsyncOn
    /\ Return
    /\ UNCHANGED <<vdue, vset, phase, ended>>

\* display_vsync_wait_after_present(), up to the wait
VsyncEnter ==
    /\ at = "frame" /\ VsyncOn
    /\ at' = "vsync" /\ vset' = TRUE
    /\ vdue' = CatchUp(IF vset THEN vdue ELSE VPer)
    /\ phase' = IF vset THEN phase ELSE 0
    /\ UNCHANGED <<bootFrames, started, due, ended, bucket>>

\* ... and behind it
VsyncLeave ==
    /\ at = "vsync" /\ vdue <= 0
    /\ vdue' = CatchUp(vdue + VPer)
    /\ ended' = ended + 1
    /\ Return
    /\ UNCHANGED <<vset, phase>>

\* The clock goes on, as the painting thread works or others run.
Tick ==
    LET next == (phase + 1) % VPer
    IN  /\ due' = IF started THEN Max({due - 1, -4 * Per}) ELSE due
        /\ vdue' = IF ~vset THEN vdue ELSE IF vdue <= -3 * VPer THEN vdue + VPer - 1 ELSE vdue - 1
        /\ phase' = IF vset THEN next ELSE 0
        /\ ended' = IF next = 0 THEN 0 ELSE ended
        /\ bucket' = Max({bucket - 1, 0})
        /\ UNCHANGED <<at, bootFrames, started, vset>>

Paint == BootFrame \/ StartThread \/ BeginFrame \/ EndFrame \/ VsyncEnter \/ VsyncLeave

-----------------------------------------------------------------------------
(* Properties. *)

\* The thread keeps its pace: it never waits longer than one frame, and however late it
\* gets, it makes up for at most two frames, so that never more than three begin within
\* the time of one (compositor_thread_body; "the deadline is snapped forward").  With vsync
\* at most one frame ends between two refreshes, wherever the thread was preempted and
\* however long the frame took (display_vsync_wait_after_present).
FramesPaced ==
    /\ started => due <= Per
    /\ bucket <= 3 * Per
    /\ ended <= 1
=============================================================================
