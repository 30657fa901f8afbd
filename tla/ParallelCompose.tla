--------------------------- MODULE ParallelCompose ---------------------------
(***************************************************************************)
(* The multi-core compose dispatcher (compositor/parallel.c) with the AP   *)
(* bring-up it depends on (arch/x86_64/smp.c) and the boot order that      *)
(* kmain() gives them.                                                     *)
(*                                                                         *)
(* The BSP publishes a frame by bumping ctx.epoch; every AP spins on the   *)
(* epoch, claims bands from ctx.next_tile until they run out, and bumps    *)
(* ctx.done_count; the BSP leaves once done_count has reached the number   *)
(* of APs.  Every load, store and read-modify-write of a shared field is a *)
(* step of its own.  The uint32_t counters that are never reset wrap at    *)
(* W32; next_tile and done_count are reset by every frame and stay below   *)
(* a few times the number of bands and CPUs.                               *)
(***************************************************************************)
EXTENDS Integers, FiniteSets

CONSTANTS AP,           \* the application processors the bootloader reports
          VirtualBox,   \* hypervisor_is_virtualbox()
          BootFrames,   \* compositor_frame() calls in kmain() before smp_init()
          SettleFirst,  \* timing assumption: see StartFrame
          Heights,      \* heights a damage bbox may have; 0: no damage
          MinRows,      \* min_rows, 32 in the code
          MaxBands,     \* PARALLEL_MAX_BANDS, 16 in the code
          W32           \* modulus of a uint32_t, 2^32 in the code

ASSUME APAssumption == IsFiniteSet(AP)
ASSUME FlagAssumption == VirtualBox \in BOOLEAN /\ SettleFirst \in BOOLEAN
ASSUME BootAssumption == BootFrames \in Nat
ASSUME SizeAssumption == /\ Heights \subseteq Nat
                         /\ MinRows \in Nat \ {0}
                         /\ MaxBands \in Nat \ {0}
                         /\ W32 \in Nat /\ W32 >= 2

VARIABLES
    \* struct compose_ctx, parallel_barrier_active and the totals
    height, bandCount, epoch, nextTile, doneCount, active,
    bspTotal, apTotal,
    \* smp.c: CPUs counted online
    online,
    \* the BSP: place in the code, locals, and the thread's hold on the CPU
    pc, nAps, bspTile, bspTiles, bootLeft, booted, settled, running,
    \* each AP: place in the code and locals of compositor_ap_worker()
    apPc, seen, tile, myTiles,
    \* history: how often each band of the current frame was composed, and
    \* the bands of all the frames published so far (mod W32)
    composed, bandsTotal

ctxVars == <<height, bandCount, epoch, nextTile, doneCount, active>>
bspVars == <<nAps, bspTile, bspTiles>>
bootVars == <<online, bootLeft, booted, settled>>
apVars == <<apPc, seen, tile, myTiles>>
statVars == <<bspTotal, apTotal, bandsTotal>>
vars == <<ctxVars, bspVars, bootVars, apVars, statVars, pc, running, composed>>

BandIds == 0 .. MaxBands - 1
Lesser(a, b) == IF a < b THEN a ELSE b
Greater(a, b) == IF a > b THEN a ELSE b

Init ==
    /\ height = 0 /\ bandCount = 0 /\ epoch = 0 /\ nextTile = 0
    /\ doneCount = 0 /\ active = FALSE
    /\ bspTotal = 0 /\ apTotal = 0 /\ bandsTotal = 0
    /\ online = 0
    /\ pc = "idle" /\ nAps = 0 /\ bspTile = 0 /\ bspTiles = 0
    /\ bootLeft = BootFrames /\ booted = FALSE /\ settled = FALSE
    /\ running = TRUE
    /\ apPc = [a \in AP |-> "parked"]
    /\ seen = [a \in AP |-> 0]
    /\ tile = [a \in AP |-> 0]
    /\ myTiles = [a \in AP |-> 0]
    /\ composed = [b \in BandIds |-> 0]

-----------------------------------------------------------------------------
(* parallel_compose() and parallel_compose_idle_barrier() on the BSP. *)

\* The CPUs a frame is planned for.
Cpus == IF VirtualBox THEN 1 ELSE Greater(online, 1)

\* Bands of a frame with a bbox of h rows; 0 in the idle barrier.
BandsFor(h) ==
    IF h = 0 THEN 0
    ELSE Lesser(Lesser(Cpus, MaxBands), Greater(h \div MinRows, 1))

\* Variant that rounds the band height first.
BandTopRounded(i) == (height \div bandCount) * i

\* Rows [BandTop(i), BandTop(i + 1)) of the bbox form band i.
BandTop(i) == (height * i) \div bandCount

AllSettled == \A a \in AP : apPc[a] = "spin" /\ seen[a] = epoch

\* Entry: plan the bands and store the context.  kmain() paints BootFrames
\* frames before smp_init().  After it, the first frame comes from the
\* compositor thread, one frame period (milliseconds) later; nothing in the
\* code waits for the APs to reach their spin loop by then.  SettleFirst
\* assumes that this delay suffices; later frames are not restricted.
StartFrame(h) ==
    /\ running /\ pc = "idle"
    /\ \/ ~booted /\ bootLeft > 0
       \/ booted /\ ((SettleFirst /\ ~settled) => AllSettled)
    /\ settled' = booted
    /\ bootLeft' = IF booted THEN bootLeft ELSE bootLeft - 1
    /\ nAps' = Cpus - 1
    /\ height' = h
    /\ bandCount' = BandsFor(h)
    /\ bandsTotal' = (bandsTotal + BandsFor(h)) % W32
    /\ composed' = [b \in BandIds |-> 0]
    /\ pc' = "tile"
    /\ UNCHANGED <<epoch, nextTile, doneCount, active, bspTile, bspTiles,
                   bspTotal, apTotal, online, booted, running, apVars>>

\* Variant that forgets that the BSP takes tile 0.
FirstTileZero == 0

\* The first tile left to claim: the BSP takes tile 0.
FirstTile == 1

ResetTile ==
    /\ running /\ pc = "tile"
    /\ nextTile' = FirstTile
    /\ pc' = "done"
    /\ UNCHANGED <<height, bandCount, epoch, doneCount, active, bspVars,
                   bootVars, apVars, statVars, running, composed>>

ResetDone ==
    /\ running /\ pc = "done"
    /\ doneCount' = 0
    /\ pc' = "flag"
    /\ UNCHANGED <<height, bandCount, epoch, nextTile, active, bspVars,
                   bootVars, apVars, statVars, running, composed>>

RaiseFlag ==
    /\ running /\ pc = "flag"
    /\ active' = TRUE
    /\ pc' = "publish"
    /\ UNCHANGED <<height, bandCount, epoch, nextTile, doneCount, bspVars,
                   bootVars, apVars, statVars, running, composed>>

Publish ==
    /\ running /\ pc = "publish"
    /\ epoch' = (epoch + 1) % W32
    /\ bspTiles' = 0
    /\ pc' = "own"
    /\ UNCHANGED <<height, bandCount, nextTile, doneCount, active, nAps,
                   bspTile, bootVars, apVars, statVars, running, composed>>

\* compose_band(t): returns at once when t is no band of the current frame.
ComposeBand(t) ==
    composed' = IF t < bandCount THEN [composed EXCEPT ![t] = @ + 1]
                                 ELSE composed

\* The tiles counted for compose_band(0): the idle barrier counts none.
OwnTiles == IF bandCount > 0 THEN 1 ELSE 0

ComposeOwn ==
    /\ running /\ pc = "own"
    /\ ComposeBand(0)
    /\ bspTiles' = OwnTiles
    /\ pc' = "claim"
    /\ UNCHANGED <<ctxVars, nAps, bspTile, bootVars, apVars, statVars, running>>

BspClaim ==
    /\ running /\ pc = "claim"
    /\ bspTile' = nextTile
    /\ nextTile' = nextTile + 1
    /\ pc' = "check"
    /\ UNCHANGED <<height, bandCount, epoch, doneCount, active, nAps, bspTiles,
                   bootVars, apVars, statVars, running, composed>>

\* Out of bands: add the frame's tiles to the total and go and wait.
BspCheck ==
    /\ running /\ pc = "check"
    /\ IF bspTile >= bandCount
       THEN /\ pc' = "wait"
            /\ bspTotal' = (bspTotal + bspTiles) % W32
       ELSE /\ pc' = "steal"
            /\ UNCHANGED bspTotal
    /\ UNCHANGED <<ctxVars, bspVars, bootVars, apVars, apTotal, bandsTotal,
                   running, composed>>

BspSteal ==
    /\ running /\ pc = "steal"
    /\ ComposeBand(bspTile)
    /\ bspTiles' = bspTiles + 1
    /\ pc' = "claim"
    /\ UNCHANGED <<ctxVars, nAps, bspTile, bootVars, apVars, statVars, running>>

\* Variants of the wait: one post too few, one too many.
AllPostedButOne == doneCount + 1 >= nAps
MorePosted == doneCount > nAps

\* The load of done_count that ends the wait.
AllPosted == doneCount >= nAps

BspWait ==
    /\ running /\ pc = "wait"
    /\ AllPosted
    /\ pc' = "leave"
    /\ UNCHANGED <<ctxVars, bspVars, bootVars, apVars, statVars, running,
                   composed>>

Leave ==
    /\ running /\ pc = "leave"
    /\ active' = FALSE
    /\ pc' = "idle"
    /\ UNCHANGED <<height, bandCount, epoch, nextTile, doneCount, bspVars,
                   bootVars, apVars, statVars, running, composed>>

-----------------------------------------------------------------------------
(* smp_init() on the BSP, and the timer IRQ. *)

\* online = 1, and every AP is sent to ap_entry().
KickAPs ==
    /\ pc = "idle" /\ ~booted /\ bootLeft = 0
    /\ online' = 1
    /\ apPc' = [a \in AP |-> "kicked"]
    /\ pc' = "smp"
    /\ UNCHANGED <<ctxVars, bspVars, bootLeft, booted, settled, seen, tile,
                   myTiles, statVars, running, composed>>

\* The wait for online to reach cpu_count ends.
SmpReady ==
    /\ pc = "smp"
    /\ online >= Cardinality(AP) + 1
    /\ booted' = TRUE
    /\ pc' = "idle"
    /\ UNCHANGED <<ctxVars, bspVars, online, bootLeft, settled, apVars,
                   statVars, running, composed>>

\* The timer handler's condition for thread_yield().
TimerYields == ~active

\* A timer IRQ takes the BSP away from the compositor thread, except while
\* parallel_compose_active().  Interrupts are off until the end of kmain().
Preempt ==
    /\ running /\ booted /\ TimerYields
    /\ running' = FALSE
    /\ UNCHANGED <<ctxVars, bspVars, bootVars, apVars, statVars, pc, composed>>

\* The run ring comes round to the compositor thread.
Resume ==
    /\ ~running
    /\ running' = TRUE
    /\ UNCHANGED <<ctxVars, bspVars, bootVars, apVars, statVars, pc, composed>>

-----------------------------------------------------------------------------
(* ap_entry() and compositor_ap_worker() on AP a. *)

ApOnline(a) ==
    /\ apPc[a] = "kicked"
    /\ online' = online + 1
    /\ apPc' = [apPc EXCEPT ![a] = "spin"]
    /\ UNCHANGED <<ctxVars, bspVars, bootLeft, booted, settled, seen, tile,
                   myTiles, statVars, pc, running, composed>>

\* The spin loop sees an epoch other than seen_epoch ...
ApNotice(a) ==
    /\ apPc[a] = "spin"
    /\ epoch # seen[a]
    /\ apPc' = [apPc EXCEPT ![a] = "load"]
    /\ UNCHANGED <<ctxVars, bspVars, bootVars, seen, tile, myTiles, statVars,
                   pc, running, composed>>

\* ... and a second load stores it.
ApLoad(a) ==
    /\ apPc[a] = "load"
    /\ seen' = [seen EXCEPT ![a] = epoch]
    /\ apPc' = [apPc EXCEPT ![a] = "claim"]
    /\ UNCHANGED <<ctxVars, bspVars, bootVars, tile, myTiles, statVars, pc,
                   running, composed>>

ApClaim(a) ==
    /\ apPc[a] = "claim"
    /\ tile' = [tile EXCEPT ![a] = nextTile]
    /\ nextTile' = nextTile + 1
    /\ apPc' = [apPc EXCEPT ![a] = "check"]
    /\ UNCHANGED <<height, bandCount, epoch, doneCount, active, bspVars,
                   bootVars, seen, myTiles, statVars, pc, running, composed>>

\* Out of bands: add this pass's tiles to ap_tiles_total and go and post.
ApCheck(a) ==
    /\ apPc[a] = "check"
    /\ IF tile[a] >= bandCount
       THEN /\ apPc' = [apPc EXCEPT ![a] = "post"]
            /\ apTotal' = (apTotal + myTiles[a]) % W32
            /\ myTiles' = [myTiles EXCEPT ![a] = 0]
       ELSE /\ apPc' = [apPc EXCEPT ![a] = "compose"]
            /\ UNCHANGED <<apTotal, myTiles>>
    /\ UNCHANGED <<ctxVars, bspVars, bootVars, seen, tile, bspTotal,
                   bandsTotal, pc, running, composed>>

ApCompose(a) ==
    /\ apPc[a] = "compose"
    /\ ComposeBand(tile[a])
    /\ myTiles' = [myTiles EXCEPT ![a] = @ + 1]
    /\ apPc' = [apPc EXCEPT ![a] = "claim"]
    /\ UNCHANGED <<ctxVars, bspVars, bootVars, seen, tile, statVars, pc, running>>

ApPost(a) ==
    /\ apPc[a] = "post"
    /\ doneCount' = doneCount + 1
    /\ apPc' = [apPc EXCEPT ![a] = "spin"]
    /\ UNCHANGED <<height, bandCount, epoch, nextTile, active, bspVars,
                   bootVars, seen, tile, myTiles, statVars, pc, running,
                   composed>>

-----------------------------------------------------------------------------
BspStep ==
    \/ \E h \in Heights : StartFrame(h)
    \/ ResetTile \/ ResetDone \/ RaiseFlag \/ Publish
    \/ ComposeOwn \/ BspClaim \/ BspCheck \/ BspSteal \/ BspWait \/ Leave
    \/ KickAPs \/ SmpReady

ApStep(a) ==
    \/ ApOnline(a) \/ ApNotice(a) \/ ApLoad(a) \/ ApClaim(a) \/ ApCheck(a)
    \/ ApCompose(a) \/ ApPost(a)

Next == BspStep \/ Preempt \/ Resume \/ \E a \in AP : ApStep(a)

Spec == Init /\ [][Next]_vars

\* APs run with interrupts off and never stop.  The compositor thread is in
\* the run ring, so Resume is fair, and each turn of a resumed thread lets it
\* execute instructions before the next timer IRQ: strong fairness.
Fairness ==
    /\ SF_vars(BspStep)
    /\ WF_vars(Resume)
    /\ \A a \in AP : WF_vars(ApStep(a))

FairSpec == Spec /\ Fairness

-----------------------------------------------------------------------------
(* Properties. *)

BspPlaces == {"idle", "smp", "tile", "done", "flag", "publish", "own", "claim",
              "check", "steal", "wait", "leave"}
ApPlaces == {"parked", "kicked", "spin", "load", "claim", "check", "compose",
             "post"}

\* Every variable has its type.
TypeOK ==
    /\ height \in Nat /\ bandCount \in 0 .. MaxBands
    /\ epoch \in 0 .. W32 - 1 /\ nextTile \in Nat /\ doneCount \in Nat
    /\ active \in BOOLEAN
    /\ bspTotal \in 0 .. W32 - 1 /\ apTotal \in 0 .. W32 - 1
    /\ bandsTotal \in 0 .. W32 - 1
    /\ online \in Nat
    /\ pc \in BspPlaces /\ nAps \in Nat /\ bspTile \in Nat /\ bspTiles \in Nat
    /\ bootLeft \in Nat /\ booted \in BOOLEAN /\ settled \in BOOLEAN
    /\ running \in BOOLEAN
    /\ apPc \in [AP -> ApPlaces] /\ seen \in [AP -> 0 .. W32 - 1]
    /\ tile \in [AP -> Nat] /\ myTiles \in [AP -> Nat]
    /\ composed \in [BandIds -> Nat]

\* The BSP is between the publication of an epoch and its return.
InFrame == pc \in {"own", "claim", "check", "steal", "wait", "leave"}

\* parallel_compose() keeps the damage list and the surface array alive while
\* they are used: an AP is inside compose_band() only while the BSP is inside
\* the frame that published them ("dmg must stay live until this call returns").
NoPaintOutsideFrame == \A a \in AP : apPc[a] = "compose" => InFrame

\* When the BSP drops the barrier, every band of the frame has been composed
\* exactly once, by whichever CPU claimed it.
FrameComplete ==
    pc = "leave" => \A b \in BandIds : b < bandCount => composed[b] = 1

\* "BSP doesn't return from parallel_compose() until every AP has posted done
\* for this frame" (parallel.h): when the wait ends no AP is still in its
\* worker pass for the epoch just published, or has yet to begin it.
ReturnsAfterAllDone == (pc = "leave" /\ nAps > 0) => AllSettled

\* From the publication of the epoch to the return, the timer IRQ never takes
\* the BSP away: no other thread touches a surface while APs read it, and the
\* barrier does not stall (comment at parallel_barrier_active).
BarrierNotPreempted == InFrame => running

\* The bands of a frame cut the rows of the bbox into non-empty pieces without
\* gap or overlap, whatever the rounding of h * i / N.
BandsCoverBox ==
    bandCount > 0 =>
        /\ BandTop(0) = 0 /\ BandTop(bandCount) = height
        /\ \A i \in 0 .. bandCount - 1 : BandTop(i) < BandTop(i + 1)

\* Every published frame is finished and the BSP gets out of the barrier.
FrameFinishes == (pc = "publish") ~> (pc = "idle")

\* parallel_compose() implements what compositor_frame() relies on.
Painter == INSTANCE FramePaint WITH composing <- pc \notin {"idle", "smp"},
                                    painted <- composed
PaintsFrames == Painter!PaintSpec

=============================================================================
