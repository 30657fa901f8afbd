------------------------------ MODULE Desktop ------------------------------
(***************************************************************************)
(* The desktop's policy layer: the window manager (wm/window_manager.c),   *)
(* the focus, capture and drag tokens of input/input_routing.c, and the    *)
(* dock of desktop/simple_desktop.c, whose poller thread turns clicks into *)
(* terminals while the mouse changes under it.                             *)
(*                                                                         *)
(* Every window manager call is a function from the manager's state to its *)
(* next state, so that the dock can make several of them in one step as    *)
(* the code does.  The only concurrency is between the mouse, driven by    *)
(* interrupts, and the poller, which reads the position and the buttons in *)
(* two steps.  A surface's pixels are Compositor's; here it has a place, a *)
(* size, a height in the stack and a visibility.                           *)
(***************************************************************************)
EXTENDS Integers, Sequences, FiniteSets

CONSTANTS
    Dock,           \* the dock's surface
    Terms,          \* the terminals' surfaces, in the order they are spawned
    Apps,           \* surfaces other clients register
    NoSurf,
    Screens,        \* display sizes <<width, height>> the dock accepts
    AppSize,        \* size of the surfaces in Apps
    Places,         \* positions other clients move windows to
    MaxWindows,     \* WM_MAX_WINDOWS
    Desktops,       \* WM_MAX_DESKTOPS
    MaxSurfaces,    \* COMPOSITOR_MAX_SURFACES
    UserMax,        \* SURFACE_Z_USER_MAX
    DockZ, TermZ,   \* the z the dock and the first terminal are placed at
    Grace,          \* polls in which the dock only follows the buttons
    MaxPresses,     \* bound on the presses that count
    Workloads       \* sets of operations the clients restrict themselves to

ASSUME DesktopAssumption ==
    /\ MaxWindows \in Nat \ {0} /\ Desktops \in Nat \ {0} /\ MaxSurfaces \in Nat
    /\ Grace \in Nat \ {0} /\ MaxPresses \in Nat
    \* Every surface is created for one window.
    /\ Len(Terms) \in Nat /\ DOMAIN Terms = 1 .. Len(Terms)
    /\ \A i, j \in DOMAIN Terms : Terms[i] = Terms[j] => i = j
    /\ Dock \notin Apps /\ \A i \in DOMAIN Terms : Terms[i] \notin Apps \cup {Dock}
    /\ Screens \subseteq Nat \X Nat
    /\ \A s \in Screens : s[1] >= 320 /\ s[2] > 56

VARIABLES
    wm,         \* [slot, next, active, focus, kb, surf, comp]: g_slots,
                \* g_next_id, g_active_desktop, g_focus, g_kb_focus, the
                \* surfaces and the ones in the compositor
    route,      \* [capture, dragging, source, serial]: the rest of input routing
    mouse,      \* [pos, left]: what mouse_get_state() reads
    dock,       \* [pc, at, prev, grace, n]: the poller's locals, prev_btn,
                \* boot_grace and n_terms
    screen,     \* the display's size
    presses,    \* history: presses of the left button after the grace period
    ops         \* the workload of this behaviour

vars == <<wm, route, mouse, dock, screen, presses, ops>>

None == 0       \* WM_ID_NONE and IPR_TOKEN_NONE
Ids == 1 .. MaxWindows
Surfaces == {Dock} \cup Apps \cup {Terms[i] : i \in DOMAIN Terms}
May(op) == op \in ops

Larger(a, b) == IF a > b THEN a ELSE b
Smaller(a, b) == IF a < b THEN a ELSE b

-----------------------------------------------------------------------------
(* The window manager. *)

FreeSlot == [used |-> FALSE, surf |-> NoSurf, desk |-> 0, min |-> FALSE, max |-> FALSE,
             back |-> <<0, 0>>]
WindowSlot(s, desk, p) == [used |-> TRUE, surf |-> s, desk |-> desk, min |-> FALSE, max |-> FALSE,
                           back |-> p]
\* surface_create()
FreshSurface(size) == [pos |-> <<0, 0>>, size |-> size, z |-> 0, vis |-> TRUE]
Created(w, s, size) == [w EXCEPT !.surf[s] = FreshSurface(size)]

\* slot_get() finds a window.
Live(w, id) == id \in Ids /\ w.slot[id].used
SurfOf(w, id) == w.surf[w.slot[id].surf]
\* What a call leaves in a window's slot and in its surface.
With(w, id, slot, surface) ==
    [w EXCEPT !.slot[id] = slot, !.surf[w.slot[id].surf] = surface]

\* wm_register_window(): the number is used up even when the compositor is full.
Register(w, s, p, z) ==
    LET refused == s \notin w.comp /\ Cardinality(w.comp) >= MaxSurfaces
    IN  IF w.next > MaxWindows THEN w
        ELSE [w EXCEPT !.next = w.next + 1,
                       !.surf[s] = [w.surf[s] EXCEPT !.pos = p, !.z = Smaller(z, UserMax)],
                       !.comp = IF refused THEN w.comp ELSE w.comp \cup {s},
                       !.slot[w.next] = IF refused THEN FreeSlot ELSE WindowSlot(s, w.active, p)]
Registers(w, s, p, z) == Register(w, s, p, z).slot # w.slot

\* A window that goes away takes the focus with it.
DropFocus(w, id) == IF w.focus = id THEN [w EXCEPT !.focus = None, !.kb = None] ELSE w

\* wm_unregister_window(); variant that forgets the focus.
UnregisterFocused(w, id) ==
    IF ~Live(w, id) THEN w
    ELSE [w EXCEPT !.comp = @ \ {w.slot[id].surf}, !.slot[id] = FreeSlot]
Unregister(w, id) ==
    IF ~Live(w, id) THEN w
    ELSE [DropFocus(w, id) EXCEPT !.comp = @ \ {w.slot[id].surf}, !.slot[id] = FreeSlot]

\* wm_move(), also the end of wm_snap_to_edges(): a maximised window keeps the
\* place it will be restored to.  The variant keeps it always.
MoveForgets(w, id, p) ==
    IF ~Live(w, id) THEN w ELSE [w EXCEPT !.surf[w.slot[id].surf].pos = p]
MoveTo(w, id, p) ==
    IF ~Live(w, id) THEN w
    ELSE With(w, id, [w.slot[id] EXCEPT !.back = IF w.slot[id].max THEN @ ELSE p],
                     [SurfOf(w, id) EXCEPT !.pos = p])

\* compositor_raise(): one above the highest surface, as far as UserMax.
TopZ(w) == IF w.comp = {} THEN 0
           ELSE CHOOSE z \in {w.surf[s].z : s \in w.comp} : \A s \in w.comp : w.surf[s].z <= z
Raise(w, id) ==
    IF ~Live(w, id) THEN w
    ELSE [w EXCEPT !.surf[w.slot[id].surf].z = Smaller(TopZ(w) + 1, UserMax)]

\* wm_set_focus()
SetFocus(w, id) ==
    IF id # None /\ ~Live(w, id) THEN w
    ELSE Raise([w EXCEPT !.focus = id, !.kb = id], id)

\* wm_minimize()
Minimize(w, id) ==
    IF ~Live(w, id) THEN w
    ELSE DropFocus(With(w, id, [w.slot[id] EXCEPT !.min = TRUE],
                               [SurfOf(w, id) EXCEPT !.vis = FALSE]), id)

\* wm_maximize(): the place is remembered only on the way in.
Maximize(w, id) ==
    IF ~Live(w, id) THEN w
    ELSE Raise(With(w, id, [w.slot[id] EXCEPT !.min = FALSE, !.max = TRUE,
                                              !.back = IF w.slot[id].max THEN @
                                                       ELSE SurfOf(w, id).pos],
                           [SurfOf(w, id) EXCEPT !.vis = TRUE, !.pos = <<0, 0>>]), id)

\* wm_restore() undoes both.
Restore(w, id) ==
    IF ~Live(w, id) THEN w
    ELSE With(w, id, [w.slot[id] EXCEPT !.min = FALSE, !.max = FALSE],
                     [SurfOf(w, id) EXCEPT !.vis = @ \/ w.slot[id].min,
                                           !.pos = IF w.slot[id].max THEN w.slot[id].back ELSE @])

\* wm_set_active_desktop()
Shown(w, id, index) == w.slot[id].desk = index /\ ~w.slot[id].min
SwitchDesktop(w, index) ==
    LET of(s) == {id \in Ids : Live(w, id) /\ w.slot[id].surf = s}
    IN  [w EXCEPT !.active = index,
                  !.surf = [s \in Surfaces |->
                               IF of(s) = {} THEN @[s]
                               ELSE [@[s] EXCEPT !.vis = \E id \in of(s) : Shown(w, id, index)]]]

\* wm_snap_to_edges(), one axis at a time: the far edge wins over the near one,
\* and a window larger than the screen hangs over the near edge.
SnapAxis(x, size, extent, near, far) ==
    LET placed == Larger(0, IF far THEN extent - size ELSE IF near THEN 0 ELSE x)
    IN  IF placed + size > extent THEN extent - size ELSE placed
Snapped(w, id, mask) ==
    LET s == SurfOf(w, id)
    IN  <<SnapAxis(s.pos[1], s.size[1], screen[1], "left" \in mask, "right" \in mask),
          SnapAxis(s.pos[2], s.size[2], screen[2], "top" \in mask, "bottom" \in mask)>>

OnlyWm == UNCHANGED <<route, mouse, dock, screen, presses, ops>>

\* A client registers a surface that is not a window already.
WmRegister(s, p) ==
    /\ May("register") /\ \A id \in Ids : wm.slot[id].surf # s
    /\ wm' = Register(Created(wm, s, AppSize), s, p, DockZ)
    /\ OnlyWm
WmUnregister(id) == May("unregister") /\ wm' = Unregister(wm, id) /\ OnlyWm
WmMove(id, p) == May("move") /\ wm' = MoveTo(wm, id, p) /\ OnlyWm
WmRaise(id) == May("raise") /\ wm' = Raise(wm, id) /\ OnlyWm
WmSetFocus(id) == May("focus") /\ wm' = SetFocus(wm, id) /\ OnlyWm
WmMinimize(id) == May("minimize") /\ wm' = Minimize(wm, id) /\ OnlyWm
WmMaximize(id) == May("maximize") /\ wm' = Maximize(wm, id) /\ OnlyWm
WmRestore(id) == May("restore") /\ wm' = Restore(wm, id) /\ OnlyWm
WmSetActiveDesktop(index) == May("desktop") /\ wm' = SwitchDesktop(wm, index) /\ OnlyWm
WmSnapToEdges(id, mask) ==
    /\ May("snap") /\ Live(wm, id) /\ mask # {}
    /\ wm' = MoveTo(wm, id, Snapped(wm, id, mask))
    /\ OnlyWm

-----------------------------------------------------------------------------
(* Input routing.  Tokens are the window manager's numbers; nothing here asks *)
(* the manager whether a token still names a window.                          *)

OnlyRoute == UNCHANGED <<wm, mouse, dock, screen, presses, ops>>

\* input_routing_pointer_capture_set() and _clear()
PointerCapture(id) == May("capture") /\ route' = [route EXCEPT !.capture = id] /\ OnlyRoute

\* input_routing_pointer_pressed(): a captured pointer leaves the focus alone.
PointerPressed(hit) ==
    /\ May("press") /\ route.capture = None /\ hit # None
    /\ wm' = [wm EXCEPT !.kb = hit]
    /\ UNCHANGED <<route, mouse, dock, screen, presses, ops>>

\* input_routing_drag_begin(), replacing a drag under way
DragBegin(source, serial) ==
    /\ May("drag") /\ source # None
    /\ route' = [route EXCEPT !.dragging = TRUE, !.source = source, !.serial = serial]
    /\ OnlyRoute

\* input_routing_drag_cancel(); the serial stays
Cancelled(r) == [r EXCEPT !.dragging = FALSE, !.source = None]
DragCancel == May("drag") /\ route' = Cancelled(route) /\ OnlyRoute

\* input_routing_drag_drop(): only the drag under way can be dropped.
DragDrop(serial) ==
    /\ May("drag") /\ route.dragging /\ serial = route.serial
    /\ route' = Cancelled(route)
    /\ OnlyRoute

-----------------------------------------------------------------------------
(* The dock: a click on its first tile opens a terminal. *)

DockH == 56
BtnPad == 8
DockY == screen[2] - DockH

\* hit_first_button()
HitFirstButton(p) ==
    /\ p[1] >= BtnPad /\ p[1] < BtnPad + 112
    /\ p[2] >= DockY + BtnPad /\ p[2] < DockY + BtnPad + 40

\* The size and place of terminal n in spawn_demo_terminal().
Between(v, lo, hi) == Larger(lo, Smaller(v, hi))
TermSize ==
    <<Between(IF screen[1] > 120 THEN (screen[1] * 55) \div 100 ELSE 400, 320, 720),
      Between(IF screen[2] > 200 THEN (screen[2] * 45) \div 100 ELSE 260, 200, 520)>>
TermPlace(n) ==
    <<Larger(0, Smaller(32 + n * 36, screen[1] - 8 - TermSize[1])),
      Larger(0, Smaller(32 + n * 28, DockY - 8 - TermSize[2]))>>

\* spawn_demo_terminal(): without a free slot in the manager or the compositor the
\* surface is destroyed again and the count stays.
CanSpawn == dock.n < Len(Terms)
Spawned ==
    LET s == Terms[dock.n + 1]
        fresh == Created(wm, s, TermSize)
        next == Register(fresh, s, TermPlace(dock.n), TermZ + dock.n)
    IN  IF Registers(fresh, s, TermPlace(dock.n), TermZ + dock.n)
        THEN [wm |-> SetFocus(next, wm.next), n |-> dock.n + 1]
        ELSE [wm |-> [next EXCEPT !.surf[s] = wm.surf[s]], n |-> dock.n]

\* dock_poller() while it only follows the buttons
DockGrace ==
    /\ May("mouse") /\ dock.pc = "poll" /\ dock.grace < Grace
    /\ dock' = [dock EXCEPT !.grace = @ + 1, !.prev = mouse.left]
    /\ UNCHANGED <<wm, route, mouse, screen, presses, ops>>

\* mouse_get_state() reads the position, then the buttons; an interrupt may come
\* between.
DockReadPosition ==
    /\ May("mouse") /\ dock.pc = "poll" /\ dock.grace = Grace
    /\ dock' = [dock EXCEPT !.pc = "buttons", !.at = mouse.pos]
    /\ UNCHANGED <<wm, route, mouse, screen, presses, ops>>

\* The edge is the difference to the buttons of the last poll; the variant takes the
\* level.
ClickLevel(at) == mouse.left /\ HitFirstButton(at)
Click(at) == mouse.left /\ ~dock.prev /\ HitFirstButton(at)
DockReadButtons ==
    /\ dock.pc = "buttons"
    /\ LET opened == IF Click(dock.at) /\ CanSpawn THEN Spawned ELSE [wm |-> wm, n |-> dock.n]
       IN  /\ wm' = opened.wm
           /\ dock' = [dock EXCEPT !.pc = "poll", !.at = <<0, 0>>, !.prev = mouse.left, !.n = opened.n]
    /\ UNCHANGED <<route, mouse, screen, presses, ops>>

\* What interrupts do to the mouse: on the tile or off it, pressed or released.
OnTile == <<BtnPad, DockY + BtnPad>>
MouseMove(p) ==
    /\ May("mouse") /\ mouse' = [mouse EXCEPT !.pos = p]
    /\ UNCHANGED <<wm, route, dock, screen, presses, ops>>
MousePress ==
    /\ May("mouse") /\ ~mouse.left /\ presses < MaxPresses
    /\ mouse' = [mouse EXCEPT !.left = TRUE]
    /\ presses' = IF dock.grace = Grace THEN presses + 1 ELSE presses
    /\ UNCHANGED <<wm, route, dock, screen, ops>>
MouseRelease ==
    /\ May("mouse") /\ mouse.left /\ mouse' = [mouse EXCEPT !.left = FALSE]
    /\ UNCHANGED <<wm, route, dock, screen, presses, ops>>

-----------------------------------------------------------------------------

\* wm_init(), input_routing_init() and simple_desktop_init(): the dock is the first
\* window.  The button may be held from before the poller starts.
EmptyWm ==
    [slot |-> [id \in Ids |-> FreeSlot], next |-> 1, active |-> 0, focus |-> None, kb |-> None,
     surf |-> [s \in Surfaces |-> FreshSurface(IF s = Dock THEN <<screen[1], DockH>> ELSE AppSize)],
     comp |-> {}]
Init ==
    /\ screen \in Screens
    /\ wm = Register(EmptyWm, Dock, <<0, DockY>>, DockZ)
    /\ route = [capture |-> None, dragging |-> FALSE, source |-> None, serial |-> 0]
    /\ mouse \in [pos : {OnTile}, left : BOOLEAN]
    /\ presses = 0
    /\ dock = [pc |-> "poll", at |-> <<0, 0>>, prev |-> FALSE, grace |-> 0, n |-> 0]
    /\ ops \in Workloads

Masks == SUBSET {"left", "right", "top", "bottom"} \ {{}}

Next ==
    \/ \E s \in Apps, p \in Places : WmRegister(s, p)
    \/ \E id \in Ids : \/ WmUnregister(id) \/ WmRaise(id)
                       \/ WmMinimize(id) \/ WmMaximize(id) \/ WmRestore(id)
                       \/ \E p \in Places : WmMove(id, p)
                       \/ \E m \in Masks : WmSnapToEdges(id, m)
    \/ \E index \in 0 .. Desktops - 1 : WmSetActiveDesktop(index)
    \/ \E id \in {None} \cup Ids : WmSetFocus(id) \/ PointerCapture(id) \/ PointerPressed(id)
    \/ \E id \in Ids, n \in 1 .. 2 : DragBegin(id, n) \/ DragDrop(n)
    \/ DragCancel
    \/ DockGrace \/ DockReadPosition \/ DockReadButtons
    \/ \E p \in {OnTile, <<0, 0>>} : MouseMove(p)
    \/ MousePress \/ MouseRelease

Spec == Init /\ [][Next]_vars

-----------------------------------------------------------------------------
(* Properties. *)

LiveIds == {id \in Ids : Live(wm, id)}

\* A window that is not maximised remembers the place it is at, whatever was called
\* since: so wm_maximize() followed by wm_restore() puts it back, and moves made while
\* it is maximised do not count (the restore_x and restore_y of each slot).
RestoreRemembers ==
    \A id \in LiveIds : ~wm.slot[id].max => wm.slot[id].back = SurfOf(wm, id).pos

\* The focused window exists, and it is the one the keyboard goes to unless a press
\* was routed past the window manager (wm_set_focus, wm_unregister_window).
FocusIsLive ==
    /\ wm.focus \in {None} \cup LiveIds
    /\ ~May("press") => wm.kb = wm.focus

\* However presses, releases, motion and polls interleave, the dock opens at most one
\* terminal for each press of the button, and none for a press that began while it was
\* still in its grace period (dock_poller's prev_btn).
OneTerminalPerPress == dock.n <= presses
=============================================================================
