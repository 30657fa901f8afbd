--------------------------- MODULE DesktopProofs ---------------------------
(***************************************************************************)
(* The desktop's policy (wm/window_manager.c, desktop/simple_desktop.c)    *)
(* for any number of windows, surfaces, displays and polls of grace.       *)
(*                                                                         *)
(* Each call of the window manager is a function of its state, and one     *)
(* lemma for each says that it keeps ManagerInv: numbers are given out in  *)
(* order, a surface belongs to one window, a window that is not maximised  *)
(* remembers its place, and the focus names a window.  The dock's count of *)
(* terminals needs the press it has not seen yet.                          *)
(***************************************************************************)
EXTENDS Desktop, TLAPS

-----------------------------------------------------------------------------
(* The window manager's state.  Each call keeps ManagerInv. *)

\* The fields of a slot, of a surface and of the manager.
IsSlot(x) == x = [used |-> x.used, surf |-> x.surf, desk |-> x.desk, min |-> x.min,
                  max |-> x.max, back |-> x.back]
IsSurface(x) == x = [pos |-> x.pos, size |-> x.size, z |-> x.z, vis |-> x.vis]
IsManager(w) ==
    /\ w = [slot |-> w.slot, next |-> w.next, active |-> w.active, focus |-> w.focus,
            kb |-> w.kb, surf |-> w.surf, comp |-> w.comp]
    /\ w.slot = [id \in Ids |-> w.slot[id]] /\ w.surf = [s \in Surfaces |-> w.surf[s]]
    /\ \A id \in Ids : IsSlot(w.slot[id])
    /\ \A s \in Surfaces : IsSurface(w.surf[s])

\* Numbers are given out in order, and a surface belongs to one window: of the
\* terminals only the first n have one.
Numbered(w, n) ==
    /\ w.next \in Nat \ {0}
    /\ \A id \in Ids : w.slot[id].used => /\ id < w.next /\ w.slot[id].surf \in Surfaces
    /\ \A a, b \in Ids : (w.slot[a].used /\ w.slot[b].used /\ w.slot[a].surf = w.slot[b].surf) => a = b
    /\ \A id \in Ids, k \in DOMAIN Terms : (w.slot[id].used /\ w.slot[id].surf = Terms[k]) => k <= n

\* RestoreRemembers and FocusIsLive of one state; with tied the keyboard follows the focus.
Remembers(w) ==
    \A id \in Ids : w.slot[id].used => w.slot[id].max \/ w.slot[id].back = w.surf[w.slot[id].surf].pos
Focused(w, tied) ==
    /\ w.focus = None \/ (w.focus \in Ids /\ w.slot[w.focus].used)
    /\ tied => w.kb = w.focus

ManagerInv(w, n, tied) == IsManager(w) /\ Numbered(w, n) /\ Remembers(w) /\ Focused(w, tied)

Manager(slot, next, active, focus, kb, surf, comp) ==
    [slot |-> slot, next |-> next, active |-> active, focus |-> focus, kb |-> kb, surf |-> surf,
     comp |-> comp]

\* Assignments to the fields of a slot and of a surface.
SetMin(x, y) == [x EXCEPT !.min = y]
SetBack(x, y) == [x EXCEPT !.back = y]
Maximized(x, f, m, y) == [x EXCEPT !.min = f, !.max = m, !.back = y]
Restored(x, m) == [x EXCEPT !.min = m, !.max = m]
SetPos(x, y) == [x EXCEPT !.pos = y]
SetVis(x, y) == [x EXCEPT !.vis = y]
SetZ(x, y) == [x EXCEPT !.z = y]
Placed(x, m, y) == [x EXCEPT !.vis = m, !.pos = y]

LEMMA SlotMin ==
    ASSUME NEW x, IsSlot(x), NEW y
    PROVE  /\ IsSlot(SetMin(x, y))
           /\ SetMin(x, y).used = x.used /\ SetMin(x, y).surf = x.surf
           /\ SetMin(x, y).max = x.max /\ SetMin(x, y).back = x.back
BY DEF SetMin, IsSlot

LEMMA SlotMax ==
    ASSUME NEW x, IsSlot(x), NEW y, NEW a, a = [x EXCEPT !.max = y]
    PROVE  IsSlot(a) /\ a.used = x.used /\ a.surf = x.surf /\ a.max = y /\ a.back = x.back
BY DEF IsSlot

LEMMA SlotBack ==
    ASSUME NEW x, IsSlot(x), NEW y
    PROVE  /\ IsSlot(SetBack(x, y))
           /\ SetBack(x, y).used = x.used /\ SetBack(x, y).surf = x.surf
           /\ SetBack(x, y).max = x.max /\ SetBack(x, y).back = y
BY DEF SetBack, IsSlot

LEMMA SurfacePos ==
    ASSUME NEW x, IsSurface(x), NEW y
    PROVE  IsSurface(SetPos(x, y)) /\ SetPos(x, y).pos = y
BY DEF SetPos, IsSurface

LEMMA SurfaceVis ==
    ASSUME NEW x, IsSurface(x), NEW y
    PROVE  IsSurface(SetVis(x, y)) /\ SetVis(x, y).pos = x.pos
BY DEF SetVis, IsSurface

LEMMA SurfaceZ ==
    ASSUME NEW x, IsSurface(x), NEW y
    PROVE  IsSurface(SetZ(x, y)) /\ SetZ(x, y).pos = x.pos
BY DEF SetZ, IsSurface

\* What wm_maximize() and wm_restore() assign.
LEMMA SlotMaximized ==
    ASSUME NEW x, IsSlot(x), NEW f, NEW m, NEW y
    PROVE  /\ IsSlot(Maximized(x, f, m, y))
           /\ Maximized(x, f, m, y).used = x.used /\ Maximized(x, f, m, y).surf = x.surf
           /\ Maximized(x, f, m, y).max = m /\ Maximized(x, f, m, y).back = y
PROOF
<1>0. PICK a : a = Maximized(x, f, m, y)
    BY Zenon
<1>1. PICK b : b = SetMin(x, f)
    BY Zenon
<1>2. IsSlot(b) /\ b.used = x.used /\ b.surf = x.surf
    BY <1>1, SlotMin, Zenon
<1>3. PICK c : c = [b EXCEPT !.max = m]
    BY Zenon
<1>4. IsSlot(c) /\ c.used = x.used /\ c.surf = x.surf /\ c.max = m
    BY <1>2, <1>3 DEF IsSlot
<1>5. a = [c EXCEPT !.back = y]
    BY <1>0, <1>1, <1>3, Zenon DEF Maximized, SetMin
<1> QED
    BY <1>0, <1>4, <1>5, Zenon DEF IsSlot

LEMMA SlotRestored ==
    ASSUME NEW x, IsSlot(x), NEW m
    PROVE  /\ IsSlot(Restored(x, m))
           /\ Restored(x, m).used = x.used /\ Restored(x, m).surf = x.surf
           /\ Restored(x, m).max = m /\ Restored(x, m).back = x.back
PROOF
<1>0. PICK a : a = Restored(x, m)
    BY Zenon
<1>1. PICK b : b = SetMin(x, m)
    BY Zenon
<1>2. IsSlot(b) /\ b.used = x.used /\ b.surf = x.surf /\ b.back = x.back
    BY <1>1, SlotMin, Zenon
<1>3. a = [b EXCEPT !.max = m]
    BY <1>0, <1>1, Zenon DEF Restored, SetMin
<1> QED
    BY <1>0, <1>2, <1>3, Zenon DEF IsSlot

LEMMA SurfacePlaced ==
    ASSUME NEW x, IsSurface(x), NEW m, NEW y
    PROVE  IsSurface(Placed(x, m, y)) /\ Placed(x, m, y).pos = y
PROOF
<1>0. PICK a : a = Placed(x, m, y)
    BY Zenon
<1>1. PICK b : b = SetVis(x, m)
    BY Zenon
<1>2. IsSurface(b)
    BY <1>1, SurfaceVis, Zenon
<1>3. a = SetPos(b, y)
    BY <1>0, <1>1, Zenon DEF Placed, SetVis, SetPos
<1> QED
    BY <1>0, <1>2, <1>3, SurfacePos, Zenon

LEMMA FieldsOf ==
    ASSUME NEW w, NEW n, NEW tied, ManagerInv(w, n, tied)
    PROVE  \E slot, next, active, focus, kb, surf, comp :
               w = Manager(slot, next, active, focus, kb, surf, comp)
BY Zenon DEF ManagerInv, IsManager, Manager

LEMMA Selected ==
    ASSUME NEW a, NEW b, NEW c, NEW d, NEW e, NEW f, NEW g
    PROVE  /\ Manager(a, b, c, d, e, f, g).slot = a /\ Manager(a, b, c, d, e, f, g).next = b
           /\ Manager(a, b, c, d, e, f, g).active = c /\ Manager(a, b, c, d, e, f, g).focus = d
           /\ Manager(a, b, c, d, e, f, g).kb = e /\ Manager(a, b, c, d, e, f, g).surf = f
           /\ Manager(a, b, c, d, e, f, g).comp = g
BY DEF Manager

\* A surface that no window has may change.
LEMMA FreshKeeps ==
    ASSUME NEW w, NEW n, NEW tied, ManagerInv(w, n, tied), NEW s \in Surfaces, NEW x, IsSurface(x),
           \A id \in Ids : w.slot[id].used => w.slot[id].surf # s
    PROVE  ManagerInv([w EXCEPT !.surf[s] = x], n, tied)
PROOF
<1> DEFINE v == [w EXCEPT !.surf[s] = x]
<1>1. /\ v = [slot |-> w.slot, next |-> w.next, active |-> w.active, focus |-> w.focus, kb |-> w.kb,
              surf |-> [w.surf EXCEPT ![s] = x], comp |-> w.comp]
    BY DEF ManagerInv, IsManager
<1> HIDE DEF v
<1>2. /\ v.slot = w.slot /\ v.next = w.next /\ v.active = w.active /\ v.focus = w.focus /\ v.kb = w.kb
      /\ v.comp = w.comp /\ v.surf = [w.surf EXCEPT ![s] = x]
    BY <1>1
<1>3. /\ v.surf = [y \in Surfaces |-> v.surf[y]] /\ v.surf[s] = x
      /\ \A y \in Surfaces : y # s => v.surf[y] = w.surf[y]
    BY <1>2 DEF ManagerInv, IsManager
<1>4. IsManager(v)
    BY <1>1, <1>2, <1>3 DEF ManagerInv, IsManager
<1>5. Numbered(v, n) /\ Focused(v, tied)
    BY <1>2 DEF ManagerInv, Numbered, Focused
<1>6. Remembers(v)
    BY <1>2, <1>3 DEF ManagerInv, Numbered, Remembers
<1> QED
    BY <1>4, <1>5, <1>6 DEF ManagerInv, v

\* A call that changes the slot and the surface of one window.
Changes(w, v, id, a, b) ==
    /\ v = [slot |-> [w.slot EXCEPT ![id] = a], next |-> w.next, active |-> w.active, focus |-> v.focus,
            kb |-> v.kb, surf |-> [w.surf EXCEPT ![w.slot[id].surf] = b], comp |-> w.comp]
    /\ IsSlot(a) /\ a.used /\ a.surf = w.slot[id].surf
    /\ IsSurface(b) /\ (a.max \/ a.back = b.pos)
    /\ \/ v.focus = w.focus /\ v.kb = w.kb
       \/ v.focus \in {None, id} /\ v.kb = v.focus

LEMMA ChangeKeeps ==
    ASSUME NEW w, NEW n, NEW tied, ManagerInv(w, n, tied), NEW v, NEW id \in Ids, w.slot[id].used,
           NEW a, NEW b, Changes(w, v, id, a, b)
    PROVE  ManagerInv(v, n, tied)
PROOF
<1> DEFINE s == w.slot[id].surf
<1>1. s \in Surfaces
    BY DEF ManagerInv, Numbered
<1>2. /\ v.next = w.next /\ v.active = w.active /\ v.comp = w.comp
      /\ v.slot = [w.slot EXCEPT ![id] = a] /\ v.surf = [w.surf EXCEPT ![s] = b]
    BY DEF Changes
<1>3. /\ v.slot = [y \in Ids |-> v.slot[y]] /\ v.slot[id] = a
      /\ \A y \in Ids : y # id => v.slot[y] = w.slot[y]
    BY <1>2 DEF ManagerInv, IsManager
<1>4. /\ v.surf = [y \in Surfaces |-> v.surf[y]] /\ v.surf[s] = b
      /\ \A y \in Surfaces : y # s => v.surf[y] = w.surf[y]
    BY <1>1, <1>2 DEF ManagerInv, IsManager
<1>5. \A y \in Ids : (v.slot[y].used <=> w.slot[y].used) /\ v.slot[y].surf = w.slot[y].surf
    BY <1>3 DEF Changes
<1> HIDE DEF s
<1>6. IsManager(v)
    <2>1. \A y \in Ids : IsSlot(v.slot[y])
        BY <1>3 DEF ManagerInv, IsManager, Changes
    <2>2. \A y \in Surfaces : IsSurface(v.surf[y])
        BY <1>4 DEF ManagerInv, IsManager, Changes
    <2>3. v = [slot |-> v.slot, next |-> v.next, active |-> v.active, focus |-> v.focus,
               kb |-> v.kb, surf |-> v.surf, comp |-> v.comp]
        BY DEF Changes
    <2> QED
        BY <1>3, <1>4, <2>1, <2>2, <2>3 DEF IsManager
<1>7. Numbered(v, n)
    BY <1>2, <1>5 DEF ManagerInv, Numbered
<1>8. Remembers(v)
    <2> SUFFICES ASSUME NEW y \in Ids, v.slot[y].used
                 PROVE  v.slot[y].max \/ v.slot[y].back = v.surf[v.slot[y].surf].pos
        BY DEF Remembers
    <2>1. CASE y = id
        BY <1>3, <1>4, <2>1 DEF Changes, s
    <2>2. CASE y # id
        <3>1. w.slot[y].used /\ w.slot[y].surf # s /\ w.slot[y].surf \in Surfaces /\ v.slot[y] = w.slot[y]
            BY <1>3, <1>5, <2>2 DEF ManagerInv, Numbered, s
        <3>2. v.surf[w.slot[y].surf] = w.surf[w.slot[y].surf]
            BY <1>4, <3>1
        <3> QED
            BY <3>1, <3>2 DEF ManagerInv, Remembers
    <2> QED
        BY <2>1, <2>2
<1>9. Focused(v, tied)
    BY <1>5 DEF ManagerInv, Focused, Changes
<1> QED
    BY <1>6, <1>7, <1>8, <1>9 DEF ManagerInv

\* A window and its surface.
LEMMA WindowOf ==
    ASSUME NEW w, NEW n, NEW tied, ManagerInv(w, n, tied), NEW id, Live(w, id)
    PROVE  /\ id \in Ids /\ w.slot[id].used /\ w.slot[id].surf \in Surfaces
           /\ IsSlot(w.slot[id]) /\ IsSurface(w.surf[w.slot[id].surf])
           /\ w.slot[id].max \/ w.slot[id].back = w.surf[w.slot[id].surf].pos
BY Zenon DEF Live, ManagerInv, Numbered, IsManager, Remembers

\* A call that leaves a well formed slot and surface in a window.
LEMMA WithKeeps ==
    ASSUME NEW w, NEW n, NEW tied, ManagerInv(w, n, tied), NEW id, Live(w, id), NEW a, NEW b,
           IsSlot(a), a.used = w.slot[id].used, a.surf = w.slot[id].surf, IsSurface(b), a.max \/ a.back = b.pos
    PROVE  ManagerInv(With(w, id, a, b), n, tied)
PROOF
<1> DEFINE s == w.slot[id].surf
           v == With(w, id, a, b)
<1>1. id \in Ids /\ w.slot[id].used
    BY DEF Live
<1>2. PICK slot, next, active, focus, kb, surf, comp : w = Manager(slot, next, active, focus, kb, surf, comp)
    BY FieldsOf
<1>3. [w EXCEPT !.slot[id] = a] = Manager([slot EXCEPT ![id] = a], next, active, focus, kb, surf, comp)
    BY <1>2 DEF Manager
<1>4. v = [Manager([slot EXCEPT ![id] = a], next, active, focus, kb, surf, comp) EXCEPT !.surf[s] = b]
    BY <1>3, Zenon DEF With
<1>5. v = Manager([slot EXCEPT ![id] = a], next, active, focus, kb, [surf EXCEPT ![s] = b], comp)
    <2> HIDE DEF v, s
    <2> QED
        BY <1>4 DEF Manager
<1>6. v = [slot |-> [w.slot EXCEPT ![id] = a], next |-> w.next, active |-> w.active, focus |-> w.focus,
           kb |-> w.kb, surf |-> [w.surf EXCEPT ![s] = b], comp |-> w.comp]
    BY <1>2, <1>5, Selected, Zenon DEF Manager
<1> HIDE DEF v
<1>7. v.focus = w.focus /\ v.kb = w.kb
    BY <1>6
<1>8. Changes(w, v, id, a, b)
    BY <1>1, <1>6, <1>7, Zenon DEF Changes
<1> QED
    BY <1>1, <1>8, ChangeKeeps, Zenon DEF v

\* wm_move()
LEMMA MoveKeeps ==
    ASSUME NEW w, NEW n, NEW tied, ManagerInv(w, n, tied), NEW id, NEW p
    PROVE  ManagerInv(MoveTo(w, id, p), n, tied)
PROOF
<1>1. CASE ~Live(w, id)
    BY <1>1 DEF MoveTo
<1>2. CASE Live(w, id)
    <2>1. IsSlot(w.slot[id]) /\ IsSurface(w.surf[w.slot[id].surf])
        BY <1>2, WindowOf, Zenon
    <2>2. PICK q : q = IF w.slot[id].max THEN w.slot[id].back ELSE p
        BY Zenon
    <2>3. PICK a : /\ a = SetBack(w.slot[id], q)
                   /\ IsSlot(a) /\ a.used = w.slot[id].used /\ a.surf = w.slot[id].surf
                   /\ a.max = w.slot[id].max /\ a.back = q
        <3>1. /\ IsSlot(SetBack(w.slot[id], q))
              /\ SetBack(w.slot[id], q).used = w.slot[id].used
              /\ SetBack(w.slot[id], q).surf = w.slot[id].surf
              /\ SetBack(w.slot[id], q).max = w.slot[id].max
              /\ SetBack(w.slot[id], q).back = q
            BY <2>1, SlotBack, Zenon
        <3> QED
            BY <3>1, Zenon
    <2>4. PICK b : /\ b = SetPos(w.surf[w.slot[id].surf], p)
                   /\ IsSurface(b) /\ b.pos = p
        <3>1. /\ IsSurface(SetPos(w.surf[w.slot[id].surf], p))
              /\ SetPos(w.surf[w.slot[id].surf], p).pos = p
            BY <2>1, SurfacePos, Zenon
        <3> QED
            BY <3>1, Zenon
    <2>5. MoveTo(w, id, p) = With(w, id, a, b)
        BY <1>2, <2>2, <2>3, <2>4, Zenon DEF MoveTo, SurfOf, SetBack, SetPos
    <2>6. a.max \/ a.back = b.pos
        BY <2>2, <2>3, <2>4, Zenon
    <2> QED
        BY <1>2, <2>3, <2>4, <2>5, <2>6, WithKeeps, Zenon
<1> QED
    BY <1>1, <1>2

\* compositor_raise()
LEMMA RaiseKeeps ==
    ASSUME NEW w, NEW n, NEW tied, ManagerInv(w, n, tied), NEW id
    PROVE  ManagerInv(Raise(w, id), n, tied)
PROOF
<1>1. CASE ~Live(w, id)
    BY <1>1 DEF Raise
<1>2. CASE Live(w, id)
    <2>1. PICK s, z, a : s = w.slot[id].surf /\ z = Smaller(TopZ(w) + 1, UserMax) /\ a = w.slot[id]
        BY Zenon
    <2>2. /\ id \in Ids /\ a.used /\ s \in Surfaces /\ a.surf = s
          /\ IsSlot(a) /\ IsSurface(w.surf[s]) /\ (a.max \/ a.back = w.surf[s].pos)
        BY <1>2, <2>1, WindowOf, Zenon
    <2>3. PICK b : b = SetZ(w.surf[s], z) /\ IsSurface(b) /\ b.pos = w.surf[s].pos
        <3>1. IsSurface(SetZ(w.surf[s], z)) /\ SetZ(w.surf[s], z).pos = w.surf[s].pos
            BY <2>2, SurfaceZ, Zenon
        <3> QED
            BY <3>1, Zenon
    <2>4. PICK v : v = Raise(w, id)
        BY Zenon
    <2>5. v = [w EXCEPT !.surf[s].z = z]
        BY <1>2, <2>1, <2>4, Zenon DEF Raise
    <2>6. v = [slot |-> w.slot, next |-> w.next, active |-> w.active, focus |-> w.focus, kb |-> w.kb,
               surf |-> [w.surf EXCEPT ![s] = b], comp |-> w.comp]
        <3>1. PICK slot, next, active, focus, kb, surf, comp : w = Manager(slot, next, active, focus, kb, surf, comp)
            BY FieldsOf
        <3>2. v = [slot |-> slot, next |-> next, active |-> active, focus |-> focus, kb |-> kb,
                   surf |-> [surf EXCEPT ![s].z = z], comp |-> comp]
            BY <2>5, <3>1 DEF Manager
        <3>3. /\ w.slot = slot /\ w.next = next /\ w.active = active /\ w.focus = focus /\ w.kb = kb
              /\ w.surf = surf /\ w.comp = comp
            BY <3>1 DEF Manager
        <3> QED
            BY <2>3, <3>2, <3>3, Zenon DEF SetZ
    <2>7. w.slot = [w.slot EXCEPT ![id] = a]
        BY <2>1, <2>2 DEF ManagerInv, IsManager
    <2>8. v = [slot |-> [w.slot EXCEPT ![id] = a], next |-> w.next, active |-> w.active, focus |-> w.focus,
               kb |-> w.kb, surf |-> [w.surf EXCEPT ![w.slot[id].surf] = b], comp |-> w.comp]
        BY <2>1, <2>6, <2>7, Zenon
    <2>9. v.focus = w.focus /\ v.kb = w.kb
        BY <2>6
    <2>10. Changes(w, v, id, a, b)
        BY <2>1, <2>2, <2>3, <2>8, <2>9, Zenon DEF Changes
    <2> QED
        BY <2>1, <2>2, <2>4, <2>10, ChangeKeeps, Zenon
<1> QED
    BY <1>1, <1>2

\* The focus moves to a window, or away from all.
LEMMA FocusKeeps ==
    ASSUME NEW w, NEW n, NEW tied, ManagerInv(w, n, tied), NEW id, id = None \/ Live(w, id)
    PROVE  ManagerInv([w EXCEPT !.focus = id, !.kb = id], n, tied)
PROOF
<1> DEFINE v == [w EXCEPT !.focus = id, !.kb = id]
<1>1. v = [slot |-> w.slot, next |-> w.next, active |-> w.active, focus |-> id, kb |-> id,
           surf |-> w.surf, comp |-> w.comp]
    <2>1. PICK slot, next, active, focus, kb, surf, comp : w = Manager(slot, next, active, focus, kb, surf, comp)
        BY FieldsOf
    <2>2. [w EXCEPT !.focus = id] = Manager(slot, next, active, id, kb, surf, comp)
        BY <2>1 DEF Manager
    <2>3. [Manager(slot, next, active, id, kb, surf, comp) EXCEPT !.kb = id]
              = Manager(slot, next, active, id, id, surf, comp)
        BY DEF Manager
    <2>4. v = Manager(slot, next, active, id, id, surf, comp)
        BY <2>2, <2>3, Zenon
    <2> QED
        BY <2>1, <2>4, Selected, Zenon DEF Manager
<1> HIDE DEF v
<1>2. /\ v.slot = w.slot /\ v.next = w.next /\ v.active = w.active /\ v.focus = id /\ v.kb = id
      /\ v.surf = w.surf /\ v.comp = w.comp
    BY <1>1
<1>3. IsManager(v)
    BY <1>1, <1>2 DEF ManagerInv, IsManager
<1>4. Numbered(v, n) /\ Remembers(v)
    BY <1>2 DEF ManagerInv, Numbered, Remembers
<1>5. Focused(v, tied)
    BY <1>2 DEF Focused, Live
<1> QED
    BY <1>3, <1>4, <1>5 DEF ManagerInv, v

LEMMA DropFocusKeeps ==
    ASSUME NEW w, NEW n, NEW tied, ManagerInv(w, n, tied), NEW id \in Ids
    PROVE  ManagerInv(DropFocus(w, id), n, tied) /\ DropFocus(w, id).focus # id
PROOF
<1>1. id # None
    BY DEF Ids, None
<1>2. CASE w.focus = id
    <2>1. DropFocus(w, id) = [w EXCEPT !.focus = None, !.kb = None]
        BY <1>2 DEF DropFocus
    <2>2. [w EXCEPT !.focus = None, !.kb = None].focus = None
        BY DEF ManagerInv, IsManager
    <2>3. ManagerInv([w EXCEPT !.focus = None, !.kb = None], n, tied)
        BY FocusKeeps, Zenon
    <2> QED
        BY <1>1, <2>1, <2>2, <2>3, Zenon
<1>3. CASE w.focus # id
    BY <1>3 DEF DropFocus
<1> QED
    BY <1>2, <1>3

\* wm_set_focus()
LEMMA SetFocusKeeps ==
    ASSUME NEW w, NEW n, NEW tied, ManagerInv(w, n, tied), NEW id
    PROVE  ManagerInv(SetFocus(w, id), n, tied)
PROOF
<1>1. CASE id # None /\ ~Live(w, id)
    BY <1>1 DEF SetFocus
<1>2. CASE id = None \/ Live(w, id)
    BY <1>2, FocusKeeps, RaiseKeeps, Zenon DEF SetFocus
<1> QED
    BY <1>1, <1>2

\* wm_unregister_window()
LEMMA UnregisterKeeps ==
    ASSUME NEW w, NEW n, NEW tied, ManagerInv(w, n, tied), NEW id
    PROVE  ManagerInv(Unregister(w, id), n, tied)
PROOF
<1>1. CASE ~Live(w, id)
    BY <1>1 DEF Unregister
<1>2. CASE Live(w, id)
    <2>1. PICK u : u = DropFocus(w, id) /\ ManagerInv(u, n, tied) /\ u.focus # id /\ id \in Ids
        BY <1>2, DropFocusKeeps DEF Live
    <2>2. PICK s : s = w.slot[id].surf
        OBVIOUS
    <2> DEFINE v == [u EXCEPT !.comp = @ \ {s}, !.slot[id] = FreeSlot]
    <2>3. v = [slot |-> [u.slot EXCEPT ![id] = FreeSlot], next |-> u.next, active |-> u.active,
               focus |-> u.focus, kb |-> u.kb, surf |-> u.surf, comp |-> u.comp \ {s}]
        <3>1. PICK slot, next, active, focus, kb, surf, comp : u = Manager(slot, next, active, focus, kb, surf, comp)
            BY <2>1, FieldsOf
        <3>2. [u EXCEPT !.comp = @ \ {s}] = Manager(slot, next, active, focus, kb, surf, comp \ {s})
            BY <3>1 DEF Manager
        <3>3. v = [Manager(slot, next, active, focus, kb, surf, comp \ {s}) EXCEPT !.slot[id] = FreeSlot]
            BY <3>2, Zenon
        <3>4. v = Manager([slot EXCEPT ![id] = FreeSlot], next, active, focus, kb, surf, comp \ {s})
            BY <3>3 DEF Manager
        <3> QED
            BY <3>1, <3>4, Selected, Zenon DEF Manager
    <2>4. Unregister(w, id) = v
        BY <1>2, <2>1, <2>2 DEF Unregister
    <2> HIDE DEF v
    <2>5. /\ v.slot = [u.slot EXCEPT ![id] = FreeSlot] /\ v.next = u.next /\ v.active = u.active
          /\ v.focus = u.focus /\ v.kb = u.kb /\ v.surf = u.surf /\ v.comp = u.comp \ {s}
        BY <2>3
    <2>6. /\ v.slot = [y \in Ids |-> v.slot[y]] /\ v.slot[id] = FreeSlot
          /\ \A y \in Ids : y # id => v.slot[y] = u.slot[y]
        BY <2>1, <2>5 DEF ManagerInv, IsManager
    <2>7. IsSlot(FreeSlot) /\ ~FreeSlot.used
        BY DEF FreeSlot, IsSlot
    <2>8. IsManager(v)
        <3>1. \A y \in Ids : IsSlot(v.slot[y])
            BY <2>1, <2>6, <2>7 DEF ManagerInv, IsManager
        <3> QED
            BY <2>1, <2>3, <2>5, <2>6, <3>1 DEF ManagerInv, IsManager
    <2>9. Numbered(v, n)
        BY <2>1, <2>5, <2>6, <2>7 DEF ManagerInv, Numbered
    <2>10. Remembers(v)
        BY <2>1, <2>5, <2>6, <2>7 DEF ManagerInv, Remembers
    <2>11. Focused(v, tied)
        BY <2>1, <2>5, <2>6 DEF ManagerInv, Focused
    <2> QED
        BY <2>4, <2>8, <2>9, <2>10, <2>11 DEF ManagerInv
<1> QED
    BY <1>1, <1>2

\* wm_minimize()
LEMMA MinimizeKeeps ==
    ASSUME NEW w, NEW n, NEW tied, ManagerInv(w, n, tied), NEW id
    PROVE  ManagerInv(Minimize(w, id), n, tied)
PROOF
<1>1. CASE ~Live(w, id)
    BY <1>1 DEF Minimize
<1>2. CASE Live(w, id)
    <2>1. /\ id \in Ids /\ IsSlot(w.slot[id]) /\ IsSurface(w.surf[w.slot[id].surf])
          /\ w.slot[id].max \/ w.slot[id].back = w.surf[w.slot[id].surf].pos
        BY <1>2, WindowOf, Zenon
    <2>2. PICK a : /\ a = SetMin(w.slot[id], TRUE)
                   /\ IsSlot(a) /\ a.used = w.slot[id].used /\ a.surf = w.slot[id].surf
                   /\ a.max = w.slot[id].max /\ a.back = w.slot[id].back
        <3>1. /\ IsSlot(SetMin(w.slot[id], TRUE))
              /\ SetMin(w.slot[id], TRUE).used = w.slot[id].used
              /\ SetMin(w.slot[id], TRUE).surf = w.slot[id].surf
              /\ SetMin(w.slot[id], TRUE).max = w.slot[id].max
              /\ SetMin(w.slot[id], TRUE).back = w.slot[id].back
            BY <2>1, SlotMin, Zenon
        <3> QED
            BY <3>1, Zenon
    <2>3. PICK b : /\ b = SetVis(w.surf[w.slot[id].surf], FALSE)
                   /\ IsSurface(b) /\ b.pos = w.surf[w.slot[id].surf].pos
        <3>1. /\ IsSurface(SetVis(w.surf[w.slot[id].surf], FALSE))
              /\ SetVis(w.surf[w.slot[id].surf], FALSE).pos = w.surf[w.slot[id].surf].pos
            BY <2>1, SurfaceVis, Zenon
        <3> QED
            BY <3>1, Zenon
    <2>4. Minimize(w, id) = DropFocus(With(w, id, a, b), id)
        BY <1>2, <2>2, <2>3, Zenon DEF Minimize, SurfOf, SetMin, SetVis
    <2>5. a.max \/ a.back = b.pos
        BY <2>1, <2>2, <2>3, Zenon
    <2>6. ManagerInv(With(w, id, a, b), n, tied)
        BY <1>2, <2>2, <2>3, <2>5, WithKeeps, Zenon
    <2> QED
        BY <2>1, <2>4, <2>6, DropFocusKeeps, Zenon
<1> QED
    BY <1>1, <1>2

\* wm_maximize()
LEMMA MaximizeKeeps ==
    ASSUME NEW w, NEW n, NEW tied, ManagerInv(w, n, tied), NEW id
    PROVE  ManagerInv(Maximize(w, id), n, tied)
PROOF
<1>1. CASE ~Live(w, id)
    BY <1>1 DEF Maximize
<1>2. CASE Live(w, id)
    <2>1. PICK q, t, f, o : /\ q = (IF w.slot[id].max THEN w.slot[id].back ELSE SurfOf(w, id).pos)
                            /\ t = TRUE /\ f = FALSE /\ o = <<0, 0>>
        BY Zenon
    <2>2. /\ id \in Ids /\ IsSlot(w.slot[id]) /\ IsSurface(w.surf[w.slot[id].surf])
          /\ w.slot[id].max \/ w.slot[id].back = w.surf[w.slot[id].surf].pos
        BY <1>2, WindowOf, Zenon
    <2>3. PICK a : /\ a = Maximized(w.slot[id], f, t, q)
                   /\ IsSlot(a) /\ a.used = w.slot[id].used /\ a.surf = w.slot[id].surf /\ a.max = t
        <3>1. /\ IsSlot(Maximized(w.slot[id], f, t, q))
              /\ Maximized(w.slot[id], f, t, q).used = w.slot[id].used
              /\ Maximized(w.slot[id], f, t, q).surf = w.slot[id].surf
              /\ Maximized(w.slot[id], f, t, q).max = t
            BY <2>2, SlotMaximized
        <3> QED
            BY <3>1, Zenon
    <2>4. PICK b : /\ b = Placed(w.surf[w.slot[id].surf], t, o)
                   /\ IsSurface(b) /\ b.pos = o
        <3>1. /\ IsSurface(Placed(w.surf[w.slot[id].surf], t, o))
              /\ Placed(w.surf[w.slot[id].surf], t, o).pos = o
            BY <2>2, SurfacePlaced
        <3> QED
            BY <3>1, Zenon
    <2>5. Maximize(w, id) = Raise(With(w, id, a, b), id)
        BY <1>2, <2>1, <2>3, <2>4, Zenon DEF Maximize, SurfOf, Maximized, Placed
    <2>6. a.max \/ a.back = b.pos
        BY <2>1, <2>2, <2>3, <2>4, Zenon
    <2>7. ManagerInv(With(w, id, a, b), n, tied)
        BY <1>2, <2>3, <2>4, <2>6, WithKeeps, Zenon
    <2> QED
        BY <2>2, <2>5, <2>7, RaiseKeeps, Zenon
<1> QED
    BY <1>1, <1>2

\* wm_restore()
LEMMA RestoreKeeps ==
    ASSUME NEW w, NEW n, NEW tied, ManagerInv(w, n, tied), NEW id
    PROVE  ManagerInv(Restore(w, id), n, tied)
PROOF
<1>1. CASE ~Live(w, id)
    BY <1>1 DEF Restore
<1>2. CASE Live(w, id)
    <2>1. PICK q, m : /\ q = (IF w.slot[id].max THEN w.slot[id].back ELSE w.surf[w.slot[id].surf].pos)
                      /\ m = (w.surf[w.slot[id].surf].vis \/ w.slot[id].min)
        BY Zenon
    <2>2. /\ id \in Ids /\ IsSlot(w.slot[id]) /\ IsSurface(w.surf[w.slot[id].surf])
          /\ w.slot[id].max \/ w.slot[id].back = w.surf[w.slot[id].surf].pos
        BY <1>2, WindowOf, Zenon
    <2>3. PICK a : /\ a = Restored(w.slot[id], FALSE)
                   /\ IsSlot(a) /\ a.used = w.slot[id].used /\ a.surf = w.slot[id].surf /\ a.back = w.slot[id].back
        <3>1. /\ IsSlot(Restored(w.slot[id], FALSE))
              /\ Restored(w.slot[id], FALSE).used = w.slot[id].used
              /\ Restored(w.slot[id], FALSE).surf = w.slot[id].surf
              /\ Restored(w.slot[id], FALSE).back = w.slot[id].back
            BY <2>2, SlotRestored, Zenon
        <3> QED
            BY <3>1, Zenon
    <2>4. PICK b : /\ b = Placed(w.surf[w.slot[id].surf], m, q)
                   /\ IsSurface(b) /\ b.pos = q
        <3>1. /\ IsSurface(Placed(w.surf[w.slot[id].surf], m, q))
              /\ Placed(w.surf[w.slot[id].surf], m, q).pos = q
            BY <2>2, SurfacePlaced
        <3> QED
            BY <3>1, Zenon
    <2>5. Restore(w, id) = With(w, id, a, b)
        BY <1>2, <2>1, <2>3, <2>4, Zenon DEF Restore, SurfOf, Restored, Placed
    <2>6. a.max \/ a.back = b.pos
        BY <2>1, <2>2, <2>3, <2>4, Zenon
    <2>7. ManagerInv(With(w, id, a, b), n, tied)
        BY <1>2, <2>3, <2>4, <2>6, WithKeeps, Zenon
    <2> QED
        BY <2>2, <2>5, <2>7, Zenon
<1> QED
    BY <1>1, <1>2

\* The surfaces change, but none that a window has is moved.
LEMMA SurfacesKeep ==
    ASSUME NEW w, NEW n, NEW tied, ManagerInv(w, n, tied), NEW i, NEW g,
           g = [s \in Surfaces |-> g[s]], \A s \in Surfaces : IsSurface(g[s]) /\ g[s].pos = w.surf[s].pos
    PROVE  ManagerInv([w EXCEPT !.active = i, !.surf = g], n, tied)
PROOF
<1> DEFINE v == [w EXCEPT !.active = i, !.surf = g]
<1>1. v = [slot |-> w.slot, next |-> w.next, active |-> i, focus |-> w.focus, kb |-> w.kb,
           surf |-> g, comp |-> w.comp]
    <2>1. PICK slot, next, active, focus, kb, surf, comp : w = Manager(slot, next, active, focus, kb, surf, comp)
        BY FieldsOf
    <2>2. [w EXCEPT !.active = i] = Manager(slot, next, i, focus, kb, surf, comp)
        BY <2>1 DEF Manager
    <2>3. [Manager(slot, next, i, focus, kb, surf, comp) EXCEPT !.surf = g]
              = Manager(slot, next, i, focus, kb, g, comp)
        BY DEF Manager
    <2>4. v = Manager(slot, next, i, focus, kb, g, comp)
        BY <2>2, <2>3, Zenon
    <2> QED
        BY <2>1, <2>4, Selected, Zenon DEF Manager
<1> HIDE DEF v
<1>2. /\ v.slot = w.slot /\ v.next = w.next /\ v.active = i /\ v.focus = w.focus /\ v.kb = w.kb
      /\ v.surf = g /\ v.comp = w.comp
    BY <1>1
<1>3. IsManager(v)
    BY <1>1, <1>2 DEF ManagerInv, IsManager
<1>4. Numbered(v, n) /\ Focused(v, tied)
    BY <1>2 DEF ManagerInv, Numbered, Focused
<1>5. Remembers(v)
    <2> SUFFICES ASSUME NEW id \in Ids, w.slot[id].used
                 PROVE  w.slot[id].max \/ w.slot[id].back = g[w.slot[id].surf].pos
        BY <1>2, Zenon DEF Remembers
    <2>1. w.slot[id].surf \in Surfaces /\ (w.slot[id].max \/ w.slot[id].back = w.surf[w.slot[id].surf].pos)
        BY WindowOf, Zenon DEF Live
    <2> QED
        BY <2>1, Zenon
<1> QED
    BY <1>3, <1>4, <1>5 DEF ManagerInv, v

\* wm_set_active_desktop()
LEMMA SwitchKeeps ==
    ASSUME NEW w, NEW n, NEW tied, ManagerInv(w, n, tied), NEW index
    PROVE  ManagerInv(SwitchDesktop(w, index), n, tied)
PROOF
<1> DEFINE of(s) == {id \in Ids : Live(w, id) /\ w.slot[id].surf = s}
           shown(s) == \E id \in of(s) : Shown(w, id, index)
           g == [s \in Surfaces |-> IF of(s) = {} THEN w.surf[s] ELSE SetVis(w.surf[s], shown(s))]
<1>1. SwitchDesktop(w, index) = [w EXCEPT !.active = index, !.surf = g]
    <2>1. w.surf = [w EXCEPT !.active = index].surf
        BY DEF ManagerInv, IsManager
    <2> QED
        BY <2>1 DEF SwitchDesktop, SetVis
<1>2. ASSUME NEW s \in Surfaces
      PROVE  IsSurface(g[s]) /\ g[s].pos = w.surf[s].pos
    <2> HIDE DEF of, shown
    <2>1. IsSurface(w.surf[s])
        BY Zenon DEF ManagerInv, IsManager
    <2>2. IsSurface(SetVis(w.surf[s], shown(s))) /\ SetVis(w.surf[s], shown(s)).pos = w.surf[s].pos
        BY <2>1, SurfaceVis
    <2>3. g[s] = w.surf[s] \/ g[s] = SetVis(w.surf[s], shown(s))
        BY Zenon
    <2> QED
        BY <2>1, <2>2, <2>3, Zenon
<1>3. g = [s \in Surfaces |-> g[s]]
    <2> HIDE DEF of, shown
    <2> QED
        BY Zenon
<1> HIDE DEF g
<1>4. ManagerInv([w EXCEPT !.active = index, !.surf = g], n, tied)
    BY <1>2, <1>3, SurfacesKeep, Zenon
<1> QED
    BY <1>1, <1>4, Zenon

\* wm_register_window(): the next number is used up, and with a place in the compositor
\* it names a window at p.
LEMMA RegisterForm ==
    ASSUME NEW w, NEW n, NEW tied, ManagerInv(w, n, tied), NEW s \in Surfaces, NEW p, NEW z, w.next <= MaxWindows
    PROVE  \E a, b, c :
               /\ Register(w, s, p, z)
                      = [slot |-> [w.slot EXCEPT ![w.next] = a], next |-> w.next + 1, active |-> w.active,
                         focus |-> w.focus, kb |-> w.kb, surf |-> [w.surf EXCEPT ![s] = b], comp |-> c]
               /\ IsSlot(a) /\ (a.used => a.surf = s /\ a.back = p)
               /\ IsSurface(b) /\ b.pos = p
PROOF
<1> DEFINE refused == s \notin w.comp /\ Cardinality(w.comp) >= MaxSurfaces
           c == IF refused THEN w.comp ELSE w.comp \cup {s}
           a == IF refused THEN FreeSlot ELSE WindowSlot(s, w.active, p)
           b == [w.surf[s] EXCEPT !.pos = p, !.z = Smaller(z, UserMax)]
           v == Register(w, s, p, z)
<1>1. w.next \in Nat /\ MaxWindows \in Nat
    BY DesktopAssumption DEF ManagerInv, Numbered
<1>2. v = [w EXCEPT !.next = w.next + 1, !.surf[s] = b, !.comp = c, !.slot[w.next] = a]
    BY <1>1 DEF Register
<1>3. PICK slot, next, active, focus, kb, surf, comp : w = Manager(slot, next, active, focus, kb, surf, comp)
    BY FieldsOf
<1>4. IsSlot(a) /\ (a.used => a.surf = s /\ a.back = p)
    <2>1. IsSlot(FreeSlot) /\ ~FreeSlot.used
        BY DEF IsSlot, FreeSlot
    <2>2. IsSlot(WindowSlot(s, w.active, p)) /\ WindowSlot(s, w.active, p).surf = s
          /\ WindowSlot(s, w.active, p).back = p
        BY DEF IsSlot, WindowSlot
    <2>3. a = FreeSlot \/ a = WindowSlot(s, w.active, p)
        BY Zenon
    <2> HIDE DEF a
    <2> QED
        BY <2>1, <2>2, <2>3, Zenon
<1>5. IsSurface(b) /\ b.pos = p
    <2>1. IsSurface(w.surf[s])
        BY Zenon DEF ManagerInv, IsManager
    <2>2. PICK y : y = Smaller(z, UserMax)
        BY Zenon
    <2>3. PICK x : x = SetPos(w.surf[s], p)
        BY Zenon
    <2>4. IsSurface(x) /\ x.pos = p
        BY <2>1, <2>3, SurfacePos
    <2>5. b = [x EXCEPT !.z = y]
        BY <2>2, <2>3, Zenon DEF SetPos
    <2> HIDE DEF b
    <2> QED
        BY <2>4, <2>5 DEF IsSurface
<1>6. /\ slot = w.slot /\ next = w.next /\ active = w.active /\ focus = w.focus /\ kb = w.kb /\ surf = w.surf
    BY <1>3 DEF Manager
<1> HIDE DEF a, b, c, v
<1>7. v = Manager([slot EXCEPT ![w.next] = a], w.next + 1, active, focus, kb, [surf EXCEPT ![s] = b], c)
    <2>1. PICK k, m : k = w.next /\ m = w.next + 1
        BY Zenon
    <2>2. [w EXCEPT !.next = m] = Manager(slot, m, active, focus, kb, surf, comp)
        BY <1>3 DEF Manager
    <2>3. [Manager(slot, m, active, focus, kb, surf, comp) EXCEPT !.surf[s] = b]
              = Manager(slot, m, active, focus, kb, [surf EXCEPT ![s] = b], comp)
        BY DEF Manager
    <2>4. [Manager(slot, m, active, focus, kb, [surf EXCEPT ![s] = b], comp) EXCEPT !.comp = c]
              = Manager(slot, m, active, focus, kb, [surf EXCEPT ![s] = b], c)
        BY DEF Manager
    <2>5. [Manager(slot, m, active, focus, kb, [surf EXCEPT ![s] = b], c) EXCEPT !.slot[k] = a]
              = Manager([slot EXCEPT ![k] = a], m, active, focus, kb, [surf EXCEPT ![s] = b], c)
        BY DEF Manager
    <2>6. v = [[[[w EXCEPT !.next = m] EXCEPT !.surf[s] = b] EXCEPT !.comp = c] EXCEPT !.slot[k] = a]
        BY <1>2, <2>1, Zenon
    <2>7. v = [[[Manager(slot, m, active, focus, kb, surf, comp)
                    EXCEPT !.surf[s] = b] EXCEPT !.comp = c] EXCEPT !.slot[k] = a]
        BY <2>2, <2>6, Zenon
    <2>8. v = [[Manager(slot, m, active, focus, kb, [surf EXCEPT ![s] = b], comp)
                    EXCEPT !.comp = c] EXCEPT !.slot[k] = a]
        BY <2>3, <2>7, Zenon
    <2>9. v = Manager([slot EXCEPT ![k] = a], m, active, focus, kb, [surf EXCEPT ![s] = b], c)
        BY <2>4, <2>5, <2>8, Zenon
    <2> QED
        BY <2>1, <2>9, Zenon
<1>8. v = [slot |-> [w.slot EXCEPT ![w.next] = a], next |-> w.next + 1, active |-> w.active,
           focus |-> w.focus, kb |-> w.kb, surf |-> [w.surf EXCEPT ![s] = b], comp |-> c]
    BY <1>6, <1>7, Zenon DEF Manager
<1> QED
    BY <1>4, <1>5, <1>8, Zenon DEF v

LEMMA RegisterKeeps ==
    ASSUME NEW w, NEW n \in Nat, NEW tied, ManagerInv(w, n, tied), NEW s \in Surfaces, NEW p, NEW z,
           NEW k \in Nat, n <= k, \A i \in DOMAIN Terms : s = Terms[i] => i <= k,
           \A id \in Ids : w.slot[id].used => w.slot[id].surf # s
    PROVE  ManagerInv(Register(w, s, p, z), k, tied)
PROOF
<1>1. ManagerInv(w, k, tied)
    <2>1. Numbered(w, k)
        BY DesktopAssumption DEF ManagerInv, Numbered
    <2> QED
        BY <2>1, Zenon DEF ManagerInv
<1>2. w.next \in Nat \ {0} /\ MaxWindows \in Nat
    BY DesktopAssumption DEF ManagerInv, Numbered
<1>3. CASE w.next > MaxWindows
    BY <1>1, <1>3 DEF Register
<1>4. CASE w.next <= MaxWindows
    <2> DEFINE v == Register(w, s, p, z)
    <2>1. PICK a, b, c :
               /\ v = [slot |-> [w.slot EXCEPT ![w.next] = a], next |-> w.next + 1, active |-> w.active,
                       focus |-> w.focus, kb |-> w.kb, surf |-> [w.surf EXCEPT ![s] = b], comp |-> c]
               /\ IsSlot(a) /\ (a.used => a.surf = s /\ a.back = p)
               /\ IsSurface(b) /\ b.pos = p
        BY <1>4, RegisterForm
    <2> HIDE DEF v
    <2>2. /\ v.slot = [w.slot EXCEPT ![w.next] = a] /\ v.next = w.next + 1 /\ v.active = w.active
          /\ v.focus = w.focus /\ v.kb = w.kb /\ v.surf = [w.surf EXCEPT ![s] = b] /\ v.comp = c
        BY <2>1
    <2>3. w.next \in Ids /\ ~w.slot[w.next].used
        BY <1>2, <1>4 DEF Ids, ManagerInv, Numbered
    <2>4. /\ v.slot = [y \in Ids |-> v.slot[y]] /\ v.slot[w.next] = a
          /\ \A y \in Ids : y # w.next => v.slot[y] = w.slot[y]
        BY <2>2, <2>3 DEF ManagerInv, IsManager
    <2>5. /\ v.surf = [y \in Surfaces |-> v.surf[y]] /\ v.surf[s] = b
          /\ \A y \in Surfaces : y # s => v.surf[y] = w.surf[y]
        BY <2>2 DEF ManagerInv, IsManager
    <2>6. IsManager(v)
        <3>1. \A y \in Ids : IsSlot(v.slot[y])
            BY <2>1, <2>4 DEF ManagerInv, IsManager
        <3>2. \A y \in Surfaces : IsSurface(v.surf[y])
            BY <2>1, <2>5 DEF ManagerInv, IsManager
        <3>3. v = [slot |-> v.slot, next |-> v.next, active |-> v.active, focus |-> v.focus,
                   kb |-> v.kb, surf |-> v.surf, comp |-> v.comp]
            BY <2>1
        <3> QED
            BY <2>4, <2>5, <3>1, <3>2, <3>3 DEF IsManager
    <2>7. Numbered(v, k)
        <3>1. v.next \in Nat \ {0}
            BY <1>2, <2>2
        <3>2. ASSUME NEW y \in Ids, v.slot[y].used
              PROVE  /\ y < v.next /\ v.slot[y].surf \in Surfaces
                     /\ \A i \in DOMAIN Terms : v.slot[y].surf = Terms[i] => i <= k
            <4>1. CASE y = w.next
                BY <1>2, <2>1, <2>2, <2>4, <3>2, <4>1
            <4>2. CASE y # w.next
                <5>1. v.slot[y] = w.slot[y] /\ w.slot[y].used
                    BY <2>4, <3>2, <4>2
                <5>2. y < w.next /\ w.slot[y].surf \in Surfaces
                    BY <5>1 DEF ManagerInv, Numbered
                <5>3. \A i \in DOMAIN Terms : w.slot[y].surf = Terms[i] => i <= k
                    BY <1>1, <5>1, Zenon DEF ManagerInv, Numbered
                <5> QED
                    BY <1>2, <2>2, <5>1, <5>2, <5>3 DEF Ids
            <4> QED
                BY <4>1, <4>2
        <3>3. ASSUME NEW x \in Ids, NEW y \in Ids, v.slot[x].used, v.slot[y].used, v.slot[x].surf = v.slot[y].surf
              PROVE  x = y
            <4>1. CASE x = w.next
                BY <2>1, <2>4, <3>3, <4>1
            <4>2. CASE y = w.next
                BY <2>1, <2>4, <3>3, <4>2
            <4>3. CASE x # w.next /\ y # w.next
                BY <2>4, <3>3, <4>3 DEF ManagerInv, Numbered
            <4> QED
                BY <4>1, <4>2, <4>3
        <3> QED
            BY <3>1, <3>2, <3>3, Zenon DEF Numbered
    <2>8. Remembers(v)
        <3> SUFFICES ASSUME NEW y \in Ids, v.slot[y].used
                     PROVE  v.slot[y].max \/ v.slot[y].back = v.surf[v.slot[y].surf].pos
            BY DEF Remembers
        <3>1. CASE y = w.next
            BY <2>1, <2>4, <2>5, <3>1
        <3>2. CASE y # w.next
            <4>1. v.slot[y] = w.slot[y] /\ w.slot[y].used
                BY <2>4, <3>2
            <4>2. w.slot[y].surf \in Surfaces /\ (w.slot[y].max \/ w.slot[y].back = w.surf[w.slot[y].surf].pos)
                BY <4>1, WindowOf, ZenonT(30) DEF Live
            <4>3. v.surf[w.slot[y].surf] = w.surf[w.slot[y].surf]
                BY <2>5, <4>1, <4>2
            <4> QED
                BY <4>1, <4>2, <4>3, Zenon
        <3> QED
            BY <3>1, <3>2
    <2>9. Focused(v, tied)
        BY <2>2, <2>3, <2>4 DEF ManagerInv, Focused
    <2> QED
        BY <2>6, <2>7, <2>8, <2>9 DEF ManagerInv, v
<1> QED
    BY <1>2, <1>3, <1>4

\* A press routed past the window manager moves the keyboard only.
LEMMA KeyboardKeeps ==
    ASSUME NEW w, NEW n, NEW tied, ManagerInv(w, n, tied), ~tied, NEW k
    PROVE  ManagerInv([w EXCEPT !.kb = k], n, tied)
PROOF
<1> DEFINE v == [w EXCEPT !.kb = k]
<1>1. v = [slot |-> w.slot, next |-> w.next, active |-> w.active, focus |-> w.focus, kb |-> k,
           surf |-> w.surf, comp |-> w.comp]
    <2>1. PICK slot, next, active, focus, kb, surf, comp : w = Manager(slot, next, active, focus, kb, surf, comp)
        BY FieldsOf
    <2> QED
        BY <2>1 DEF Manager
<1> HIDE DEF v
<1>2. /\ v.slot = w.slot /\ v.next = w.next /\ v.active = w.active /\ v.focus = w.focus
      /\ v.surf = w.surf /\ v.comp = w.comp
    BY <1>1
<1>3. IsManager(v)
    BY <1>1, <1>2 DEF ManagerInv, IsManager
<1>4. Numbered(v, n) /\ Remembers(v)
    BY <1>2 DEF ManagerInv, Numbered, Remembers
<1>5. Focused(v, tied)
    BY <1>2 DEF ManagerInv, Focused
<1> QED
    BY <1>3, <1>4, <1>5, Zenon DEF ManagerInv, v

\* spawn_demo_terminal(): with a window the terminal counts, without one all is as before.
LEMMA SpawnKeeps ==
    ASSUME NEW w, NEW m \in Nat, NEW tied, ManagerInv(w, m, tied), NEW s \in Surfaces, NEW size, NEW p, NEW z,
           \A i \in DOMAIN Terms : s = Terms[i] => i <= m + 1,
           \A id \in Ids : w.slot[id].used => w.slot[id].surf # s
    PROVE  /\ ManagerInv(SetFocus(Register(Created(w, s, size), s, p, z), w.next), m + 1, tied)
           /\ Register(Created(w, s, size), s, p, z).slot = Created(w, s, size).slot
                  => ManagerInv([Register(Created(w, s, size), s, p, z) EXCEPT !.surf[s] = w.surf[s]], m, tied)
PROOF
<1> DEFINE f == Created(w, s, size)
           x == Register(f, s, p, z)
<1>1. IsSurface(FreshSurface(size))
    BY DEF IsSurface, FreshSurface
<1>2. ManagerInv(f, m, tied)
    BY <1>1, FreshKeeps DEF Created
<1>3. f.slot = w.slot
    BY DEF Created, ManagerInv, IsManager
<1> HIDE DEF f
<1>4. \A id \in Ids : f.slot[id].used => f.slot[id].surf # s
    BY <1>3, Zenon
<1>5. m + 1 \in Nat /\ m <= m + 1
    OBVIOUS
<1>6. ManagerInv(x, m + 1, tied)
    BY <1>2, <1>4, <1>5, RegisterKeeps, Zenon
<1>7. ManagerInv(SetFocus(x, w.next), m + 1, tied)
    BY <1>6, SetFocusKeeps
<1>8. ASSUME x.slot = f.slot
      PROVE  ManagerInv([x EXCEPT !.surf[s] = w.surf[s]], m, tied)
    <2>1. x.slot = w.slot
        BY <1>3, <1>8, Zenon
    <2>2. Numbered(x, m)
        BY <1>6, <2>1, Zenon DEF ManagerInv, Numbered
    <2>3. ManagerInv(x, m, tied)
        BY <1>6, <2>2, Zenon DEF ManagerInv
    <2>4. IsSurface(w.surf[s])
        BY Zenon DEF ManagerInv, IsManager
    <2>5. \A id \in Ids : x.slot[id].used => x.slot[id].surf # s
        BY <2>1, Zenon
    <2> QED
        BY <2>3, <2>4, <2>5, FreshKeeps
<1> QED
    BY <1>7, <1>8 DEF f, x

\* What the poller's variables add: a press the dock has not seen yet still counts, and
\* while the dock only follows the buttons it has opened nothing.
Counted ==
    /\ screen \in Nat \X Nat /\ presses \in Nat
    /\ mouse \in [pos : Int \X Int, left : BOOLEAN]
    /\ dock \in [pc : {"poll", "buttons"}, at : Int \X Int, prev : BOOLEAN, grace : 0 .. Grace, n : Nat]
    /\ dock.grace < Grace => dock.n = 0 /\ dock.pc = "poll"
    /\ dock.grace = Grace => dock.n + (IF mouse.left /\ ~dock.prev THEN 1 ELSE 0) <= presses
DesktopIInv == Counted /\ ManagerInv(wm, dock.n, ~May("press"))

LEMMA TerminalsCounted ==
    ASSUME DesktopIInv
    PROVE  dock.n \in Nat
PROOF
<1>1. dock \in [pc : {"poll", "buttons"}, at : Int \X Int, prev : BOOLEAN, grace : 0 .. Grace, n : Nat]
    BY Zenon DEF DesktopIInv, Counted
<1> QED
    BY <1>1

LEMMA SpawnedKeeps ==
    ASSUME DesktopIInv, CanSpawn
    PROVE  /\ ManagerInv(Spawned.wm, Spawned.n, ~May("press"))
           /\ Spawned.n \in Nat /\ Spawned.n <= dock.n + 1
PROOF
<1>1. PICK m : m = dock.n
    BY Zenon
<1>2. m \in Nat /\ m + 1 \in DOMAIN Terms /\ Len(Terms) \in Nat
    <2>1. dock.n \in Nat
        BY TerminalsCounted, Zenon
    <2> QED
        BY <1>1, <2>1, DesktopAssumption DEF CanSpawn
<1>3. PICK s, f, p, z, x, tied :
          /\ s = Terms[m + 1] /\ f = Created(wm, s, TermSize) /\ p = TermPlace(m)
          /\ z = TermZ + m /\ x = Register(f, s, p, z) /\ tied = ~May("press")
    BY Zenon
<1>4. s \in Surfaces /\ \A i \in DOMAIN Terms : s = Terms[i] => i <= m + 1
    BY <1>2, <1>3, DesktopAssumption DEF Surfaces
<1>5. ManagerInv(wm, m, tied)
    BY <1>1, <1>3, Zenon DEF DesktopIInv
<1>6. \A id \in Ids : wm.slot[id].used => wm.slot[id].surf # s
    BY <1>2, <1>3, <1>5 DEF ManagerInv, Numbered
<1>7. /\ ManagerInv(SetFocus(x, wm.next), m + 1, tied)
      /\ x.slot = f.slot => ManagerInv([x EXCEPT !.surf[s] = wm.surf[s]], m, tied)
    <2>1. PICK w, size : w = wm /\ size = TermSize
        BY Zenon
    <2>2. /\ f = Created(w, s, size) /\ x = Register(Created(w, s, size), s, p, z)
          /\ ManagerInv(w, m, tied) /\ \A id \in Ids : w.slot[id].used => w.slot[id].surf # s
        BY <1>3, <1>5, <1>6, <2>1, Zenon
    <2>3. /\ ManagerInv(SetFocus(Register(Created(w, s, size), s, p, z), w.next), m + 1, tied)
          /\ Register(Created(w, s, size), s, p, z).slot = Created(w, s, size).slot
                 => ManagerInv([Register(Created(w, s, size), s, p, z) EXCEPT !.surf[s] = w.surf[s]], m, tied)
        BY <1>2, <1>4, <2>2, SpawnKeeps
    <2> QED
        BY <2>1, <2>2, <2>3, Zenon
<1>8. Spawned = IF x.slot # f.slot THEN [wm |-> SetFocus(x, wm.next), n |-> m + 1]
                ELSE [wm |-> [x EXCEPT !.surf[s] = wm.surf[s]], n |-> m]
    BY <1>1, <1>3, Zenon DEF Spawned, Registers
<1>9. CASE x.slot # f.slot
    <2>1. Spawned.wm = SetFocus(x, wm.next) /\ Spawned.n = m + 1
        BY <1>8, <1>9
    <2>2. ManagerInv(Spawned.wm, Spawned.n, ~May("press"))
        BY <1>3, <1>7, <2>1, Zenon
    <2> QED
        BY <1>1, <1>2, <2>1, <2>2
<1>10. CASE x.slot = f.slot
    <2>1. Spawned.wm = [x EXCEPT !.surf[s] = wm.surf[s]] /\ Spawned.n = m
        BY <1>8, <1>10
    <2>2. ManagerInv(Spawned.wm, Spawned.n, ~May("press"))
        BY <1>3, <1>7, <1>10, <2>1, Zenon
    <2> QED
        BY <1>1, <1>2, <2>1, <2>2
<1> QED
    BY <1>9, <1>10

\* A call that only the manager sees, and a step it does not see.
LEMMA ManagerStep ==
    ASSUME DesktopIInv, ManagerInv(wm', dock.n, ~May("press")), UNCHANGED <<mouse, dock, screen, presses, ops>>
    PROVE  DesktopIInv'
PROOF
<1>1. Counted'
    BY DEF DesktopIInv, Counted
<1>2. (~May("press"))' = ~May("press") /\ dock.n' = dock.n
    BY DEF May
<1>3. ManagerInv(wm, dock.n, ~May("press"))' = ManagerInv(wm', dock.n', (~May("press"))')
    BY Zenon DEF ManagerInv, IsManager, IsSlot, IsSurface, Numbered, Remembers, Focused, Ids, Surfaces
<1> QED
    BY <1>1, <1>2, <1>3, Zenon DEF DesktopIInv

LEMMA PollerStep ==
    ASSUME ManagerInv(wm', dock'.n, ~May("press")), Counted', ops' = ops
    PROVE  DesktopIInv'
PROOF
<1>1. (~May("press"))' = ~May("press")
    BY DEF May
<1>2. ManagerInv(wm, dock.n, ~May("press"))' = ManagerInv(wm', dock'.n, (~May("press"))')
    BY Zenon DEF ManagerInv, IsManager, IsSlot, IsSurface, Numbered, Remembers, Focused, Ids, Surfaces
<1> QED
    BY <1>1, <1>2, Zenon DEF DesktopIInv

LEMMA DesktopStarts ==
    ASSUME Init
    PROVE  DesktopIInv
PROOF
<1>1. screen \in Nat \X Nat /\ DockY \in Int
    BY DesktopAssumption DEF Init, DockY, DockH
<1>2. Counted
    <2>1. OnTile \in Int \X Int
        BY <1>1 DEF OnTile, BtnPad
    <2>2. dock.n = 0 /\ dock.grace = 0 /\ dock.pc = "poll" /\ presses = 0
        BY DEF Init
    <2>3. mouse \in [pos : Int \X Int, left : BOOLEAN]
        BY <2>1 DEF Init
    <2>4. dock \in [pc : {"poll", "buttons"}, at : Int \X Int, prev : BOOLEAN, grace : 0 .. Grace, n : Nat]
        BY DesktopAssumption DEF Init
    <2>5. 0 < Grace /\ 0 # Grace
        BY DesktopAssumption
    <2> QED
        BY <1>1, <2>2, <2>3, <2>4, <2>5 DEF Counted
<1>3. PICK e, p, tied : e = EmptyWm /\ p = <<0, DockY>> /\ tied = ~May("press")
    BY Zenon
<1>4. /\ e.slot = [id \in Ids |-> FreeSlot] /\ e.next = 1 /\ e.focus = None /\ e.kb = None
      /\ e.surf = [s \in Surfaces |-> FreshSurface(IF s = Dock THEN <<screen[1], DockH>> ELSE AppSize)]
      /\ e = [slot |-> e.slot, next |-> e.next, active |-> e.active, focus |-> e.focus, kb |-> e.kb,
              surf |-> e.surf, comp |-> e.comp]
    BY <1>3 DEF EmptyWm
<1>5. IsSlot(FreeSlot) /\ ~FreeSlot.used
    BY DEF FreeSlot, IsSlot
<1>6. \A id \in Ids : e.slot[id] = FreeSlot
    BY <1>4, Zenon
<1>7. \A s \in Surfaces : IsSurface(e.surf[s])
    <2> SUFFICES ASSUME NEW s \in Surfaces
                 PROVE  IsSurface(e.surf[s])
        OBVIOUS
    <2>1. PICK y : e.surf[s] = FreshSurface(y)
        BY <1>4, Zenon
    <2>2. IsSurface(FreshSurface(y))
        BY DEF FreshSurface, IsSurface
    <2> QED
        BY <2>1, <2>2, Zenon
<1>8. IsManager(e)
    <2>1. e.slot = [id \in Ids |-> e.slot[id]] /\ e.surf = [s \in Surfaces |-> e.surf[s]]
        BY <1>4, Zenon
    <2> QED
        BY <1>4, <1>5, <1>6, <1>7, <2>1, Zenon DEF IsManager
<1>9. ManagerInv(e, 0, tied)
    <2>1. Numbered(e, 0)
        BY <1>4, <1>5, <1>6 DEF Numbered
    <2>2. Remembers(e) /\ Focused(e, tied)
        BY <1>4, <1>5, <1>6, Zenon DEF Remembers, Focused
    <2> QED
        BY <1>8, <2>1, <2>2, Zenon DEF ManagerInv
<1>10. Dock \in Surfaces /\ \A i \in DOMAIN Terms : Dock = Terms[i] => i <= 0
    BY DesktopAssumption DEF Surfaces
<1>11. \A id \in Ids : e.slot[id].used => e.slot[id].surf # Dock
    BY <1>5, <1>6, Zenon
<1>12. ManagerInv(Register(e, Dock, p, DockZ), 0, tied)
    BY <1>9, <1>10, <1>11, RegisterKeeps
<1>13. wm = Register(e, Dock, p, DockZ) /\ dock.n = 0
    BY <1>3 DEF Init
<1> QED
    BY <1>2, <1>3, <1>12, <1>13, Zenon DEF DesktopIInv

\* The poller and the pointer.
LEMMA PollerKeeps ==
    ASSUME DesktopIInv,
           \/ DockGrace \/ DockReadPosition \/ DockReadButtons
           \/ \E p \in {OnTile, <<0, 0>>} : MouseMove(p)
           \/ MousePress \/ MouseRelease
    PROVE  DesktopIInv'
PROOF
<1>1. /\ presses \in Nat /\ mouse \in [pos : Int \X Int, left : BOOLEAN]
      /\ dock \in [pc : {"poll", "buttons"}, at : Int \X Int, prev : BOOLEAN, grace : 0 .. Grace, n : Nat]
      /\ dock.grace < Grace => dock.n = 0 /\ dock.pc = "poll"
      /\ dock.grace = Grace => dock.n + (IF mouse.left /\ ~dock.prev THEN 1 ELSE 0) <= presses
      /\ screen \in Nat \X Nat
    BY DEF DesktopIInv, Counted
<1>2. Grace \in Nat
    BY DesktopAssumption
<1>3. ManagerInv(wm, dock.n, ~May("press"))
    BY Zenon DEF DesktopIInv
<1>4. CASE DockGrace
    <2>1. /\ dock' \in [pc : {"poll", "buttons"}, at : Int \X Int, prev : BOOLEAN, grace : 0 .. Grace, n : Nat]
          /\ dock'.n = 0 /\ dock'.pc = "poll" /\ dock'.prev = mouse.left
        <3>1. PICK g, b : g = dock.grace + 1 /\ b = mouse.left
            BY Zenon
        <3>2. g \in 0 .. Grace /\ b \in BOOLEAN /\ dock.n = 0 /\ dock.pc = "poll"
            BY <1>1, <1>2, <1>4, <3>1 DEF DockGrace
        <3>3. dock' = [dock EXCEPT !.grace = g, !.prev = b]
            BY <1>4, <3>1 DEF DockGrace
        <3> QED
            BY <1>1, <3>1, <3>2, <3>3, Zenon
    <2>2. wm' = wm /\ mouse' = mouse /\ screen' = screen /\ presses' = presses /\ ops' = ops /\ dock.n = 0
        BY <1>1, <1>4 DEF DockGrace
    <2>3. Counted'
        BY <1>1, <2>1, <2>2 DEF Counted
    <2>4. ManagerInv(wm', dock'.n, ~May("press"))
        BY <1>3, <2>1, <2>2, Zenon
    <2> QED
        BY <2>2, <2>3, <2>4, PollerStep
<1>5. CASE DockReadPosition
    <2>1. /\ dock' \in [pc : {"poll", "buttons"}, at : Int \X Int, prev : BOOLEAN, grace : 0 .. Grace, n : Nat]
          /\ dock'.n = dock.n /\ dock'.grace = Grace /\ dock'.prev = dock.prev /\ dock.grace = Grace
        BY <1>1, <1>2, <1>5, Zenon DEF DockReadPosition
    <2>2. wm' = wm /\ mouse' = mouse /\ screen' = screen /\ presses' = presses /\ ops' = ops
        BY <1>5 DEF DockReadPosition
    <2>3. Counted'
        BY <1>1, <1>2, <2>1, <2>2 DEF Counted
    <2>4. ManagerInv(wm', dock'.n, ~May("press"))
        BY <1>3, <2>1, <2>2, Zenon
    <2> QED
        BY <2>2, <2>3, <2>4, PollerStep
<1>6. CASE DockReadButtons
    <2>1. PICK o : /\ o = IF Click(dock.at) /\ CanSpawn THEN Spawned ELSE [wm |-> wm, n |-> dock.n]
                   /\ wm' = o.wm
                   /\ dock' = [dock EXCEPT !.pc = "poll", !.at = <<0, 0>>, !.prev = mouse.left, !.n = o.n]
        BY <1>6, Zenon DEF DockReadButtons
    <2>2. mouse' = mouse /\ screen' = screen /\ presses' = presses /\ ops' = ops /\ dock.grace = Grace
        BY <1>1, <1>2, <1>6 DEF DockReadButtons
    <2>3. /\ ManagerInv(o.wm, o.n, ~May("press")) /\ o.n \in Nat
          /\ o.n <= dock.n + (IF mouse.left /\ ~dock.prev THEN 1 ELSE 0)
        <3>1. CASE Click(dock.at) /\ CanSpawn
            <4>1. /\ ManagerInv(Spawned.wm, Spawned.n, ~May("press"))
                  /\ Spawned.n \in Nat /\ Spawned.n <= dock.n + 1
                BY <3>1, SpawnedKeeps
            <4>2. o = Spawned
                BY <2>1, <3>1, Zenon
            <4>3. mouse.left /\ ~dock.prev
                BY <3>1 DEF Click
            <4>4. ManagerInv(o.wm, o.n, ~May("press")) /\ o.n \in Nat /\ o.n <= dock.n + 1
                BY <4>1, <4>2, Zenon
            <4> QED
                BY <4>3, <4>4
        <3>2. CASE ~(Click(dock.at) /\ CanSpawn)
            <4>1. o = [wm |-> wm, n |-> dock.n]
                BY <2>1, <3>2, Zenon
            <4>2. o.wm = wm /\ o.n = dock.n
                BY <4>1
            <4>3. ManagerInv(o.wm, o.n, ~May("press"))
                BY <1>3, <4>2, Zenon
            <4> QED
                BY <1>1, <4>2, <4>3
        <3> QED
            BY <3>1, <3>2
    <2>4. /\ dock' \in [pc : {"poll", "buttons"}, at : Int \X Int, prev : BOOLEAN, grace : 0 .. Grace, n : Nat]
          /\ dock'.n = o.n /\ dock'.grace = Grace /\ dock'.prev = mouse.left
        <3>1. PICK b, k, a : b = mouse.left /\ k = o.n /\ a = <<0, 0>>
            BY Zenon
        <3>2. b \in BOOLEAN /\ k \in Nat /\ a \in Int \X Int
            BY <1>1, <2>3, <3>1
        <3>3. dock' = [dock EXCEPT !.pc = "poll", !.at = a, !.prev = b, !.n = k]
            BY <2>1, <3>1, Zenon
        <3> QED
            BY <1>1, <2>2, <3>1, <3>2, <3>3, Zenon
    <2>5. o.n <= presses
        BY <1>1, <2>2, <2>3
    <2>6. Counted'
        BY <1>1, <1>2, <2>2, <2>3, <2>4, <2>5 DEF Counted
    <2>7. ManagerInv(wm', dock'.n, ~May("press"))
        BY <2>1, <2>3, <2>4, Zenon
    <2> QED
        BY <2>2, <2>6, <2>7, PollerStep
<1>7. CASE \E p \in {OnTile, <<0, 0>>} : MouseMove(p)
    <2>1. PICK p \in {OnTile, <<0, 0>>} : MouseMove(p)
        BY <1>7, Zenon
    <2>2. p \in Int \X Int
        <3>1. screen[2] \in Nat
            BY <1>1
        <3> QED
            BY <3>1 DEF OnTile, DockY, DockH, BtnPad
    <2>3. mouse' \in [pos : Int \X Int, left : BOOLEAN] /\ mouse'.left = mouse.left
        BY <1>1, <2>1, <2>2 DEF MouseMove
    <2>4. wm' = wm /\ dock' = dock /\ screen' = screen /\ presses' = presses /\ ops' = ops
        BY <2>1 DEF MouseMove
    <2>5. Counted'
        BY <1>1, <2>3, <2>4 DEF Counted
    <2>6. ManagerInv(wm', dock'.n, ~May("press"))
        BY <1>3, <2>4, Zenon
    <2> QED
        BY <2>4, <2>5, <2>6, PollerStep
<1>8. CASE MousePress \/ MouseRelease
    <2>1. /\ mouse' \in [pos : Int \X Int, left : BOOLEAN]
          /\ \/ ~mouse'.left /\ presses' = presses
             \/ ~mouse.left /\ presses' = IF dock.grace = Grace THEN presses + 1 ELSE presses
        BY <1>1, <1>8, Zenon DEF MousePress, MouseRelease
    <2>2. wm' = wm /\ dock' = dock /\ screen' = screen /\ ops' = ops
        BY <1>8 DEF MousePress, MouseRelease
    <2>3. Counted'
        BY <1>1, <1>2, <2>1, <2>2 DEF Counted
    <2>4. ManagerInv(wm', dock'.n, ~May("press"))
        BY <1>3, <2>2, Zenon
    <2> QED
        BY <2>2, <2>3, <2>4, PollerStep
<1> QED
    BY <1>4, <1>5, <1>6, <1>7, <1>8

\* A client's call of the window manager.
LEMMA ClientKeeps ==
    ASSUME DesktopIInv, NEW id,
           \/ WmUnregister(id) \/ WmRaise(id) \/ WmMinimize(id) \/ WmMaximize(id) \/ WmRestore(id)
           \/ \E p \in Places : WmMove(id, p)
           \/ \E m \in Masks : WmSnapToEdges(id, m)
           \/ WmSetFocus(id) \/ WmSetActiveDesktop(id)
    PROVE  DesktopIInv'
PROOF
<1>1. PICK w, n, tied : w = wm /\ n = dock.n /\ tied = ~May("press")
    BY Zenon
<1>2. ManagerInv(w, n, tied)
    BY <1>1, Zenon DEF DesktopIInv
<1>3. \/ wm' = Unregister(w, id) \/ wm' = Raise(w, id) \/ wm' = Minimize(w, id) \/ wm' = Maximize(w, id)
      \/ wm' = Restore(w, id) \/ (\E p : wm' = MoveTo(w, id, p)) \/ wm' = SetFocus(w, id)
      \/ wm' = SwitchDesktop(w, id)
    BY <1>1, Zenon DEF WmUnregister, WmRaise, WmMinimize, WmMaximize, WmRestore, WmMove, WmSnapToEdges,
                       WmSetFocus, WmSetActiveDesktop
<1>4. UNCHANGED <<mouse, dock, screen, presses, ops>>
    BY Zenon DEF WmUnregister, WmRaise, WmMinimize, WmMaximize, WmRestore, WmMove, WmSnapToEdges,
                 WmSetFocus, WmSetActiveDesktop, OnlyWm
<1>5. /\ ManagerInv(Unregister(w, id), n, tied) /\ ManagerInv(Raise(w, id), n, tied)
      /\ ManagerInv(Minimize(w, id), n, tied) /\ ManagerInv(Maximize(w, id), n, tied)
      /\ ManagerInv(Restore(w, id), n, tied) /\ ManagerInv(SetFocus(w, id), n, tied)
      /\ ManagerInv(SwitchDesktop(w, id), n, tied) /\ \A p : ManagerInv(MoveTo(w, id, p), n, tied)
    BY <1>2, UnregisterKeeps, RaiseKeeps, MinimizeKeeps, MaximizeKeeps, RestoreKeeps, SetFocusKeeps,
       SwitchKeeps, MoveKeeps
<1>6. ManagerInv(wm', n, tied)
    BY <1>3, <1>5, Zenon
<1>7. ManagerInv(wm', dock.n, ~May("press"))
    BY <1>1, <1>6, Zenon
<1> QED
    BY <1>4, <1>7, ManagerStep

\* A client registers a surface of its own.
LEMMA ClientRegisters ==
    ASSUME DesktopIInv, NEW s \in Apps, NEW p, WmRegister(s, p)
    PROVE  DesktopIInv'
PROOF
<1>1. PICK w, n, tied, f : w = wm /\ n = dock.n /\ tied = ~May("press") /\ f = Created(wm, s, AppSize)
    BY Zenon
<1>2. ManagerInv(w, n, tied) /\ n \in Nat
    <2>1. dock.n \in Nat
        BY TerminalsCounted, Zenon
    <2> QED
        BY <1>1, <2>1, Zenon DEF DesktopIInv
<1>3. s \in Surfaces /\ \A i \in DOMAIN Terms : s = Terms[i] => i <= n
    BY DesktopAssumption DEF Surfaces
<1>4. \A id \in Ids : w.slot[id].surf # s
    BY <1>1, Zenon DEF WmRegister
<1>5. f = [w EXCEPT !.surf[s] = FreshSurface(AppSize)]
    BY <1>1, Zenon DEF Created
<1>6. IsSurface(FreshSurface(AppSize))
    BY DEF IsSurface, FreshSurface
<1>7. ManagerInv(f, n, tied)
    BY <1>2, <1>3, <1>4, <1>5, <1>6, FreshKeeps
<1>8. f.slot = w.slot
    BY <1>2, <1>5 DEF ManagerInv, IsManager
<1>9. \A id \in Ids : f.slot[id].used => f.slot[id].surf # s
    BY <1>4, <1>8, Zenon
<1>10. ManagerInv(Register(f, s, p, DockZ), n, tied)
    BY <1>2, <1>3, <1>7, <1>9, RegisterKeeps
<1>11. wm' = Register(f, s, p, DockZ) /\ UNCHANGED <<mouse, dock, screen, presses, ops>>
    BY <1>1, Zenon DEF WmRegister, OnlyWm
<1>12. ManagerInv(wm', dock.n, ~May("press"))
    BY <1>1, <1>10, <1>11, Zenon
<1> QED
    BY <1>11, <1>12, ManagerStep

LEMMA RoutingKeeps ==
    ASSUME DesktopIInv,
           \/ \E id \in {None} \cup Ids : PointerCapture(id) \/ PointerPressed(id)
           \/ \E id \in Ids, n \in 1 .. 2 : DragBegin(id, n) \/ DragDrop(n)
           \/ DragCancel
    PROVE  DesktopIInv'
PROOF
<1>1. ManagerInv(wm, dock.n, ~May("press"))
    BY Zenon DEF DesktopIInv
<1>2. UNCHANGED <<mouse, dock, screen, presses, ops>>
    BY Zenon DEF PointerCapture, PointerPressed, DragBegin, DragDrop, DragCancel, OnlyRoute
<1>3. wm' = wm \/ (May("press") /\ \E k : wm' = [wm EXCEPT !.kb = k])
    BY Zenon DEF PointerCapture, PointerPressed, DragBegin, DragDrop, DragCancel, OnlyRoute
<1>4. CASE wm' = wm
    BY <1>1, <1>2, <1>4, ManagerStep
<1>5. CASE May("press") /\ \E k : wm' = [wm EXCEPT !.kb = k]
    <2>1. PICK k : wm' = [wm EXCEPT !.kb = k]
        BY <1>5, Zenon
    <2>2. PICK tied : tied = ~May("press")
        BY Zenon
    <2>3. ~tied /\ ManagerInv(wm, dock.n, tied)
        BY <1>1, <1>5, <2>2, Zenon
    <2>4. ManagerInv([wm EXCEPT !.kb = k], dock.n, tied)
        BY <2>3, KeyboardKeeps
    <2>5. ManagerInv(wm', dock.n, ~May("press"))
        BY <2>1, <2>2, <2>4, Zenon
    <2> QED
        BY <1>2, <2>5, ManagerStep
<1> QED
    BY <1>3, <1>4, <1>5

\* The properties of one state.
LEMMA DesktopImplies ==
    ASSUME DesktopIInv
    PROVE  RestoreRemembers /\ FocusIsLive /\ OneTerminalPerPress
PROOF
<1>1. ManagerInv(wm, dock.n, ~May("press"))
    BY Zenon DEF DesktopIInv
<1>2. RestoreRemembers
    BY <1>1, Zenon DEF RestoreRemembers, LiveIds, Live, SurfOf, ManagerInv, Remembers
<1>3. FocusIsLive
    BY <1>1, Zenon DEF FocusIsLive, LiveIds, Live, ManagerInv, Focused
<1>4. OneTerminalPerPress
    BY DesktopAssumption DEF OneTerminalPerPress, DesktopIInv, Counted
<1> QED
    BY <1>2, <1>3, <1>4

\* The invariant holds for any number of windows, surfaces and polls of grace.
THEOREM DesktopInvariant == Spec => []DesktopIInv
PROOF
<1>1. Init => DesktopIInv
    BY DesktopStarts
<1>2. DesktopIInv /\ [Next]_vars => DesktopIInv'
    <2> SUFFICES ASSUME DesktopIInv, [Next]_vars
                 PROVE  DesktopIInv'
        OBVIOUS
    <2>1. CASE \E s \in Apps, p \in Places : WmRegister(s, p)
        BY <2>1, ClientRegisters, Zenon
    <2>2. CASE \E id \in Ids : \/ WmUnregister(id) \/ WmRaise(id)
                               \/ WmMinimize(id) \/ WmMaximize(id) \/ WmRestore(id)
                               \/ \E p \in Places : WmMove(id, p)
                               \/ \E m \in Masks : WmSnapToEdges(id, m)
        BY <2>2, ClientKeeps, Zenon
    <2>3. CASE \E index \in 0 .. Desktops - 1 : WmSetActiveDesktop(index)
        BY <2>3, ClientKeeps, Zenon
    <2>4. CASE \E id \in {None} \cup Ids : WmSetFocus(id)
        BY <2>4, ClientKeeps, Zenon
    <2>5. CASE \/ \E id \in {None} \cup Ids : PointerCapture(id) \/ PointerPressed(id)
               \/ \E id \in Ids, n \in 1 .. 2 : DragBegin(id, n) \/ DragDrop(n)
               \/ DragCancel
        BY <2>5, RoutingKeeps, Zenon
    <2>6. CASE \/ DockGrace \/ DockReadPosition \/ DockReadButtons
               \/ \E p \in {OnTile, <<0, 0>>} : MouseMove(p)
               \/ MousePress \/ MouseRelease
        BY <2>6, PollerKeeps, Zenon
    <2>7. CASE UNCHANGED vars
        <3>1. wm' = wm /\ UNCHANGED <<mouse, dock, screen, presses, ops>>
            BY <2>7, Zenon DEF vars
        <3>2. ManagerInv(wm', dock.n, ~May("press"))
            BY <3>1, Zenon DEF DesktopIInv
        <3> QED
            BY <3>1, <3>2, ManagerStep
    <2> QED
        BY <2>1, <2>2, <2>3, <2>4, <2>5, <2>6, <2>7, Zenon DEF Next
<1> QED
    BY <1>1, <1>2, PTL DEF Spec

\* Whatever clients call, wm_maximize() followed by wm_restore() puts a window back where
\* it was: the place remembered in its slot is the one it is at until it is maximised.
THEOREM WindowsGoBack == Spec => []RestoreRemembers
PROOF
<1>1. DesktopIInv => RestoreRemembers
    BY DesktopImplies
<1> QED
    BY <1>1, DesktopInvariant, PTL

\* The focus never names a window that is gone (wm_unregister_window, wm_minimize).
THEOREM FocusNamesAWindow == Spec => []FocusIsLive
PROOF
<1>1. DesktopIInv => FocusIsLive
    BY DesktopImplies
<1> QED
    BY <1>1, DesktopInvariant, PTL

\* However presses, releases, motion and polls interleave, dock_poller() opens at most one
\* terminal for a press of the button.
THEOREM OnePressOneTerminal == Spec => []OneTerminalPerPress
PROOF
<1>1. DesktopIInv => OneTerminalPerPress
    BY DesktopImplies
<1> QED
    BY <1>1, DesktopInvariant, PTL
=============================================================================
