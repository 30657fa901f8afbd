----------------------------- MODULE MCDesktop -----------------------------
(***************************************************************************)
(* Desktop for TLC: the dock, two terminals and one client surface in a     *)
(* manager of four numbers and a compositor of three surfaces, so that both  *)
(* limits are met.                                                           *)
(***************************************************************************)
EXTENDS Desktop

CONSTANTS D, T1, T2, A1, NoS

MCTerms == <<T1, T2>>
MCApps == {A1}
MCScreens == {<<320, 264>>, <<1024, 768>>}
MCAppSize == <<400, 100>>
MCPlaces == {<<0, 0>>, <<50, 700>>}

\* Each set of operations is a client of its own; together they cover every call.
Geometry == {"register", "move", "minimize", "maximize", "restore", "snap"}
Switching == {"register", "unregister", "minimize", "maximize", "restore", "desktop"}
Stacking == {"register", "unregister", "focus", "raise", "minimize"}
Routing == {"register", "unregister", "focus", "capture", "press"}
Dragging == {"register", "drag"}
Clicking == {"register", "unregister", "mouse"}
MCWorkloads == {Geometry, Switching, Stacking, Routing, Dragging, Clicking}
=============================================================================
