------------------------------- MODULE MCXhci -------------------------------
(***************************************************************************)
(* Xhci for TLC.  A hub before the mouse, a mouse behind an empty           *)
(* controller, and no mouse at all.  The command and interrupt rings wrap;  *)
(* the ring of endpoint 0 holds a whole enumeration, as the driver's does.  *)
(* Any wait may time out.  The exploration ends at the first overlap of two *)
(* polls, where the properties end.                                         *)
(***************************************************************************)
EXTENDS Xhci

Nothing == [kind |-> "none", evals |-> FALSE, alt |-> FALSE]
Hub == [kind |-> "hub", evals |-> FALSE, alt |-> FALSE]
Mouse == [kind |-> "mouse", evals |-> FALSE, alt |-> FALSE]
FullSpeedMouse == [kind |-> "mouse", evals |-> TRUE, alt |-> TRUE]

Scenario(b, f, n) == [bus |-> b, faults |-> f, noise |-> n]
MCScenarios ==
    {Scenario(<<<<Nothing, Hub, FullSpeedMouse>>>>, 0, 0), Scenario(<<<<Nothing>>, <<Mouse>>>>, 1, 0),
     Scenario(<<<<Nothing>>, <<Mouse>>>>, 0, 1), Scenario(<<<<Hub>>>>, 1, 1)}
MCRingTrbs == [cmd |-> 4, ep0 |-> 24, int |-> 4]

Apart == ~overlap
=============================================================================
