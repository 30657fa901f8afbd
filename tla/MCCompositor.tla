---------------------------- MODULE MCCompositor ----------------------------
(* The compositor on a screen of three cells, with surfaces of two cells that
   stick out of it on either side, under four workloads; pictures and rows for Blit. *)
EXTENDS Compositor, Blit

CONSTANTS low, high, arrow

MCPlaces == {-1, 0, 2, 3}

\* Two surfaces come, go, move and hide.
Placement == [calls |-> {"add", "remove", "move", "show"}, on |-> {low, high}]

\* Two surfaces under a cursor change their order; ties and the clamp happen.
Stacking == [calls |-> {"add", "raise", "lower", "z"}, on |-> {low, high, arrow}]

\* One surface is drawn, whole and in part, while it moves; so is the desktop.
Content == [calls |-> {"add", "remove", "move", "show", "paint", "cell", "bg", "full"},
            on |-> {low}]

\* A surface comes through the display server, under the cursor.
Served == [calls |-> {"add", "submit", "place", "remove"}, on |-> {low, arrow}]

\* One surface is added.
Arrival == [calls |-> {"add"}, on |-> {low}]

MCWorkloads == {Placement, Stacking, Content, Served}
OnlyArrival == {Arrival}

-----------------------------------------------------------------------------
\* Pictures of four by three pixels under two surfaces, the lower one large, the upper one
\* sticking out on any side; the damage is one rectangle, or two that overlap.
Pixels(w, h) == [y \in 0 .. h - 1 |-> [x \in 0 .. w - 1 |->
                   [a |-> <<255, 128, 0, 3>>[1 + ((x + 2 * y) % 4)], c |-> (60 * x + 70 * y + 1) % 256]]]
Layer(x, y, w, h, opaque, alpha, radius) ==
    [x |-> x, y |-> y, w |-> w, h |-> h, px |-> Pixels(w, h), opaque |-> opaque, alpha |-> alpha,
     radius |-> radius, visible |-> TRUE]
Lower1 == {Layer(0, 0, 4, 3, TRUE, 255, 2), Layer(-3, -1, 9, 4, FALSE, 200, 1)}
Upper1 == {Layer(x, y, w, 3, o, a, r) : x \in {-2, 1}, y \in {-1, 1}, w \in {3, 5}, o \in BOOLEAN,
              a \in {1, 255}, r \in {0, 1, 2}}
           \cup {Layer(0, 0, 2, 2, o, 0, 0) : o \in BOOLEAN} \cup {[Layer(1, 1, 2, 2, TRUE, 255, 0) EXCEPT !.visible = FALSE]}
Cuts == {<<RectMake(0, 0, 4, 3)>>, <<RectMake(1, 1, 2, 1)>>, <<RectMake(0, 0, 3, 2), RectMake(2, 1, 2, 2)>>}
Bands1 == {<<RectMake(0, 0, 4, 3)>>, <<RectMake(0, 0, 4, 1), RectMake(0, 1, 4, 2)>>}
Pictures ==
    {[kind |-> "frame", pic |-> <<<<9, 8, 7, 6>>, <<5, 4, 3, 2>>, <<1, 2, 3, 4>>>>, bands |-> bs, damage |-> d,
      surfaces |-> <<l, u>>, bg |-> 40] : bs \in Bands1, d \in Cuts, l \in Lower1, u \in Upper1}

\* Rows of up to nineteen pixels: two groups of eight, or one and one of four, and a tail.
Rows ==
    {[kind |-> "row", d |-> [i \in 1 .. n |-> (d + 37 * i) % 256],
      s |-> [i \in 1 .. n |-> [a |-> (a + 85 * i) % 256, c |-> (c + 51 * i) % 256]], ga |-> ga] :
        n \in 0 .. 19, d \in {0, 128}, a \in {0, 128}, c \in {0, 127}, ga \in {0, 1, 128, 254, 255}}

NoJob == [kind |-> "none"]
MCJobs == Pictures \cup Rows \cup {[kind |-> "root", range |-> 0 .. 2000], NoJob}

-----------------------------------------------------------------------------
\* Either the surfaces change, or a picture is painted.
MCInit == Init /\ BlitInit /\ (job = NoJob \/ (work = Placement /\ bg = CHOOSE c \in Colours : TRUE))
Finished == job # NoJob /\ todo = {} /\ UNCHANGED <<vars, blitVars>>
MCNext == (job = NoJob /\ Next /\ UNCHANGED blitVars) \/ (TakeBand /\ UNCHANGED vars) \/ Finished
MCSpec == MCInit /\ [][MCNext]_<<vars, blitVars>>
=============================================================================
