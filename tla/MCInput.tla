------------------------------ MODULE MCInput ------------------------------
(***************************************************************************)
(* Input for TLC: up to five scan codes, one PS/2 packet with a negative   *)
(* delta, a ring of three slots (so that it wraps and runs full), and one   *)
(* or two polling threads.                                                  *)
(***************************************************************************)
EXTENDS Input

\* 16 and 17 are letters without bit 3, 30 is one with it; 42 and 170 are the left
\* shift key going down and up, 58 is caps lock.
MCMapped == {16, 17, 30}
MCTraffic ==
    {[backend |-> "other", keys |-> k, aux |-> <<>>] :
        k \in {<<16, 17, 30, 16, 17>>, <<42, 16, 170, 17>>, <<58, 16, 54, 17, 182>>}}
    \cup {[backend |-> "ps2", keys |-> <<16>>, aux |-> <<25, 255, 1>>],
          [backend |-> "ps2", keys |-> <<42, 16>>, aux |-> <<9, 1>>]}
MCScreens == {<<1, 2>>, <<3, 2>>}
MCJumps == {-1, 3}
RaceTraffic == {[backend |-> "ps2", keys |-> <<>>, aux |-> <<8, 1, 16>>]}
=============================================================================
