---------------------------- MODULE AddressSpace ----------------------------
(***************************************************************************)
(* What mm/vmm.h promises of the page tables: one translation per page,    *)
(* changed page by page by the calls and by nothing else.  A page of a     *)
(* large mapping is never split: unmapping leaves it alone, and mapping    *)
(* over it stops the kernel.                                               *)
(***************************************************************************)
EXTENDS PageNumbers

VARIABLES trans, \* page -> where it is mapped
          call   \* the call in progress

Init == trans \in [Page -> Target] /\ call = NoCall

Begin == call = NoCall /\ call' \in Calls /\ UNCHANGED trans

\* One page of vmm_map().
MapPage ==
    /\ call.op = "map" /\ call.v < call.end
    /\ ~trans[Split(call.v)].large
    /\ trans' = [trans EXCEPT ![Split(call.v)] = Small(call.p, call.flags)]
    /\ call' = [call EXCEPT !.v = @ + 1, !.p = @ + 1]

\* One page of vmm_unmap().
UnmapPage ==
    /\ call.op = "unmap" /\ call.v < call.end
    /\ trans' = [trans EXCEPT ![Split(call.v)] = IF @.large THEN @ ELSE Nowhere]
    /\ call' = [call EXCEPT !.v = @ + 1]

Return == call # NoCall /\ call.v >= call.end /\ call' = NoCall /\ UNCHANGED trans

\* A panic: no memory, or a large page in the way of a mapping.
Halt == call' = Halted /\ UNCHANGED trans

Next == Begin \/ MapPage \/ UnmapPage \/ Return \/ Halt
Spec == Init /\ [][Next]_<<trans, call>>

=============================================================================
