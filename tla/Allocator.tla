------------------------------ MODULE Allocator ------------------------------
(***************************************************************************)
(* What kmalloc() and kfree() promise their callers: a region large enough *)
(* that overlaps no other live region, until it is given back.             *)
(***************************************************************************)
EXTENDS Integers

CONSTANTS Space,   \* the addresses of the heap window
          Sizes    \* request sizes

VARIABLE live      \* the regions in use, [at, len, asked]

Apart(r, s) == r.at + r.len <= s.at \/ s.at + s.len <= r.at

AllocatorInit == live = {}

\* Exactly one region r is new, and it is good for a request of n bytes.
Grant(n) ==
    \E r \in live' \ live :
        /\ live' = live \cup {r}
        /\ r.asked = n /\ r.len >= n
        /\ r.at \in Space /\ r.at + r.len \in Space
        /\ \A s \in live : Apart(r, s)

Release(r) == live' = live \ {r}

AllocatorNext == (\E n \in Sizes \ {0} : Grant(n)) \/ (\E r \in live : Release(r))

AllocatorSpec == AllocatorInit /\ [][AllocatorNext]_live

=============================================================================
