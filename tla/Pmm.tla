--------------------------------- MODULE Pmm ---------------------------------
(***************************************************************************)
(* The physical page allocator (mm/pmm.c): one bit per frame, a cached     *)
(* count of used frames and a hint where the next search starts.           *)
(*                                                                         *)
(* Frames are numbered; a memory map is a sequence of regions in frames,   *)
(* as the bootloader hands it over.  The contents of a frame (zeroed by    *)
(* every allocation) are left out.  Calls are atomic: they run at boot     *)
(* with interrupts off, or from one thread at a time.                      *)
(***************************************************************************)
EXTENDS Integers, FiniteSets, Sequences

Least(S) == CHOOSE x \in S : \A y \in S : x <= y

CONSTANTS Maps,         \* the memory maps a machine may have
          BitsPerByte,  \* 8 in the code
          PageSize,     \* PMM_PAGE_SIZE, 4096 in the code
          MaxFrames,    \* physical addresses are bounded: 2^52 frames
          Runs          \* page counts asked of pmm_alloc_contig

Regions == [base : Nat, len : Nat, type : {"usable", "reclaimable", "reserved"}]

\* The bootloader never reports frame 0 as usable, so 0 can mean "none".
ASSUME PmmAssumption ==
    /\ \A m \in Maps : /\ DOMAIN m \subseteq Nat
                       /\ \A i \in DOMAIN m : m[i] \in Regions
                       /\ \A i \in DOMAIN m : m[i].base + m[i].len <= MaxFrames
                       /\ \A i \in DOMAIN m : m[i].type = "usable" => m[i].base > 0
                       /\ \A i, j \in DOMAIN m : i # j =>
                              \/ m[i].base + m[i].len <= m[j].base
                              \/ m[j].base + m[j].len <= m[i].base
    /\ BitsPerByte \in Nat \ {0} /\ PageSize \in Nat \ {0}
    /\ Runs \subseteq Nat /\ MaxFrames \in Nat

VARIABLES map,       \* the memory map, << >> before pmm_init()
          total,     \* total_pages
          bits,      \* the frames whose bit is set
          usedPages, \* used_pages
          hint,      \* alloc_hint
          bmBase,    \* first frame of the bitmap
          bmPages,   \* bitmap_pages
          state,     \* "off", "up" or "panic"
          held       \* history: frames handed out and not given back

vars == <<map, total, bits, usedPages, hint, bmBase, bmPages, state, held>>

Frames == 0 .. total - 1
Free == Frames \ bits
CeilDiv(a, b) == (a + b - 1) \div b

Init ==
    /\ map = << >> /\ total = 0 /\ bits = {} /\ usedPages = 0 /\ hint = 0
    /\ bmBase = 0 /\ bmPages = 0 /\ state = "off" /\ held = {}

-----------------------------------------------------------------------------
(* pmm_init() *)

EndOf(r) == r.base + r.len
IsRam(r) == r.type \in {"usable", "reclaimable"}

BitmapPages(n) == CeilDiv(CeilDiv(n, BitsPerByte), PageSize)

\* max_phys / PMM_PAGE_SIZE: the end of the highest RAM region.
TotalPages(m) ==
    LET ends == {0} \cup {EndOf(m[i]) : i \in {j \in DOMAIN m : IsRam(m[j])}}
    IN CHOOSE e \in ends : \A f \in ends : f <= e

\* The regions that can hold the bitmap; the first of them does.
Homes(m) == {i \in DOMAIN m : m[i].type = "usable"
                              /\ m[i].len >= BitmapPages(TotalPages(m))}

\* A usable region starts after the bitmap if the bitmap is in it.
StartOf(r, base, n) == IF r.base = base THEN r.base + n ELSE r.base

\* The frames freed: all usable ones but the bitmap's.
Given(m, n, base, k) ==
    {p \in 0 .. n - 1 : \E i \in DOMAIN m :
        m[i].type = "usable" /\ StartOf(m[i], base, k) <= p /\ p < EndOf(m[i])}

PmmInit(m) ==
    /\ state = "off"
    /\ map' = m
    /\ total' = TotalPages(m)
    /\ bmPages' = BitmapPages(total')
    /\ IF Homes(m) = {}
       THEN /\ state' = "panic"
            /\ UNCHANGED <<bits, usedPages, bmBase>>
       ELSE /\ state' = "up"
            /\ bmBase' = m[Least(Homes(m))].base
            /\ bits' = (0 .. total' - 1) \ Given(m, total', bmBase', bmPages')
            /\ usedPages' = total' - Cardinality(Given(m, total', bmBase', bmPages'))
    /\ UNCHANGED <<hint, held>>

-----------------------------------------------------------------------------
(* pmm_alloc_page(): first free frame from the hint on, else below it. *)

Above == {p \in Free : p >= hint}
NextFrame == IF Above # {} THEN Least(Above) ELSE Least(Free)

HintAfter(p) == p + 1

\* Variant that hands a frame out without setting its bit.
BitForgotten(p) == bits

BitSet(p) == bits \cup {p}

AllocPage ==
    /\ state = "up"
    /\ IF Free = {}
       THEN state' = "panic" /\ UNCHANGED <<bits, usedPages, hint, held>>
       ELSE LET p == NextFrame
            IN /\ bits' = BitSet(p)
               /\ usedPages' = usedPages + 1
               /\ hint' = HintAfter(p)
               /\ held' = held \cup {p}
               /\ UNCHANGED state
    /\ UNCHANGED <<map, total, bmBase, bmPages>>

-----------------------------------------------------------------------------
(* pmm_alloc_contig(n) *)

RunAt(s, n) == s .. s + n - 1
RunStarts(n) == {s \in Frames : s + n <= total /\ RunAt(s, n) \cap bits = {}}

\* Variant that skips as many frames as the run is long.
SkipRun(s, n) == n

\* How far the search moves on when frame s + i is taken: past that frame.
SkipUsed(s, n) == Least({i \in 0 .. n - 1 : s + i \in bits}) + 1

\* The search loop, from start s; total if it finds nothing.
Scan(n) ==
    LET from[s \in 0 .. total + n] ==
            IF s + n > total THEN total
            ELSE IF RunAt(s, n) \cap bits = {} THEN s
            ELSE from[s + SkipUsed(s, n)]
    IN from[0]

ContigCount(n) == n

AllocContig(n) ==
    /\ state = "up"
    /\ IF n = 0 \/ RunStarts(n) = {}
       THEN UNCHANGED <<bits, usedPages, held>>
       ELSE LET run == RunAt(Least(RunStarts(n)), n)
            IN /\ bits' = bits \cup run
               /\ usedPages' = usedPages + ContigCount(n)
               /\ held' = held \cup run
    /\ UNCHANGED <<map, total, hint, bmBase, bmPages, state>>

-----------------------------------------------------------------------------
(* pmm_free_page(): a frame its owner gives back; a frame that is free       *)
(* already or does not exist is ignored.                                     *)

\* Variant that leaves the hint where it is.
HintKept(p) == hint

HintFreed(p) == IF p < hint THEN p ELSE hint

FreePage(p) ==
    /\ state = "up"
    /\ IF p \in Free \/ p >= total
       THEN UNCHANGED <<bits, usedPages, hint, held>>
       ELSE /\ p \in held
            /\ bits' = bits \ {p}
            /\ usedPages' = usedPages - 1
            /\ hint' = HintFreed(p)
            /\ held' = held \ {p}
    /\ UNCHANGED <<map, total, bmBase, bmPages, state>>

Next ==
    \/ \E m \in Maps : PmmInit(m)
    \/ AllocPage
    \/ \E n \in Runs : AllocContig(n)
    \/ \E p \in 0 .. total : FreePage(p)

Spec == Init /\ [][Next]_vars

-----------------------------------------------------------------------------
(* Properties. *)

\* Every variable has its type.
TypeOK ==
    /\ map \in Maps \cup {<< >>}
    /\ total \in Nat /\ bits \subseteq Frames /\ usedPages \in Nat
    /\ hint \in Nat /\ bmBase \in Nat /\ bmPages \in Nat
    /\ state \in {"off", "up", "panic"}
    /\ held \subseteq Frames

\* used_pages, which pmm_stats() reports, is the number of set bits after any
\* mix of single, contiguous and double-freed frames.
UsedCountExact == state = "up" => usedPages = Cardinality(bits)

\* What the allocator may hand out: usable frames outside the bitmap.
Allocatable ==
    {p \in Frames : \E i \in DOMAIN map :
        map[i].type = "usable" /\ map[i].base <= p /\ p < EndOf(map[i])}
    \ (bmBase .. bmBase + bmPages - 1)

\* No frame is lost and none is given out twice: the set bits are exactly the
\* frames that are not RAM to give, the bitmap's own and those in use.
BitsExact == state = "up" => /\ held \subseteq Allocatable
                             /\ Free = Allocatable \ held

\* Every frame below alloc_hint is in use, so that the first pass of
\* pmm_alloc_page() already finds the lowest free frame and the second pass
\* never finds any.
HintIsLowest == state = "up" => \A p \in Frames : p < hint => p \in bits

\* After any sequence of calls the bitmap is exact, and the hint that shortens the search
\* in it has not passed a free frame (pmm_alloc_page, pmm_alloc_contig, pmm_free_page).
FramesExact == BitsExact /\ HintIsLowest

\* The skipping search of pmm_alloc_contig() misses no run.
ContigFindsFirst ==
    state = "up" => \A n \in Runs \ {0} :
        Scan(n) = IF RunStarts(n) = {} THEN total ELSE Least(RunStarts(n))

=============================================================================
