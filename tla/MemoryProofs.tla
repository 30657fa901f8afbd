---------------------------- MODULE MemoryProofs ----------------------------
(***************************************************************************)
(* For every memory map and every sequence of calls: the frame count, the  *)
(* bitmap and the hint of mm/pmm.c agree, and no frame is handed out twice.*)
(* For every size of the tables and every tree of tables the bootloader    *)
(* leaves: vmm_map() and vmm_unmap() change the translation of the page    *)
(* they are at and of no other, no frame in use becomes a table, and the   *)
(* TLB agrees with the tables.                                             *)
(***************************************************************************)
EXTENDS EarlyBoot, FiniteSetTheorems, WellFoundedInduction, TLAPS

-----------------------------------------------------------------------------
(* The first free frame. *)

\* A nonempty set of naturals has a least element: the first free frame that
\* pmm_alloc() finds, and the first run of pmm_alloc_contig(), rest on it.
LEMMA LeastProp ==
    ASSUME NEW S \in SUBSET Nat, S # {}
    PROVE  Least(S) \in S /\ \A y \in S : Least(S) <= y
PROOF
<1> DEFINE Less == {ss \in Nat \X Nat : ss[1] < ss[2]}
<1>1. OpToRel(<, Nat) = Less
    BY Zenon DEF OpToRel
<1>2. IsWellFoundedOn(Less, Nat)
    BY <1>1, NatLessThanWellFounded, Zenon
<1>3. PICK x \in S : \A y \in S : ~(<<y, x>> \in Less)
    BY <1>2, WFMin, Zenon
<1>4. ASSUME NEW y \in S PROVE x <= y
    <2>1. y \in Nat /\ x \in Nat /\ <<y, x>> \in Nat \X Nat
        OBVIOUS
    <2>2. ~(<<y, x>> \in Less)
        BY <1>3
    <2>3. ~(<<y, x>>[1] < <<y, x>>[2])
        BY <2>1, <2>2
    <2>4. QED
        BY <2>1, <2>3
<1>5. QED
    BY <1>4, Zenon DEF Least

-----------------------------------------------------------------------------
(* The frame allocator (Pmm). *)

\* total_pages is the end of some RAM region (or 0) and no region ends later.
LEMMA TotalProp ==
    ASSUME NEW m \in Maps
    PROVE  /\ TotalPages(m) \in Nat
           /\ \A i \in DOMAIN m : m[i].type = "usable" => EndOf(m[i]) <= TotalPages(m)
PROOF
<1> DEFINE ends == {0} \cup {EndOf(m[i]) : i \in {j \in DOMAIN m : IsRam(m[j])}}
           caps == {n \in Nat : \A e \in ends : e <= n}
<1>1. \A i \in DOMAIN m : EndOf(m[i]) \in Nat /\ EndOf(m[i]) <= MaxFrames
    BY PmmAssumption DEF Regions, EndOf
<1>2. ends \subseteq Nat
    BY <1>1
<1>3. MaxFrames \in caps
    BY <1>1, PmmAssumption
<1>4. PICK c \in caps : \A d \in caps : c <= d
    <2>1. caps \in SUBSET Nat /\ caps # {}
        BY <1>3
    <2> HIDE DEF caps
    <2>2. QED
        BY <2>1, LeastProp, Zenon
<1>5. c \in ends
    <2>1. SUFFICES ASSUME c \notin ends PROVE FALSE
        OBVIOUS
    <2>2. c \in Nat /\ \A e \in ends : e <= c /\ e # c /\ e \in Nat
        BY <2>1, <1>2, <1>4
    <2>3. c > 0 /\ \A e \in ends : e <= c - 1
        BY <2>2
    <2>4. c - 1 \in caps
        BY <2>2, <2>3
    <2>5. QED
        BY <2>2, <2>4, <1>4
<1>6. \E e \in ends : \A f \in ends : f <= e
    BY <1>4, <1>5
<1>7. TotalPages(m) \in ends /\ \A f \in ends : f <= TotalPages(m)
    <2> HIDE DEF ends
    <2>1. TotalPages(m) = CHOOSE e \in ends : \A f \in ends : f <= e
        BY DEF TotalPages, ends
    <2>2. QED
        BY <1>6, <2>1
<1>8. ASSUME NEW i \in DOMAIN m, m[i].type = "usable" PROVE EndOf(m[i]) \in ends
    BY <1>8 DEF IsRam
<1>9. QED
    BY <1>2, <1>7, <1>8

\* A set of frames is finite; its complement has the other frames.
LEMMA FrameCount ==
    ASSUME NEW n \in Nat, NEW T \in SUBSET (0 .. n - 1)
    PROVE  /\ IsFiniteSet(T) /\ Cardinality(T) \in Nat /\ Cardinality(T) <= n
           /\ Cardinality((0 .. n - 1) \ T) = n - Cardinality(T)
PROOF
<1> DEFINE F == 0 .. n - 1
<1>1. n - 1 \in Int /\ 0 \in Int
    OBVIOUS
<1>2. IsFiniteSet(F) /\ Cardinality(F) = n
    BY <1>1, FS_Interval
<1> HIDE DEF F
<1>3. IsFiniteSet(T) /\ Cardinality(T) \in Nat /\ Cardinality(T) <= Cardinality(F)
    BY <1>2, FS_Subset, FS_CardinalityType, Zenon DEF F
<1>4. Cardinality(F \ T) = Cardinality(F) - Cardinality(F \cap T)
    BY <1>2, FS_Difference
<1>5. F \cap T = T
    BY Zenon DEF F
<1>6. QED
    BY <1>2, <1>3, <1>4, <1>5, Zenon DEF F

\* A bitmap of n bits takes a natural number of frames.
LEMMA BitmapNat == ASSUME NEW n \in Nat PROVE BitmapPages(n) \in Nat
PROOF
<1>1. ASSUME NEW a \in Nat, NEW b \in Nat \ {0} PROVE CeilDiv(a, b) \in Nat
    BY DEF CeilDiv
<1>2. BitsPerByte \in Nat \ {0} /\ PageSize \in Nat \ {0}
    BY PmmAssumption
<1>3. CeilDiv(n, BitsPerByte) \in Nat
    BY <1>1, <1>2
<1>4. QED
    BY <1>1, <1>2, <1>3 DEF BitmapPages

-----------------------------------------------------------------------------
\* The inductive invariant.  The count needs the bits to be frames; BitsExact
\* needs, besides itself, that what is held is marked; the hint needs the bits
\* below it to stay set.
IInv == /\ TypeOK /\ UsedCountExact /\ BitsExact /\ HintIsLowest
        /\ state = "off" => total = 0 /\ hint = 0

\* pmm_init() establishes the invariant: the frames it frees are exactly the
\* usable ones outside the bitmap, and used_pages counts the rest.
LEMMA BootStep ==
    ASSUME IInv, NEW m \in Maps, PmmInit(m)
    PROVE  IInv'
PROOF
<1>0. bits = {} /\ held = {} /\ hint = 0 /\ usedPages \in Nat /\ bmBase \in Nat
    BY DEF PmmInit, IInv, TypeOK, Frames
<1>a. TotalPages(m) \in Nat /\ BitmapPages(TotalPages(m)) \in Nat
    BY TotalProp, BitmapNat
<1>1. /\ total' \in Nat /\ bmPages' \in Nat /\ map' = m /\ hint' = 0 /\ held' = {}
      /\ total' = TotalPages(m) /\ bmPages' = BitmapPages(TotalPages(m))
      /\ bits = {} /\ usedPages \in Nat /\ bmBase \in Nat
    BY <1>0, <1>a DEF PmmInit
<1>2. CASE Homes(m) = {}
    BY <1>1, <1>2 DEF PmmInit, IInv, TypeOK, Frames, UsedCountExact, BitsExact, HintIsLowest
<1>3. CASE Homes(m) # {}
    <2> DEFINE h == Least(Homes(m))
               given == Given(m, total', bmBase', bmPages')
    <2>1. h \in Homes(m)
        <3>1. Homes(m) \in SUBSET Nat
            BY PmmAssumption DEF Homes
        <3>2. QED
            BY <3>1, <1>3, LeastProp
    <2>2. /\ h \in DOMAIN m /\ m[h].type = "usable" /\ bmBase' = m[h].base
          /\ m[h].len >= bmPages' /\ bmBase' \in Nat
          /\ bits' = (0 .. total' - 1) \ given
          /\ usedPages' = total' - Cardinality(given)
          /\ state' = "up"
        BY <1>1, <1>3, <2>1, PmmAssumption DEF PmmInit, Homes, Regions
    <2>3. given = Allocatable'
        <3>1. ASSUME NEW p \in 0 .. total' - 1, NEW i \in DOMAIN m,
                     m[i].type = "usable"
              PROVE  StartOf(m[i], bmBase', bmPages') <= p /\ p < EndOf(m[i])
                     <=> /\ m[i].base <= p /\ p < EndOf(m[i])
                         /\ p \notin bmBase' .. bmBase' + bmPages' - 1
            <4>1. /\ m[i].base \in Nat /\ m[i].len \in Nat /\ m[h].base \in Nat
                  /\ m[h].len \in Nat
                BY <2>2, PmmAssumption DEF Regions
            <4>2. i # h => \/ m[i].base + m[i].len <= m[h].base
                           \/ m[h].base + m[h].len <= m[i].base
                BY <2>2, PmmAssumption
            <4>3. QED
                BY <1>1, <2>2, <4>1, <4>2 DEF StartOf, EndOf
        <3>2. QED
            BY <1>1, <3>1 DEF Given, Allocatable, Frames
    <2>4. given \in SUBSET (0 .. total' - 1)
        BY DEF Given
    <2> HIDE DEF given
    <2>6. /\ Cardinality((0 .. total' - 1) \ given) = total' - Cardinality(given)
          /\ Cardinality(given) \in Nat /\ Cardinality(given) <= total'
        BY <1>1, <2>4, FrameCount, Zenon
    <2>7. UsedCountExact' /\ usedPages' \in Nat
        BY <1>1, <2>2, <2>6 DEF UsedCountExact
    <2>8. BitsExact'
        BY <1>1, <2>2, <2>3, <2>4, Zenon DEF BitsExact, Free, Frames
    <2>9. TypeOK' /\ HintIsLowest'
        BY <1>1, <2>2, <2>7 DEF TypeOK, Frames, HintIsLowest
    <2>10. QED
        BY <2>2, <2>7, <2>8, <2>9 DEF IInv
<1>4. QED
    BY <1>2, <1>3

\* The part of the state the calls after pmm_init() leave alone.
Layout == <<map, total, bmBase, bmPages>>

\* pmm_alloc_page() takes the lowest free frame: the hint is past used frames
\* only, so the first pass finds it and the new hint is past used frames again.
LEMMA AllocPageStep ==
    ASSUME IInv, AllocPage
    PROVE  IInv'
PROOF
<1>1. UNCHANGED Layout /\ state = "up" /\ Frames' = Frames /\ Allocatable' = Allocatable
    BY DEF AllocPage, Layout, Frames, Allocatable
<1>2. CASE Free = {}
    BY <1>1, <1>2 DEF AllocPage, Layout, IInv, TypeOK, UsedCountExact, BitsExact, HintIsLowest
<1>3. CASE Free # {}
    <2> DEFINE p == NextFrame
    <2>1. Free \in SUBSET Nat /\ Above \in SUBSET Nat
        BY DEF Free, Above, Frames, IInv, TypeOK
    <2>2. p \in Free /\ \A q \in Free : p <= q
        <3>1. Above = Free
            BY <1>1, <2>1 DEF IInv, HintIsLowest, TypeOK, Above, Free
        <3>2. QED
            BY <1>3, <2>1, <3>1, LeastProp DEF NextFrame
    <2>3. /\ bits' = bits \cup {p} /\ usedPages' = usedPages + 1 /\ hint' = p + 1
          /\ held' = held \cup {p} /\ state' = state
        BY <1>3 DEF AllocPage, HintAfter, BitSet
    <2> HIDE DEF p
    <2>4. p \in Frames /\ p \notin bits /\ p \in Nat
        BY <2>1, <2>2 DEF Free
    <2>5. UsedCountExact' /\ usedPages' \in Nat
        <3>1. IsFiniteSet(bits)
            BY FrameCount, Zenon DEF IInv, TypeOK, Frames
        <3>2. QED
            BY <1>1, <2>3, <2>4, <3>1, FS_AddElement DEF IInv, UsedCountExact, TypeOK
    <2>6. TypeOK'
        BY <1>1, <2>3, <2>4, <2>5 DEF IInv, TypeOK, Layout
    <2>7. BitsExact'
        BY <1>1, <2>2, <2>3, <2>4 DEF IInv, BitsExact, Free
    <2>8. HintIsLowest'
        BY <1>1, <2>1, <2>2, <2>3, <2>4 DEF HintIsLowest, Free, Frames, IInv, TypeOK
    <2>9. QED
        BY <1>1, <2>3, <2>5, <2>6, <2>7, <2>8 DEF IInv
<1>4. QED
    BY <1>2, <1>3

\* pmm_alloc_contig() marks a run of free frames and counts each of them.
LEMMA AllocContigStep ==
    ASSUME IInv, NEW n \in Runs, AllocContig(n)
    PROVE  IInv'
PROOF
<1>1. /\ UNCHANGED Layout /\ state = "up" /\ state' = "up" /\ hint' = hint
      /\ Frames' = Frames /\ Allocatable' = Allocatable
    BY DEF AllocContig, Layout, Frames, Allocatable
<1>2. CASE n = 0 \/ RunStarts(n) = {}
    BY <1>1, <1>2 DEF AllocContig, Layout, IInv, TypeOK, UsedCountExact, BitsExact,
                      HintIsLowest, Free
<1>3. CASE ~(n = 0 \/ RunStarts(n) = {})
    <2> DEFINE s == Least(RunStarts(n))
               run == RunAt(s, n)
    <2>1. n \in Nat /\ total \in Nat
        BY PmmAssumption DEF IInv, TypeOK
    <2>2. s \in Frames /\ s + n <= total /\ run \cap bits = {}
        <3>1. RunStarts(n) \in SUBSET Nat
            BY <2>1 DEF RunStarts, Frames
        <3>2. s \in RunStarts(n)
            BY <1>3, <3>1, LeastProp
        <3> HIDE DEF s
        <3>3. QED
            BY <3>2 DEF RunStarts
    <2>3. /\ bits' = bits \cup run /\ usedPages' = usedPages + n
          /\ held' = held \cup run
        BY <1>3 DEF AllocContig, ContigCount
    <2> HIDE DEF s
    <2>4. run \in SUBSET Frames
        BY <2>1, <2>2 DEF RunAt, Frames
    <2>5. IsFiniteSet(run) /\ Cardinality(run) = n
        <3>1. s \in Int /\ s + n - 1 \in Int /\ s + n - 1 - s + 1 = n
            BY <2>1, <2>2 DEF Frames
        <3>2. IsFiniteSet(s .. s + n - 1)
              /\ Cardinality(s .. s + n - 1)
                 = IF s > s + n - 1 THEN 0 ELSE (s + n - 1) - s + 1
            BY <3>1, FS_Interval
        <3>3. QED
            BY <2>1, <3>1, <3>2, <1>3 DEF RunAt
    <2> HIDE DEF run
    <2>6. Cardinality(bits') = Cardinality(bits) + n
        <3>1. IsFiniteSet(bits) /\ Cardinality(bits) \in Nat
            BY FrameCount, Zenon DEF IInv, TypeOK, Frames
        <3>2. Cardinality(bits \cup run)
              = Cardinality(bits) + Cardinality(run) - Cardinality(bits \cap run)
            BY <2>5, <3>1, FS_Union
        <3>3. Cardinality(bits \cap run) = 0
            BY <2>2, FS_EmptySet
        <3>4. QED
            BY <2>1, <2>3, <2>5, <3>1, <3>2, <3>3
    <2>7. UsedCountExact' /\ usedPages' \in Nat
        BY <1>1, <2>1, <2>3, <2>6 DEF IInv, TypeOK, UsedCountExact
    <2>8. TypeOK'
        BY <1>1, <2>3, <2>4, <2>7 DEF IInv, TypeOK, Layout
    <2>9. BitsExact'
        BY <1>1, <2>2, <2>3, <2>4 DEF IInv, BitsExact, Free
    <2>10. HintIsLowest'
        BY <1>1, <2>3 DEF IInv, HintIsLowest
    <2>11. QED
        BY <1>1, <2>7, <2>8, <2>9, <2>10 DEF IInv
<1>4. QED
    BY <1>2, <1>3

\* pmm_free_page() clears one bit, counts it and lowers the hint to it; a frame
\* that is free or does not exist changes nothing.
LEMMA FreePageStep ==
    ASSUME IInv, NEW p \in 0 .. total, FreePage(p)
    PROVE  IInv'
PROOF
<1>1. /\ UNCHANGED Layout /\ state = "up" /\ state' = "up"
      /\ Frames' = Frames /\ Allocatable' = Allocatable
    BY DEF FreePage, Layout, Frames, Allocatable
<1>2. CASE p \in Free \/ p >= total
    BY <1>1, <1>2 DEF FreePage, Layout, IInv, TypeOK, UsedCountExact, BitsExact,
                      HintIsLowest, Free
<1>3. CASE ~(p \in Free \/ p >= total)
    <2>1. /\ p \in held /\ bits' = bits \ {p} /\ usedPages' = usedPages - 1
          /\ hint' = HintFreed(p) /\ held' = held \ {p}
        BY <1>3 DEF FreePage
    <2>2. p \in Frames /\ p \in bits /\ p \in Nat /\ p \in Allocatable
        BY <1>1, <1>3, <2>1 DEF Free, IInv, TypeOK, BitsExact, Frames
    <2>3. UsedCountExact' /\ usedPages' \in Nat
        <3>1. IsFiniteSet(bits) /\ Cardinality(bits) \in Nat
            BY FrameCount, Zenon DEF IInv, TypeOK, Frames
        <3>2. Cardinality(bits \ {p}) = Cardinality(bits) - 1
            BY <2>2, <3>1, FS_RemoveElement, Zenon
        <3>3. Cardinality(bits) # 0
            BY <2>2, <3>1, FS_EmptySet
        <3>4. QED
            BY <1>1, <2>1, <3>1, <3>2, <3>3 DEF IInv, UsedCountExact, TypeOK
    <2>4. TypeOK'
        BY <1>1, <2>1, <2>2, <2>3 DEF IInv, TypeOK, Layout, HintFreed
    <2>5. BitsExact'
        BY <1>1, <2>1, <2>2 DEF IInv, BitsExact, Free
    <2>6. HintIsLowest'
        BY <1>1, <2>1, <2>2 DEF IInv, TypeOK, HintIsLowest, HintFreed, Frames
    <2>7. QED
        BY <1>1, <2>3, <2>4, <2>5, <2>6 DEF IInv
<1>4. QED
    BY <1>2, <1>3

-----------------------------------------------------------------------------
\* Whatever the memory map and the order of calls: used_pages is the number of
\* set bits, a set bit is a frame nobody may have or one that is in use (so no
\* frame is handed out twice and none is lost), and alloc_hint never passes a
\* free frame.
THEOREM PmmSafety ==
    Spec => [](TypeOK /\ UsedCountExact /\ FramesExact)
PROOF
<1>1. Init => IInv
    BY DEF Init, IInv, TypeOK, Frames, UsedCountExact, BitsExact, HintIsLowest
<1>2. IInv /\ [Next]_vars => IInv'
    <2>1. SUFFICES ASSUME IInv, [Next]_vars PROVE IInv'
        OBVIOUS
    <2>2. CASE UNCHANGED vars
        BY <2>1, <2>2 DEF vars, IInv, TypeOK, Frames, UsedCountExact, BitsExact,
                          HintIsLowest, Allocatable, Free
    <2>3. CASE Next
        BY <2>1, <2>3, BootStep, AllocPageStep, AllocContigStep, FreePageStep DEF Next
    <2>4. QED
        BY <2>1, <2>2, <2>3
<1>3. IInv => TypeOK /\ UsedCountExact /\ FramesExact
    BY DEF IInv, FramesExact
<1>4. QED
    BY <1>1, <1>2, <1>3, PTL DEF Spec

\* The second pass of pmm_alloc_page(), from frame 0 up to the hint, never finds
\* a frame: whenever a frame is free, one at or above the hint is.
THEOREM SecondPassIdle ==
    Spec => [](state = "up" /\ Free # {} => Above = Free)
PROOF
<1>1. TypeOK /\ FramesExact => (state = "up" /\ Free # {} => Above = Free)
    BY DEF TypeOK, FramesExact, HintIsLowest, Above, Free, Frames
<1>2. QED
    BY <1>1, PmmSafety, PTL

-----------------------------------------------------------------------------
(* Trees of page tables, for every number of entries: what writing a leaf  *)
(* and linking in an empty table do to the translations of all the pages.  *)

\* Tables the hardware can walk.
Good(ts, r, lv) ==
    /\ DOMAIN ts \subseteq Nat /\ r \in DOMAIN ts
    /\ ts \in [DOMAIN ts -> [Index -> Entry]]
    /\ lv \in [DOMAIN ts -> 1 .. 4] /\ lv[r] = 4
    /\ Shaped(ts, lv) /\ OneParent(ts)

\* The way to page v exists, down to the lowest table.
Path(ts, r, v) ==
    /\ ts[r][v[1]].kind = "table"
    /\ ts[Table3(ts, r, v)][v[2]].kind = "table"
    /\ ts[Table2(ts, r, v)][v[3]].kind = "table"

\* A table on the way to a page is one of the tables, at its level.
LEMMA WayLevels ==
    ASSUME NEW ts, NEW r, NEW lv, Good(ts, r, lv), NEW v \in Page
    PROVE  /\ v[1] \in Index /\ v[2] \in Index /\ v[3] \in Index /\ v[4] \in Index
           /\ ts[r][v[1]].kind = "table" =>
                 Table3(ts, r, v) \in DOMAIN ts /\ lv[Table3(ts, r, v)] = 3
           /\ (ts[r][v[1]].kind = "table" /\ ts[Table3(ts, r, v)][v[2]].kind = "table") =>
                 Table2(ts, r, v) \in DOMAIN ts /\ lv[Table2(ts, r, v)] = 2
           /\ Path(ts, r, v) => Table1(ts, r, v) \in DOMAIN ts /\ lv[Table1(ts, r, v)] = 1
PROOF
<1>1. v[1] \in Index /\ v[2] \in Index /\ v[3] \in Index /\ v[4] \in Index
    BY DEF Page
<1> DEFINE t3 == Table3(ts, r, v)
           t2 == Table2(ts, r, v)
           t1 == Table1(ts, r, v)
<1>2. ASSUME ts[r][v[1]].kind = "table" PROVE t3 \in DOMAIN ts /\ lv[t3] = 3
    BY <1>1, <1>2 DEF Good, Shaped, Table3
<1>3. ASSUME ts[r][v[1]].kind = "table", ts[t3][v[2]].kind = "table"
      PROVE  t2 \in DOMAIN ts /\ lv[t2] = 2
    <2>1. t3 \in DOMAIN ts /\ lv[t3] = 3
        BY <1>2, <1>3
    <2> HIDE DEF t3
    <2>2. t2 = ts[t3][v[2]].frame
        BY DEF Table2, t3
    <2>3. QED
        BY <1>1, <1>3, <2>1, <2>2 DEF Good, Shaped
<1>4. ASSUME Path(ts, r, v) PROVE t1 \in DOMAIN ts /\ lv[t1] = 1
    <2>1. t2 \in DOMAIN ts /\ lv[t2] = 2 /\ ts[t2][v[3]].kind = "table"
        BY <1>3, <1>4 DEF Path
    <2> HIDE DEF t2
    <2>2. t1 = ts[t2][v[3]].frame
        BY DEF Table1, t2
    <2>3. QED
        BY <1>1, <2>1, <2>2 DEF Good, Shaped
<1>5. QED
    BY <1>1, <1>2, <1>3, <1>4

\* A table has one entry that leads to it.
LEMMA ParentOf ==
    ASSUME NEW ts, OneParent(ts), NEW t \in DOMAIN ts, NEW u \in DOMAIN ts,
           NEW j \in Index, NEW k \in Index, ts[t][j].kind = "table",
           ts[u][k].kind = "table", ts[t][j].frame = ts[u][k].frame
    PROVE  t = u /\ j = k
PROOF BY Zenon DEF OneParent

\* Two pages that share their lowest table share the way to it.
LEMMA SameWay ==
    ASSUME NEW ts, NEW r, NEW lv, Good(ts, r, lv), NEW u \in Page, NEW v \in Page,
           Path(ts, r, u), Path(ts, r, v), Table1(ts, r, u) = Table1(ts, r, v)
    PROVE  u[1] = v[1] /\ u[2] = v[2] /\ u[3] = v[3]
PROOF
<1> DEFINE u3 == Table3(ts, r, u)
           u2 == Table2(ts, r, u)
           v3 == Table3(ts, r, v)
           v2 == Table2(ts, r, v)
<1>1. /\ u[1] \in Index /\ u[2] \in Index /\ u[3] \in Index /\ v[1] \in Index
      /\ v[2] \in Index /\ v[3] \in Index
      /\ r \in DOMAIN ts /\ u3 \in DOMAIN ts /\ u2 \in DOMAIN ts
      /\ v3 \in DOMAIN ts /\ v2 \in DOMAIN ts
    BY WayLevels DEF Path, Good
<1>2. /\ ts[r][u[1]].kind = "table" /\ ts[r][v[1]].kind = "table"
      /\ ts[u3][u[2]].kind = "table" /\ ts[v3][v[2]].kind = "table"
      /\ ts[u2][u[3]].kind = "table" /\ ts[v2][v[3]].kind = "table"
    BY DEF Path
<1>3. /\ u3 = ts[r][u[1]].frame /\ v3 = ts[r][v[1]].frame
      /\ u2 = ts[u3][u[2]].frame /\ v2 = ts[v3][v[2]].frame
      /\ ts[u2][u[3]].frame = ts[v2][v[3]].frame
    BY Zenon DEF Table1, Table2, Table3
<1> HIDE DEF u3, u2, v3, v2
<1>4. ASSUME NEW t \in DOMAIN ts, NEW w \in DOMAIN ts, NEW j \in Index, NEW k \in Index,
             ts[t][j].kind = "table", ts[w][k].kind = "table", ts[t][j].frame = ts[w][k].frame
      PROVE  t = w /\ j = k
    BY <1>4, ParentOf DEF Good
<1> DEFINE a1 == u[1]
           a2 == u[2]
           a3 == u[3]
           b1 == v[1]
           b2 == v[2]
           b3 == v[3]
<1>5. /\ a1 \in Index /\ a2 \in Index /\ a3 \in Index
      /\ b1 \in Index /\ b2 \in Index /\ b3 \in Index
      /\ ts[r][a1].kind = "table" /\ ts[r][b1].kind = "table"
      /\ ts[u3][a2].kind = "table" /\ ts[v3][b2].kind = "table"
      /\ ts[u2][a3].kind = "table" /\ ts[v2][b3].kind = "table"
      /\ u3 = ts[r][a1].frame /\ v3 = ts[r][b1].frame
      /\ u2 = ts[u3][a2].frame /\ v2 = ts[v3][b2].frame
      /\ ts[u2][a3].frame = ts[v2][b3].frame
    BY <1>1, <1>2, <1>3, Zenon
<1> HIDE DEF a1, a2, a3, b1, b2, b3
<1>6. u2 = v2 /\ a3 = b3
    <2>1. /\ u2 \in DOMAIN ts /\ v2 \in DOMAIN ts /\ a3 \in Index /\ b3 \in Index
          /\ ts[u2][a3].kind = "table" /\ ts[v2][b3].kind = "table"
          /\ ts[u2][a3].frame = ts[v2][b3].frame
        BY <1>1, <1>5, SMTT(30), Zenon
    <2>2. QED
        BY <1>4, <2>1, SMTT(30), Zenon
<1>7. u3 = v3 /\ a2 = b2
    <2>1. /\ u3 \in DOMAIN ts /\ v3 \in DOMAIN ts /\ a2 \in Index /\ b2 \in Index
          /\ ts[u3][a2].kind = "table" /\ ts[v3][b2].kind = "table"
          /\ ts[u3][a2].frame = ts[v3][b2].frame
        BY <1>1, <1>5, <1>6
    <2>2. QED
        BY <1>4, <2>1
<1>8. a1 = b1
    <2>1. /\ r \in DOMAIN ts /\ r \in DOMAIN ts /\ a1 \in Index /\ b1 \in Index
          /\ ts[r][a1].kind = "table" /\ ts[r][b1].kind = "table"
          /\ ts[r][a1].frame = ts[r][b1].frame
        BY <1>1, <1>5, <1>7, Zenon
    <2>2. QED
        BY <1>4, <2>1
<1>9. QED
    BY <1>6, <1>7, <1>8 DEF a1, a2, a3, b1, b2, b3

\* The tables new are ts with the leaf of page v written or cleared.
Written(ts, r, lv, v, e, new) ==
    /\ Good(ts, r, lv) /\ v \in Page /\ Path(ts, r, v) /\ e \in Entry
    /\ e.kind \in {"absent", "page"} /\ new = SetEntry(ts, Table1(ts, r, v), v[4], e)

\* The translation of page v is the leaf e, that of every other page is as it was.
OnlyPage(ts, r, v, e, new) ==
    /\ DOMAIN new = DOMAIN ts
    /\ Walk(new, r, v) = IF e.kind = "page" THEN Small(e.frame, e.flags) ELSE Nowhere
    /\ \A u \in Page : u # v => Walk(new, r, u) = Walk(ts, r, u)

\* A leaf written or cleared in the lowest table of page v changes the translation of v
\* and of no other page.
LEMMA LeafWritten ==
    ASSUME NEW ts, NEW r, NEW lv, NEW v, NEW e, NEW new, Written(ts, r, lv, v, e, new)
    PROVE  Good(new, r, lv) /\ OnlyPage(ts, r, v, e, new)
PROOF
<1> USE DEF Written
<1> DEFINE t1 == Table1(ts, r, v)
<1>1. /\ v[1] \in Index /\ v[2] \in Index /\ v[3] \in Index /\ v[4] \in Index
      /\ t1 \in DOMAIN ts /\ lv[t1] = 1
    BY WayLevels
<1>2. /\ r \in DOMAIN ts /\ DOMAIN ts \subseteq Nat
      /\ ts \in [DOMAIN ts -> [Index -> Entry]]
      /\ lv \in [DOMAIN ts -> 1 .. 4] /\ lv[r] = 4
      /\ Shaped(ts, lv) /\ OneParent(ts)
    BY DEF Good
<1>0. new = SetEntry(ts, t1, v[4], e)
    OBVIOUS
<1> HIDE DEF t1
<1>3. new \in [DOMAIN ts -> [Index -> Entry]]
    <2>1. SetEntry(ts, t1, v[4], e) \in [DOMAIN ts -> [Index -> Entry]]
        BY <1>1, <1>2 DEF SetEntry
    <2>2. QED
        BY <1>0, <2>1
<1>4. DOMAIN new = DOMAIN ts
    BY <1>3
<1>5. \A t \in DOMAIN ts : t # t1 => new[t] = ts[t]
    BY <1>0, <1>2 DEF SetEntry
<1>6. \A k \in Index : new[t1][k] = IF k = v[4] THEN e ELSE ts[t1][k]
    BY <1>0, <1>1, <1>2 DEF SetEntry
<1>7. \A t \in DOMAIN ts : \A k \in Index : new[t][k].kind = "table" =>
          new[t][k] = ts[t][k] /\ t # t1
    <2>1. SUFFICES ASSUME NEW t \in DOMAIN ts, NEW k \in Index, new[t][k].kind = "table"
                   PROVE  new[t][k] = ts[t][k] /\ t # t1
        OBVIOUS
    <2>2. CASE t = t1
        <3>1. k # v[4] /\ ts[t1][k].kind = "table"
            BY <1>6, <2>1, <2>2
        <3>2. lv[ts[t1][k].frame] = 0 /\ ts[t1][k].frame \in DOMAIN ts
            BY <1>1, <1>2, <3>1 DEF Shaped
        <3>3. QED
            BY <1>2, <3>2
    <2>3. QED
        BY <1>5, <2>1, <2>2
<1>8. Shaped(new, lv)
    <2>1. SUFFICES ASSUME NEW t \in DOMAIN ts, NEW k \in Index
                   PROVE  /\ new[t][k].kind = "table" => /\ new[t][k].frame \in DOMAIN ts
                                                         /\ lv[new[t][k].frame] = lv[t] - 1
                          /\ new[t][k].kind = "page" => lv[t] = 1
                          /\ new[t][k].kind = "huge" => lv[t] \in {2, 3}
        BY <1>4, Zenon DEF Shaped
    <2>2. QED
        BY <1>1, <1>2, <1>5, <1>6, <1>7, <2>1 DEF Shaped
<1>9. OneParent(new)
    BY <1>2, <1>4, <1>7 DEF OneParent
<1>10. Good(new, r, lv)
    BY <1>2, <1>3, <1>4, <1>8, <1>9, SMTT(30), Zenon DEF Good
<1>11. ASSUME NEW u \in Page
       PROVE  /\ new[r] = ts[r] /\ Table3(new, r, u) = Table3(ts, r, u)
              /\ ts[r][u[1]].kind = "table" =>
                    /\ new[Table3(ts, r, u)] = ts[Table3(ts, r, u)]
                    /\ Table2(new, r, u) = Table2(ts, r, u)
              /\ (ts[r][u[1]].kind = "table" /\ ts[Table3(ts, r, u)][u[2]].kind = "table") =>
                    /\ new[Table2(ts, r, u)] = ts[Table2(ts, r, u)]
                    /\ Table1(new, r, u) = Table1(ts, r, u)
    <2>1. new[r] = ts[r] /\ Table3(new, r, u) = Table3(ts, r, u)
        BY <1>1, <1>2, <1>5, SMTT(30) DEF Table3
    <2>2. ASSUME ts[r][u[1]].kind = "table"
          PROVE  /\ new[Table3(ts, r, u)] = ts[Table3(ts, r, u)]
                 /\ Table2(new, r, u) = Table2(ts, r, u)
        <3>1. Table3(ts, r, u) \in DOMAIN ts /\ lv[Table3(ts, r, u)] = 3
            BY <2>2, WayLevels, SMTT(30), Zenon
        <3>2. new[Table3(ts, r, u)] = ts[Table3(ts, r, u)]
            BY <1>1, <1>5, <3>1
        <3>3. QED
            BY <2>1, <3>2, SMTT(30) DEF Table2
    <2>3. ASSUME ts[r][u[1]].kind = "table", ts[Table3(ts, r, u)][u[2]].kind = "table"
          PROVE  /\ new[Table2(ts, r, u)] = ts[Table2(ts, r, u)]
                 /\ Table1(new, r, u) = Table1(ts, r, u)
        <3>1. Table2(ts, r, u) \in DOMAIN ts /\ lv[Table2(ts, r, u)] = 2
            BY <2>3, WayLevels, SMTT(30)
        <3>2. new[Table2(ts, r, u)] = ts[Table2(ts, r, u)]
            BY <1>1, <1>5, <3>1, SMTT(30)
        <3>3. QED
            BY <2>2, <2>3, <3>2, ZenonT(30) DEF Table1
    <2>4. QED
        BY <2>1, <2>2, <2>3
<1>12. Path(new, r, v) /\ Table1(new, r, v) = t1
    BY <1>11 DEF Path, t1
<1>13. Walk(new, r, v) = IF e.kind = "page" THEN Small(e.frame, e.flags) ELSE Nowhere
    BY <1>1, <1>6, <1>12, Zenon DEF Walk, Path
<1>14. ASSUME NEW u \in Page, u # v PROVE Walk(new, r, u) = Walk(ts, r, u)
    <2>1. CASE Path(ts, r, u)
        <3>1. Table1(ts, r, u) \in DOMAIN ts /\ u[4] \in Index
            BY <2>1, WayLevels
        <3>2. new[Table1(ts, r, u)][u[4]] = ts[Table1(ts, r, u)][u[4]]
            <4>1. CASE Table1(ts, r, u) # t1
                BY <1>5, <3>1, <4>1
            <4>2. CASE Table1(ts, r, u) = t1
                <5>1. u[1] = v[1] /\ u[2] = v[2] /\ u[3] = v[3]
                    BY <2>1, <4>2, SameWay DEF t1
                <5>2. u[4] # v[4]
                    BY <1>14, <5>1 DEF Page
                <5>3. QED
                    BY <1>6, <3>1, <4>2, <5>2
            <4>3. QED
                BY <4>1, <4>2, SMTT(30)
        <3>3. QED
            BY <1>11, <2>1, <3>2, ZenonT(30) DEF Walk, Path
    <2>2. CASE ~Path(ts, r, u)
        BY <1>11, <2>2, ZenonT(30) DEF Walk, Path
    <2>3. QED
        BY <2>1, <2>2
<1>15. QED
    BY <1>4, <1>10, <1>13, <1>14 DEF OnlyPage

\* The tables new, with levels nlv, are ts with a table f added at entry k of t.
Added(ts, r, lv, t, k, f, new, nlv) ==
    /\ Good(ts, r, lv) /\ t \in DOMAIN ts /\ k \in Index /\ lv[t] > 1
    /\ ts[t][k].kind = "absent" /\ f \in Nat /\ f \notin DOMAIN ts
    /\ new = Grow(SetEntry(ts, t, k, Link(f)), f, EmptyTable)
    /\ nlv = Grow(lv, f, lv[t] - 1)

\* Nothing else is changed, and no translation.
Kept(ts, r, t, k, f, new) ==
    /\ DOMAIN new = DOMAIN ts \cup {f} /\ new[t][k] = Link(f)
    /\ \A x \in DOMAIN ts : \A y \in Index : x # t \/ y # k => new[x][y] = ts[x][y]
    /\ \A u \in Page : Walk(new, r, u) = Walk(ts, r, u)

\* A walk ends where an entry is absent.
LEMMA WalkEnds ==
    ASSUME NEW ts, NEW r, NEW v, ts[r][v[1]].kind = "table"
    PROVE  /\ ts[Table3(ts, r, v)][v[2]].kind = "absent" => Walk(ts, r, v) = Nowhere
           /\ (ts[Table3(ts, r, v)][v[2]].kind = "table"
                  /\ ts[Table2(ts, r, v)][v[3]].kind = "absent") => Walk(ts, r, v) = Nowhere
           /\ (ts[Table3(ts, r, v)][v[2]].kind = "table"
                  /\ ts[Table2(ts, r, v)][v[3]].kind = "table"
                  /\ ts[Table1(ts, r, v)][v[4]].kind = "absent") => Walk(ts, r, v) = Nowhere
BY ZenonT(30) DEF Walk

\* A table added where an entry was absent changes no translation.
LEMMA TableAdded ==
    ASSUME NEW ts, NEW r, NEW lv, NEW t, NEW k, NEW f, NEW new, NEW nlv,
           Added(ts, r, lv, t, k, f, new, nlv)
    PROVE  Good(new, r, nlv) /\ Kept(ts, r, t, k, f, new)
PROOF
<1> USE DEF Added
<1>1. /\ r \in DOMAIN ts /\ DOMAIN ts \subseteq Nat
      /\ ts \in [DOMAIN ts -> [Index -> Entry]]
      /\ lv \in [DOMAIN ts -> 1 .. 4] /\ lv[r] = 4
      /\ Shaped(ts, lv) /\ OneParent(ts)
    BY SMTT(30) DEF Good
<1>2. Link(f) \in Entry /\ Absent \in Entry /\ Link(f).kind = "table"
      /\ Link(f).frame = f /\ Absent.kind = "absent"
    BY Zenon DEF Link, Absent, Entry
<1> DEFINE mid == SetEntry(ts, t, k, Link(f))
<1>3. /\ mid \in [DOMAIN ts -> [Index -> Entry]] /\ DOMAIN mid = DOMAIN ts
      /\ mid[t][k] = Link(f)
      /\ \A x \in DOMAIN ts : \A y \in Index : x # t \/ y # k => mid[x][y] = ts[x][y]
    BY <1>1, <1>2 DEF SetEntry
<1> HIDE DEF mid
<1>4. DOMAIN new = DOMAIN ts \cup {f} /\ new[f] = EmptyTable
      /\ \A x \in DOMAIN ts : new[x] = mid[x]
    BY <1>3 DEF Grow, mid
<1>5. EmptyTable \in [Index -> Entry] /\ \A y \in Index : EmptyTable[y] = Absent
    BY <1>2 DEF EmptyTable
<1>6. new \in [DOMAIN new -> [Index -> Entry]]
    <2>1. new = [z \in DOMAIN mid \cup {f} |-> IF z = f THEN EmptyTable ELSE mid[z]]
        BY DEF Grow, mid
    <2>2. QED
        BY <1>3, <1>4, <1>5, <2>1, SMTT(30)
<1>7. /\ new[t][k] = Link(f)
      /\ \A x \in DOMAIN ts : \A y \in Index : x # t \/ y # k => new[x][y] = ts[x][y]
      /\ \A y \in Index : new[f][y] = Absent
    BY <1>3, <1>4, <1>5
<1>8. DOMAIN nlv = DOMAIN ts \cup {f} /\ nlv[f] = lv[t] - 1
      /\ \A x \in DOMAIN ts : nlv[x] = lv[x]
    BY <1>1 DEF Grow
<1>9. nlv \in [DOMAIN new -> 1 .. 4]
    <2>1. lv[t] - 1 \in 1 .. 4
        BY <1>1
    <2>2. nlv = [z \in DOMAIN lv \cup {f} |-> IF z = f THEN lv[t] - 1 ELSE lv[z]]
        BY DEF Grow
    <2>3. QED
        BY <1>1, <1>4, <2>1, <2>2
<1>10. Shaped(new, nlv)
    <2>1. SUFFICES ASSUME NEW x \in DOMAIN new, NEW y \in Index
                   PROVE  /\ new[x][y].kind = "table" => /\ new[x][y].frame \in DOMAIN new
                                                         /\ nlv[new[x][y].frame] = nlv[x] - 1
                          /\ new[x][y].kind = "page" => nlv[x] = 1
                          /\ new[x][y].kind = "huge" => nlv[x] \in {2, 3}
        BY DEF Shaped
    <2>2. CASE x = f
        BY <1>2, <1>7, <2>1, <2>2, SMTT(30)
    <2>3. CASE x = t /\ y = k
        BY <1>2, <1>4, <1>7, <1>8, <2>3, SMTT(30), Zenon
    <2>4. CASE x \in DOMAIN ts /\ (x # t \/ y # k)
        <3>1. new[x][y] = ts[x][y] /\ nlv[x] = lv[x]
            BY <1>7, <1>8, <2>4
        <3>2. /\ ts[x][y].kind = "table" => /\ ts[x][y].frame \in DOMAIN ts
                                            /\ lv[ts[x][y].frame] = lv[x] - 1
              /\ ts[x][y].kind = "page" => lv[x] = 1
              /\ ts[x][y].kind = "huge" => lv[x] \in {2, 3}
            BY <1>1, <2>1, <2>4 DEF Shaped
        <3>3. QED
            BY <1>4, <1>8, <3>1, <3>2, SMTT(30)
    <2>5. QED
        BY <1>4, <2>1, <2>2, <2>3, <2>4, ZenonT(30)
<1>11. OneParent(new)
    <2>1. SUFFICES ASSUME NEW x \in DOMAIN new, NEW w \in DOMAIN new, NEW j \in Index,
                          NEW y \in Index, new[x][j].kind = "table", new[w][y].kind = "table",
                          new[x][j].frame = new[w][y].frame
                   PROVE  x = w /\ j = y
        BY DEF OneParent
    <2>2. x # f /\ w # f /\ x \in DOMAIN ts /\ w \in DOMAIN ts
        BY <1>2, <1>4, <1>7, <2>1
    <2>3. ASSUME NEW z \in DOMAIN ts, NEW n \in Index, z # t \/ n # k,
                 new[z][n].kind = "table"
          PROVE  new[z][n] = ts[z][n] /\ new[z][n].frame # f
        <3>1. new[z][n] = ts[z][n]
            BY <1>7, <2>3
        <3>2. ts[z][n].frame \in DOMAIN ts
            BY <1>1, <2>3, <3>1, SMTT(30) DEF Shaped
        <3>3. QED
            BY <3>1, <3>2
    <2>4. CASE x = t /\ j = k
        BY <1>2, <1>7, <2>1, <2>2, <2>3, <2>4, SMTT(30), Zenon
    <2>5. CASE w = t /\ y = k
        BY <1>2, <1>7, <2>1, <2>2, <2>3, <2>5
    <2>6. CASE (x # t \/ j # k) /\ (w # t \/ y # k)
        <3>1. new[x][j] = ts[x][j] /\ new[w][y] = ts[w][y]
            BY <2>1, <2>2, <2>3, <2>6, SMTT(30), Zenon
        <3>2. ts[x][j].kind = "table" /\ ts[w][y].kind = "table"
              /\ ts[x][j].frame = ts[w][y].frame
            BY <2>1, <3>1
        <3>3. QED
            BY <1>1, <2>1, <2>2, <3>2, ParentOf, SMTT(30), Zenon
    <2>7. QED
        BY <2>4, <2>5, <2>6, SMTT(30), Zenon
<1>12. Good(new, r, nlv)
    BY <1>1, <1>4, <1>6, <1>8, <1>9, <1>10, <1>11, SMTT(30), Zenon DEF Good
<1>13. ASSUME NEW u \in Page PROVE Walk(new, r, u) = Walk(ts, r, u)
    <2> DEFINE t3 == Table3(ts, r, u)
               t2 == Table2(ts, r, u)
               t1 == Table1(ts, r, u)
    <2>1. u[1] \in Index /\ u[2] \in Index /\ u[3] \in Index /\ u[4] \in Index
        BY WayLevels
    <2>2. CASE r = t /\ u[1] = k
        <3>1. Table3(new, r, u) = f /\ new[r][u[1]].kind = "table"
            BY <1>2, <1>7, <2>2 DEF Table3
        <3>2. Walk(new, r, u) = Nowhere
            <4>1. new[f][u[2]].kind = "absent"
                BY <1>2, <1>7, <2>1, Zenon
            <4> QED
                BY <3>1, <4>1, WalkEnds, Zenon
        <3>3. QED
            BY <2>2, <3>2, ZenonT(30) DEF Walk
    <2>3. CASE ~(r = t /\ u[1] = k)
        <3>1. new[r][u[1]] = ts[r][u[1]] /\ Table3(new, r, u) = t3
            BY <1>1, <1>7, <2>1, <2>3 DEF Table3
        <3>2. CASE ts[r][u[1]].kind # "table"
            BY <3>1, <3>2, Zenon DEF Walk
        <3>3. CASE ts[r][u[1]].kind = "table" /\ t3 = t /\ u[2] = k
            <4>1. Table2(new, r, u) = f /\ new[t3][u[2]] = Link(f)
                BY <1>2, <1>7, <3>1, <3>3, ZenonT(30) DEF Table2
            <4>2. Walk(new, r, u) = Nowhere
                <5>1. new[f][u[3]].kind = "absent"
                    BY <1>2, <1>7, <2>1, Zenon
                <5>2. new[r][u[1]].kind = "table" /\ new[Table3(new, r, u)][u[2]].kind = "table"
                    BY <1>2, <3>1, <3>3, <4>1, Zenon
                <5> QED
                    BY <4>1, <5>1, <5>2, WalkEnds, Zenon
            <4>3. QED
                BY <3>3, <4>2, ZenonT(30) DEF Walk
        <3>4. CASE ts[r][u[1]].kind = "table" /\ ~(t3 = t /\ u[2] = k)
            <4>1. t3 \in DOMAIN ts
                BY <3>4, WayLevels, Zenon
            <4>2. new[t3][u[2]] = ts[t3][u[2]]
                BY <1>7, <2>1, <3>4, <4>1
            <4>3. Table2(new, r, u) = t2
                BY <3>1, <4>2 DEF Table2
            <4>4. CASE ts[t3][u[2]].kind # "table"
                BY <3>1, <4>2, <4>4, Zenon DEF Walk
            <4>5. CASE ts[t3][u[2]].kind = "table" /\ t2 = t /\ u[3] = k
                <5>1. Table1(new, r, u) = f /\ new[t2][u[3]] = Link(f)
                    BY <1>2, <1>7, <4>3, <4>5, ZenonT(30) DEF Table1
                <5>2. Walk(new, r, u) = Nowhere
                    <6>1. new[f][u[4]].kind = "absent"
                        BY <1>2, <1>7, <2>1, Zenon
                    <6>2. /\ new[r][u[1]].kind = "table" /\ new[Table3(new, r, u)][u[2]].kind = "table"
                          /\ new[Table2(new, r, u)][u[3]].kind = "table"
                        BY <1>2, <3>1, <3>4, <4>2, <4>3, <4>5, <5>1, Zenon
                    <6> QED
                        BY <5>1, <6>1, <6>2, WalkEnds, Zenon
                <5>3. QED
                    BY <3>4, <4>5, <5>2, ZenonT(30) DEF Walk
            <4>6. CASE ts[t3][u[2]].kind = "table" /\ ~(t2 = t /\ u[3] = k)
                <5>1. t2 \in DOMAIN ts
                    BY <3>4, <4>6, WayLevels, Zenon
                <5>2. new[t2][u[3]] = ts[t2][u[3]]
                    BY <1>7, <2>1, <4>6, <5>1, ZenonT(30)
                <5>3. Table1(new, r, u) = t1
                    BY <4>3, <5>2, Zenon DEF Table1
                <5>4. CASE ts[t2][u[3]].kind # "table"
                    BY <3>1, <3>4, <4>2, <4>3, <4>6, <5>2, <5>4, ZenonT(30) DEF Walk
                <5>5. CASE ts[t2][u[3]].kind = "table"
                    <6>1. t1 \in DOMAIN ts /\ lv[t1] = 1
                        BY <3>4, <4>6, <5>5, WayLevels, ZenonT(30) DEF Path
                    <6>2. t1 # t
                        BY <6>1
                    <6>3. new[t1][u[4]] = ts[t1][u[4]]
                        BY <1>7, <2>1, <6>1, <6>2, Zenon
                    <6>4. QED
                        BY <3>1, <3>4, <4>2, <4>3, <4>6, <5>2, <5>3, <5>5, <6>3, ZenonT(30) DEF Walk
                <5>6. QED
                    BY <5>4, <5>5, ZenonT(30)
            <4>7. QED
                BY <4>4, <4>5, <4>6, ZenonT(30)
        <3>5. QED
            BY <3>2, <3>3, <3>4
    <2>4. QED
        BY <2>2, <2>3, SMTT(30), Zenon
<1>14. QED
    BY <1>4, <1>7, <1>12, <1>13, Zenon DEF Kept

\* The page with number n has an index in each table.
LEMMA SplitPage == ASSUME NEW n \in Nat PROVE Split(n) \in Page
PROOF
<1>1. ASSUME NEW x \in Nat PROVE x % Fan \in Index
    BY FanAssumption DEF Index
<1>2. ASSUME NEW x \in Nat, NEW d \in Nat \ {0} PROVE x \div d \in Nat
    OBVIOUS
<1>3. Fan * Fan \in Nat \ {0}
    BY FanAssumption
<1>4. Fan * Fan * Fan \in Nat \ {0}
    BY <1>3, FanAssumption
<1>5. /\ n \div (Fan * Fan * Fan) \in Nat /\ n \div (Fan * Fan) \in Nat
      /\ n \div Fan \in Nat
    BY <1>2, <1>3, <1>4, FanAssumption
<1>6. QED
    BY <1>1, <1>5 DEF Split, Page

\* A walk of tables the hardware can walk ends in a translation or nowhere.
LEMMA WalkType ==
    ASSUME NEW ts, NEW r, NEW lv, Good(ts, r, lv), NEW v \in Page
    PROVE  Walk(ts, r, v) \in Target
PROOF
<1> DEFINE t3 == Table3(ts, r, v)
           t2 == Table2(ts, r, v)
           t1 == Table1(ts, r, v)
<1>1. ts \in [DOMAIN ts -> [Index -> Entry]]
    BY DEF Good
<1>2. \A t \in DOMAIN ts : \A k \in Index : ts[t][k] \in Entry
    BY <1>1
<1>3. \A e \in Entry : e.frame \in Nat /\ e.flags \in SUBSET Flag
    BY DEF Entry
<1>4. \A p \in Nat, f \in SUBSET Flag : Small(p, f) \in Target /\ Large(p, f) \in Target
    BY DEF Small, Large, Target
<1>5. Nowhere \in Target
    BY DEF Nowhere, Target
<1>6. v[1] \in Index /\ v[2] \in Index /\ v[3] \in Index /\ v[4] \in Index
    BY WayLevels, Zenon
<1>7. v[4] \in Nat /\ v[3] * Fan + v[4] \in Nat
    <2>1. v[3] \in Nat /\ v[4] \in Nat /\ Fan \in Nat
        BY <1>6, FanAssumption DEF Index
    <2>2. QED
        BY <2>1
<1>8. CASE ts[r][v[1]].kind # "table"
    BY <1>5, <1>8, Zenon DEF Walk
<1>9. CASE ts[r][v[1]].kind = "table"
    <2>1. ts[t3][v[2]] \in Entry
        BY <1>2, <1>6, <1>9, WayLevels, Zenon
    <2>2. CASE ts[t3][v[2]].kind = "huge"
        <3>1. ts[t3][v[2]].frame \in Nat /\ ts[t3][v[2]].flags \in SUBSET Flag
            BY <1>3, <2>1
        <3>2. Walk(ts, r, v) = Large(ts[t3][v[2]].frame + v[3] * Fan + v[4], ts[t3][v[2]].flags)
            BY <1>9, <2>2, Zenon DEF Walk
        <3>3. ts[t3][v[2]].frame + v[3] * Fan + v[4] \in Nat
            <4>1. v[3] * Fan \in Nat /\ v[4] \in Nat
                BY <1>6, FanAssumption DEF Index
            <4>2. QED
                BY <3>1, <4>1
        <3>4. QED
            BY <1>4, <3>1, <3>2, <3>3, ZenonT(30)
    <2>3. CASE ts[t3][v[2]].kind \notin {"huge", "table"}
        BY <1>5, <1>9, <2>3, Zenon DEF Walk
    <2>4. CASE ts[t3][v[2]].kind = "table"
        <3>1. ts[t2][v[3]] \in Entry
            BY <1>2, <1>6, <1>9, <2>4, WayLevels, Zenon
        <3>2. ts[t2][v[3]].frame \in Nat /\ ts[t2][v[3]].flags \in SUBSET Flag
            BY <1>3, <3>1, Zenon
        <3>3. CASE ts[t2][v[3]].kind = "huge"
            <4>1. Walk(ts, r, v) = Large(ts[t2][v[3]].frame + v[4], ts[t2][v[3]].flags)
                BY <1>9, <2>4, <3>3, Zenon DEF Walk
            <4>2. ts[t2][v[3]].frame + v[4] \in Nat
                BY <1>7, <3>2
            <4>3. QED
                BY <1>4, <3>2, <4>1, <4>2, Zenon
        <3>4. CASE ts[t2][v[3]].kind \notin {"huge", "table"}
            BY <1>5, <1>9, <2>4, <3>4, Zenon DEF Walk
        <3>5. CASE ts[t2][v[3]].kind = "table"
            <4>1. ts[t1][v[4]] \in Entry
                BY <1>2, <1>6, <1>9, <2>4, <3>5, WayLevels, ZenonT(30) DEF Path
            <4>2. ts[t1][v[4]].frame \in Nat /\ ts[t1][v[4]].flags \in SUBSET Flag
                BY <1>3, <4>1
            <4>3. Walk(ts, r, v) \in {Nowhere, Small(ts[t1][v[4]].frame, ts[t1][v[4]].flags)}
                BY <1>9, <2>4, <3>5, ZenonT(30) DEF Walk
            <4>4. QED
                BY <1>4, <1>5, <4>2, <4>3, Zenon
        <3>6. QED
            BY <3>3, <3>4, <3>5, Zenon
    <2>5. QED
        BY <2>2, <2>3, <2>4, Zenon
<1>10. QED
    BY <1>8, <1>9, Zenon

-----------------------------------------------------------------------------
(* The invariant. *)

\* The walk of vmm_map() is at the table its page needs.
WayAt(ts, r, a, d, v) ==
    \/ d = 4 /\ a = r
    \/ d = 3 /\ a = Table3(ts, r, v) /\ ts[r][v[1]].kind = "table"
    \/ d = 2 /\ a = Table2(ts, r, v) /\ ts[r][v[1]].kind = "table"
             /\ ts[Table3(ts, r, v)][v[2]].kind = "table"
    \/ d = 1 /\ a = Table1(ts, r, v) /\ Path(ts, r, v)
OnWay(v) == WayAt(tabs, root, at, depth, v)

\* The tables are the bootloader's and frames that are held, never free ones.
TablesHeld ==
    /\ DOMAIN tabs \subseteq DOMAIN boot.tabs \cup held
    /\ boot.frames => DOMAIN tabs \subseteq DOMAIN boot.tabs /\ job = NoCall

WalkInv ==
    /\ boot \in Boots /\ (state # "off" => map = boot.map)
    /\ Good(tabs, root, level)
    /\ job \in Calls \cup {NoCall} /\ heapEnd \in Nat
    /\ depth \in 1 .. 4 /\ at \in DOMAIN tabs /\ level[at] = depth
    /\ (job.op = "map" /\ job.v < job.end) => OnWay(Split(job.v))
    /\ DOMAIN tlb \subseteq Page

\* What acpi_init() has read is in range.
BootOK ==
    /\ idx \in Nat \ {0} /\ (pc \in {"header", "table"} => idx \in DOMAIN fw.tables)
    /\ acpi.lapic \in Nat /\ acpi.ioapic \in Nat

MInv == IInv /\ WalkInv /\ TablesHeld /\ TlbFresh /\ BootOK

\* The state of AddressSpace.
SpaceTrans == [v \in Page |-> Translate(v)]
SpaceCall == IF state = "panic" THEN Halted ELSE job
SpaceNext == Space!Next \/ UNCHANGED <<SpaceTrans, SpaceCall>>

\* AddressSpace speaks of the same pages and calls.
LEMMA SameNames ==
    /\ Space!Calls = Calls /\ Space!NoCall = NoCall /\ Space!Halted = Halted
    /\ Space!Page = Page /\ Space!Nowhere = Nowhere /\ Space!Target = Target
    /\ \A n : Space!Split(n) = Split(n)
    /\ \A q, f : Space!Small(q, f) = Small(q, f)
PROOF
BY DEF Space!Calls, Calls, Space!Flag, Flag, Space!NoCall, NoCall, Space!Halted, Halted,
       Space!Page, Page, Space!Index, Index, Space!Nowhere, Nowhere, Space!Target, Target,
       Space!Split, Split, Space!Small, Small

\* Outside of calls there is neither a mapping nor an unmapping under way.
LEMMA NoCallNone == NoCall.op = "none"
BY DEF NoCall

\* A free frame is no table, and nobody holds it.
LEMMA FreshFrame ==
    ASSUME IInv, WalkInv, TablesHeld, state = "up", Free # {}
    PROVE  NextFrame \in Nat /\ NextFrame \notin DOMAIN tabs /\ NextFrame \notin held
PROOF
<1>1. NextFrame \in Free
    <2>1. Free \in SUBSET Nat /\ Above \in SUBSET Nat /\ Above \subseteq Free
        BY DEF Free, Above, Frames, IInv, TypeOK
    <2>2. QED
        BY <2>1, LeastProp, Zenon DEF NextFrame
<1>2. NextFrame \in Allocatable /\ NextFrame \notin held
    BY <1>1 DEF IInv, BitsExact
<1>3. NextFrame \in Nat
    BY <1>1 DEF Free, Frames, IInv, TypeOK
<1>4. PICK j \in DOMAIN map : map[j].type = "usable" /\ map[j].base <= NextFrame
                              /\ NextFrame < EndOf(map[j])
    BY <1>2 DEF Allocatable
<1>5. NextFrame \notin DOMAIN boot.tabs
    <2>1. boot \in Boots /\ map = boot.map /\ map \in Maps
        BY VmmAssumption DEF WalkInv
    <2>2. map[j].base \in Nat /\ EndOf(map[j]) \in Nat
        BY <1>4, <2>1, PmmAssumption DEF Regions, EndOf
    <2>3. \A t \in DOMAIN boot.tabs : t < map[j].base \/ t >= EndOf(map[j])
        BY <1>4, <2>1, VmmAssumption
    <2>4. QED
        BY <1>3, <1>4, <2>2, <2>3
<1>6. QED
    BY <1>2, <1>3, <1>5 DEF TablesHeld

-----------------------------------------------------------------------------
(* The steps. *)

\* Calls that leave the page tables alone.
LEMMA QuietStep ==
    ASSUME MInv, IInv', BootOK', UNCHANGED walkVars, state' # "off" => map' = boot.map,
           held \subseteq held' \/ boot.frames,
           state' = state \/ state' = "panic" \/ (state = "off" /\ state' = "up")
    PROVE  MInv' /\ SpaceNext
PROOF
<1>1. /\ boot' = boot /\ tabs' = tabs /\ level' = level /\ job' = job /\ at' = at
      /\ depth' = depth /\ tlb' = tlb /\ heapEnd' = heapEnd /\ root' = root
    BY DEF walkVars, root
<1>2. WalkInv'
    BY <1>1, ZenonT(30) DEF MInv, WalkInv, OnWay
<1>3. TablesHeld'
    BY <1>1, VmmAssumption, BootAssumption, Zenon DEF MInv, WalkInv, TablesHeld
<1>4. TlbFresh' /\ SpaceTrans' = SpaceTrans
    BY <1>1 DEF MInv, TlbFresh, Translate, SpaceTrans
<1>5. SpaceNext
    <2>1. CASE state' = "panic"
        BY <1>4, <2>1, Zenon DEF SpaceNext, Space!Next, Space!Halt, SpaceTrans, Halted, Space!Halted
    <2>2. CASE state' # "panic"
        BY <1>1, <1>4, <2>2 DEF SpaceNext, SpaceCall
    <2>3. QED
        BY <2>1, <2>2
<1>6. QED
    BY <1>2, <1>3, <1>4, <1>5 DEF MInv

\* A call of vmm_map() or vmm_unmap() begins; a frame may be taken for it first.
LEMMA BeginStep ==
    ASSUME MInv, IInv', BootOK', NEW op \in {"map", "unmap"}, NEW virt \in Nat,
           NEW phys \in Nat, NEW size \in Nat, NEW flags \in SUBSET Flag,
           Start(op, virt, phys, size, flags), heapEnd' \in Nat, map' = map,
           state' = "up", held \subseteq held'
    PROVE  MInv' /\ SpaceNext
PROOF
<1>1. /\ boot' = boot /\ tabs' = tabs /\ level' = level /\ at' = root /\ depth' = 4
      /\ tlb' = tlb /\ root' = root /\ state = "up" /\ job = NoCall
    BY DEF Start, Idle, root
<1>2. job' \in Calls
    <2>1. virt \div PageSize \in Nat /\ phys \div PageSize \in Nat
          /\ EndPage(virt, size) \in Nat
        BY PmmAssumption, SMTT(30), Zenon DEF EndPage, CeilDiv
    <2>2. QED
        BY <2>1 DEF Start, Calls
<1>3. WalkInv'
    BY <1>1, <1>2 DEF MInv, WalkInv, OnWay, WayAt, Good
<1>4. TablesHeld'
    BY <1>1, Zenon DEF MInv, TablesHeld, Start, Idle
<1>5. TlbFresh' /\ SpaceTrans' = SpaceTrans
    BY <1>1 DEF MInv, TlbFresh, Translate, SpaceTrans
<1>6. SpaceNext
    BY <1>1, <1>2, <1>5, SameNames, SMTT(30) DEF SpaceNext, Space!Next, Space!Begin, SpaceTrans
<1>7. QED
    BY <1>3, <1>4, <1>5, <1>6 DEF MInv

\* The page vmm_map() is at, and the table and entry of its walk.
LEMMA WalkAt ==
    ASSUME MInv, Mapping
    PROVE  /\ job \in Calls /\ job.v \in Nat /\ Split(job.v) \in Page
           /\ OnWay(Split(job.v)) /\ Good(tabs, root, level)
           /\ depth \in 1 .. 4 /\ at \in DOMAIN tabs /\ level[at] = depth
           /\ Here \in Index
           /\ depth = 4 => Here = Split(job.v)[1]
           /\ depth = 3 => Here = Split(job.v)[2]
           /\ depth = 2 => Here = Split(job.v)[3]
           /\ depth = 1 => Here = Split(job.v)[4]
PROOF
<1>1. /\ job \in Calls /\ OnWay(Split(job.v)) /\ Good(tabs, root, level)
      /\ depth \in 1 .. 4 /\ at \in DOMAIN tabs /\ level[at] = depth
    BY NoCallNone, Zenon DEF MInv, WalkInv, Mapping
<1>2. job.v \in Nat
    BY <1>1 DEF Calls
<1>3. Split(job.v) \in Page
    BY <1>2, SplitPage
<1>4. /\ depth = 4 => Here = Split(job.v)[1]
      /\ depth = 3 => Here = Split(job.v)[2]
      /\ depth = 2 => Here = Split(job.v)[3]
      /\ depth = 1 => Here = Split(job.v)[4]
    BY SMTT(30) DEF Here
<1>5. Here \in Index
    <2>1. \A v \in Page : v[1] \in Index /\ v[2] \in Index /\ v[3] \in Index /\ v[4] \in Index
        BY SMTT(30) DEF Page
    <2>2. depth = 1 \/ depth = 2 \/ depth = 3 \/ depth = 4
        BY <1>1, SMTT(30)
    <2>3. QED
        BY <1>3, <1>4, <2>1, <2>2, Zenon
<1>6. QED
    BY <1>1, <1>2, <1>3, <1>4, <1>5, ZenonT(30)

\* The table a walk is at, by its depth.
LEMMA WayOf ==
    ASSUME NEW ts, NEW r, NEW a, NEW d, NEW v, WayAt(ts, r, a, d, v)
    PROVE  /\ d = 4 => a = r
           /\ d = 3 => a = Table3(ts, r, v) /\ ts[r][v[1]].kind = "table"
           /\ d = 2 => /\ a = Table2(ts, r, v) /\ ts[r][v[1]].kind = "table"
                       /\ ts[Table3(ts, r, v)][v[2]].kind = "table"
           /\ d = 1 => a = Table1(ts, r, v) /\ Path(ts, r, v)
BY SMTT(30), Zenon DEF WayAt

LEMMA WayIs ==
    ASSUME NEW ts, NEW r, NEW a, NEW v
    PROVE  /\ a = Table3(ts, r, v) /\ ts[r][v[1]].kind = "table" => WayAt(ts, r, a, 3, v)
           /\ a = Table2(ts, r, v) /\ ts[r][v[1]].kind = "table"
                /\ ts[Table3(ts, r, v)][v[2]].kind = "table" => WayAt(ts, r, a, 2, v)
           /\ a = Table1(ts, r, v) /\ Path(ts, r, v) => WayAt(ts, r, a, 1, v)
BY SMTT(30), Zenon DEF WayAt

\* One level down.
LEMMA WayDown ==
    ASSUME NEW ts, NEW r, NEW a, NEW d \in 1 .. 4, NEW v, NEW k, WayAt(ts, r, a, d, v), d > 1,
           ts[a][k].kind = "table",
           d = 4 => k = v[1], d = 3 => k = v[2], d = 2 => k = v[3]
    PROVE  WayAt(ts, r, ts[a][k].frame, d - 1, v)
PROOF
<1>1. CASE d = 4
    <2>1. a = r /\ k = v[1] /\ d - 1 = 3
        BY <1>1, WayOf
    <2>2. ts[a][k].frame = Table3(ts, r, v)
        BY <2>1, Zenon DEF Table3
    <2> QED
        BY <2>1, <2>2, WayIs, ZenonT(30)
<1>2. CASE d = 3
    <2>1. a = Table3(ts, r, v) /\ ts[r][v[1]].kind = "table" /\ k = v[2] /\ d - 1 = 2
        BY <1>2, WayOf
    <2>2. ts[a][k].frame = Table2(ts, r, v)
        BY <2>1, Zenon DEF Table2
    <2> QED
        BY <2>1, <2>2, WayIs, ZenonT(30)
<1>3. CASE d = 2
    <2>1. /\ a = Table2(ts, r, v) /\ ts[r][v[1]].kind = "table"
          /\ ts[Table3(ts, r, v)][v[2]].kind = "table" /\ k = v[3] /\ d - 1 = 1
        BY <1>3, WayOf
    <2>2. ts[a][k].frame = Table1(ts, r, v) /\ Path(ts, r, v)
        BY <2>1, Zenon DEF Table1, Path
    <2> QED
        BY <2>1, <2>2, WayIs, ZenonT(30)
<1> QED
    BY <1>1, <1>2, <1>3

\* next_table() down to a table that is there.
LEMMA DownStep ==
    ASSUME MInv, DownTable, UNCHANGED bootVars
    PROVE  MInv' /\ SpaceNext
PROOF
<1> DEFINE v == Split(job.v)
<1>1. /\ boot' = boot /\ tabs' = tabs /\ level' = level /\ job' = job /\ tlb' = tlb
      /\ heapEnd' = heapEnd /\ root' = root /\ Mapping /\ depth > 1
      /\ tabs[at][Here].kind = "table" /\ at' = tabs[at][Here].frame
      /\ depth' = depth - 1 /\ UNCHANGED vars
    BY DEF DownTable, root
<1>2. /\ OnWay(v) /\ Good(tabs, root, level) /\ v \in Page /\ Here \in Index
      /\ depth \in 1 .. 4 /\ at \in DOMAIN tabs /\ level[at] = depth
      /\ depth = 4 => Here = v[1]
      /\ depth = 3 => Here = v[2]
      /\ depth = 2 => Here = v[3]
    BY <1>1, WalkAt, ZenonT(30)
<1> HIDE DEF v
<1>3. at' \in DOMAIN tabs /\ level[at'] = depth'
    BY <1>1, <1>2 DEF Good, Shaped
<1>4. OnWay(v)'
    <2>0. v' = v
        BY <1>1, SMTT(30), Zenon DEF v
    <2>1. WayAt(tabs, root, tabs[at][Here].frame, depth - 1, v)
        BY <1>1, <1>2, WayDown DEF OnWay
    <2> QED
        BY <1>1, <2>0, <2>1, Zenon DEF OnWay
<1>5. IInv' /\ BootOK' /\ TablesHeld' /\ TlbFresh' /\ SpaceTrans' = SpaceTrans
    BY <1>1, ZenonT(30) DEF MInv, IInv, TypeOK, UsedCountExact, BitsExact, HintIsLowest, Frames, Free,
                Allocatable, vars, BootOK, bootVars, fw, TablesHeld, TlbFresh, Translate,
                SpaceTrans
<1>6. WalkInv'
    <2>1. WalkInv /\ state' = state /\ map' = map
        BY <1>1, Zenon DEF MInv, vars
    <2>2. depth' \in 1 .. 4 /\ at' \in DOMAIN tabs' /\ level'[at'] = depth'
        BY <1>1, <1>2, <1>3
    <2>3. OnWay(Split(job.v))'
        BY <1>4 DEF v
    <2> QED
        BY <1>1, <2>1, <2>2, <2>3, ZenonT(30) DEF WalkInv
<1>7. SpaceNext
    BY <1>1, <1>5, Zenon DEF SpaceNext, SpaceCall, vars
<1>8. QED
    BY <1>5, <1>6, <1>7, SMTT(30), Zenon DEF MInv

\* next_table() where the table has to be made first.
LEMMA AddStep ==
    ASSUME MInv, AddTable, UNCHANGED bootVars
    PROVE  MInv' /\ SpaceNext
PROOF
<1> DEFINE v == Split(job.v)
           f == NextFrame
<1>1. /\ boot' = boot /\ job' = job /\ tlb' = tlb /\ heapEnd' = heapEnd /\ root' = root
      /\ calls' = calls /\ Mapping /\ depth > 1 /\ tabs[at][Here].kind = "absent"
      /\ AllocPage /\ state = "up"
    BY Zenon DEF AddTable, root, Mapping
<1>2. IInv' /\ BootOK' /\ map' = map /\ held \subseteq held'
    <2>1. IInv'
        BY <1>1, AllocPageStep, ZenonT(30) DEF MInv
    <2>2. QED
        BY <1>1, <2>1, Zenon DEF MInv, BootOK, bootVars, fw, AllocPage
<1>3. CASE state' = "panic"
    <2>1. UNCHANGED walkVars
        BY <1>1, <1>3, Zenon DEF AddTable, walkVars
    <2>2. QED
        BY <1>1, <1>2, <1>3, <2>1, QuietStep, ZenonT(30) DEF MInv, WalkInv
<1>4. CASE state' # "panic"
    <2>1. /\ state' = "up" /\ Free # {} /\ held' = held \cup {f}
          /\ tabs' = Grow(SetEntry(tabs, at, Here, Link(f)), f, EmptyTable)
          /\ level' = Grow(level, f, depth - 1) /\ at' = f /\ depth' = depth - 1
        BY <1>1, <1>4, ZenonT(30) DEF AddTable, AllocPage
    <2>2. /\ OnWay(v) /\ Good(tabs, root, level) /\ v \in Page /\ Here \in Index
          /\ depth \in 1 .. 4 /\ at \in DOMAIN tabs /\ level[at] = depth
          /\ depth = 4 => Here = v[1]
          /\ depth = 3 => Here = v[2]
          /\ depth = 2 => Here = v[3]
        BY <1>1, WalkAt, ZenonT(30)
    <2>3. f \in Nat /\ f \notin DOMAIN tabs
        BY <1>1, <2>1, FreshFrame DEF MInv
    <2> HIDE DEF v, f
    <2>4. /\ Good(tabs', root, level') /\ DOMAIN tabs' = DOMAIN tabs \cup {f}
          /\ tabs'[at][Here] = Link(f)
          /\ \A x \in DOMAIN tabs : \A y \in Index :
                 x # at \/ y # Here => tabs'[x][y] = tabs[x][y]
          /\ \A u \in Page : Walk(tabs', root, u) = Walk(tabs, root, u)
        <3>1. level[at] > 1 /\ tabs[at][Here].kind = "absent"
            BY <1>1, <2>2, SMTT(30)
        <3>2. level' = Grow(level, f, level[at] - 1)
            BY <2>1, <2>2
        <3>3. /\ Good(tabs, root, level) /\ at \in DOMAIN tabs /\ Here \in Index
              /\ f \in Nat /\ f \notin DOMAIN tabs
              /\ tabs' = Grow(SetEntry(tabs, at, Here, Link(f)), f, EmptyTable)
            BY <2>1, <2>2, <2>3
        <3>4. Added(tabs, root, level, at, Here, f, tabs', level')
            BY <3>1, <3>2, <3>3, Zenon DEF Added
        <3>5. Good(tabs', root, level') /\ Kept(tabs, root, at, Here, f, tabs')
            BY ONLY <3>4, TableAdded, ZenonT(30)
        <3>6. QED
            BY <3>5, SMTT(30), Zenon DEF Kept
    <2>5. level'[at'] = depth' /\ depth' \in 1 .. 4 /\ at' \in DOMAIN tabs'
        <3>1. level'[f] = depth - 1
            BY <2>1 DEF Grow
        <3>2. depth - 1 \in 1 .. 4
            <4>1. depth \in 1 .. 4 /\ depth > 1
                BY <1>1, <2>2, Zenon
            <4> QED
                BY <4>1
        <3>3. QED
            BY <2>1, <2>4, <3>1, <3>2, ZenonT(30)
    <2>6. Link(f).kind = "table" /\ Link(f).frame = f
        BY DEF Link
    <2>7. v' = v /\ root' = root
        BY <1>1, SMTT(30), Zenon DEF v
    <2>8. v[1] \in Index /\ v[2] \in Index /\ v[3] \in Index
        BY <2>2 DEF Page
    <2>9. OnWay(v)'
        <3>0. WayAt(tabs, root, at, depth, v) /\ (depth = 4 => Here = v[1])
            BY <2>2, Zenon DEF OnWay
        <3>1. CASE depth = 4
            <4>1. tabs'[root][v[1]].kind = "table" /\ Table3(tabs', root, v) = f
                <5>1. at = root /\ Here = v[1]
                    BY <3>0, <3>1, WayOf
                <5> QED
                    BY <2>4, <2>6, <5>1, ZenonT(30) DEF Table3
            <4>2. depth' = 3 /\ at' = f
                BY <2>1, <3>1
            <4>3. QED
                BY <2>7, <4>1, <4>2, WayIs, Zenon DEF OnWay
        <3>2. CASE depth = 3
            <4>1. at = Table3(tabs, root, v) /\ at # root /\ tabs[root][v[1]].kind = "table"
                <5>1. at = Table3(tabs, root, v) /\ tabs[root][v[1]].kind = "table"
                    BY <3>0, <3>2, WayOf
                <5>2. level[at] = 3 /\ level[root] = 4
                    BY <2>2, <3>2, ZenonT(30) DEF Good
                <5> QED
                    BY <5>1, <5>2, SMTT(30)
            <4>2. tabs'[root][v[1]] = tabs[root][v[1]] /\ Table3(tabs', root, v) = at
                BY <2>2, <2>4, <2>8, <4>1 DEF Table3, Good
            <4>3. tabs'[at][v[2]].kind = "table" /\ Table2(tabs', root, v) = f
                BY <2>2, <2>4, <2>6, <3>2, <4>2, ZenonT(30) DEF Table2
            <4>4. QED
                <5>1. depth' = 2 /\ at' = f
                    BY <2>1, <3>2
                <5> QED
                    BY <2>7, <4>1, <4>2, <4>3, <5>1, WayIs, Zenon DEF OnWay
        <3>3. CASE depth = 2
            <4> DEFINE t3 == Table3(tabs, root, v)
            <4>1. at = Table2(tabs, root, v) /\ at # root /\ tabs[root][v[1]].kind = "table"
                  /\ tabs[t3][v[2]].kind = "table"
                <5>1. /\ at = Table2(tabs, root, v) /\ tabs[root][v[1]].kind = "table"
                      /\ tabs[t3][v[2]].kind = "table"
                    BY <3>0, <3>3, WayOf
                <5>2. level[at] = 2 /\ level[root] = 4
                    BY <2>2, <3>3, Zenon DEF Good
                <5> QED
                    BY <5>1, <5>2, SMTT(30), Zenon
            <4>2. t3 \in DOMAIN tabs /\ t3 # at
                <5>1. t3 \in DOMAIN tabs /\ level[t3] = 3
                    BY <2>2, <4>1, WayLevels, Zenon
                <5>2. level[at] = 2
                    BY <2>2, <3>3
                <5> QED
                    BY <5>1, <5>2
            <4>3. tabs'[root][v[1]] = tabs[root][v[1]] /\ Table3(tabs', root, v) = t3
                BY <2>2, <2>4, <2>8, <4>1 DEF Table3, Good
            <4>4. tabs'[t3][v[2]] = tabs[t3][v[2]]
                BY <2>4, <2>8, <4>2, ZenonT(30)
            <4>5. Table2(tabs', root, v) = at
                BY <4>1, <4>3, <4>4 DEF Table2
            <4>6. tabs'[at][v[3]].kind = "table" /\ Table1(tabs', root, v) = f
                <5>1. tabs'[at][v[3]] = Link(f)
                    BY <2>2, <2>4, <3>3
                <5> QED
                    BY <2>6, <4>5, <5>1, SMTT(30), Zenon DEF Table1
            <4>7. QED
                <5>1. depth' = 1 /\ at' = f
                    BY <2>1, <3>3
                <5>2. Path(tabs', root, v)
                    BY <4>1, <4>3, <4>4, <4>5, <4>6, Zenon DEF Path
                <5> QED
                    BY <2>7, <4>6, <5>1, <5>2, WayIs, Zenon DEF OnWay
        <3>4. depth = 4 \/ depth = 3 \/ depth = 2
            <4>1. depth \in 1 .. 4 /\ depth > 1
                BY <1>1, <2>2, Zenon
            <4> QED
                BY <4>1
        <3>5. QED
            BY <3>1, <3>2, <3>3, <3>4, Zenon
    <2>10. SpaceTrans' = SpaceTrans
        BY <2>4, <2>7 DEF SpaceTrans, Translate
    <2>11. TlbFresh'
        BY <1>1, <2>4, <2>7, ZenonT(30) DEF MInv, WalkInv, TlbFresh, Translate
    <2>12. TablesHeld'
        <3>1. ~boot.frames
            BY <1>1, NoCallNone, Zenon DEF MInv, TablesHeld, Mapping
        <3>2. QED
            BY <1>1, <2>1, <2>4, <3>1, ZenonT(30) DEF MInv, TablesHeld
    <2>13. WalkInv'
        BY <1>1, <1>2, <2>4, <2>5, <2>7, <2>9, ZenonT(30) DEF MInv, WalkInv, v
    <2>14. SpaceNext
        BY <1>1, <2>1, <2>10, Zenon DEF SpaceNext, SpaceCall
    <2>15. QED
        BY <1>2, <2>11, <2>12, <2>13, <2>14 DEF MInv
<1>5. QED
    BY <1>3, <1>4

\* What writing a leaf and invlpg do to the rest of the state.
LEMMA LeafEffect ==
    ASSUME MInv, NEW v, NEW e, Written(tabs, root, level, v, e, tabs'), tlb' = Invlpg(v),
           boot' = boot, UNCHANGED bootVars, UNCHANGED vars
    PROVE  /\ Good(tabs', root', level) /\ DOMAIN tabs' = DOMAIN tabs /\ TlbFresh'
           /\ DOMAIN tlb' \subseteq Page
           /\ IInv' /\ BootOK'
           /\ SpaceTrans' = [SpaceTrans EXCEPT ![v] =
                  IF e.kind = "page" THEN Small(e.frame, e.flags) ELSE Nowhere]
PROOF
<1>1. Good(tabs', root, level) /\ OnlyPage(tabs, root, v, e, tabs')
    BY LeafWritten, Zenon
<1>2. root' = root /\ v \in Page
    BY DEF root, Written
<1>3. DOMAIN tabs' = DOMAIN tabs
    BY <1>1 DEF OnlyPage
<1>4. /\ Translate(v)' = IF e.kind = "page" THEN Small(e.frame, e.flags) ELSE Nowhere
      /\ \A u \in Page : u # v => Translate(u)' = Translate(u)
    BY <1>1, <1>2 DEF OnlyPage, Translate
<1>5. DOMAIN tlb' = DOMAIN tlb \ {v} /\ \A u \in DOMAIN tlb' : tlb'[u] = tlb[u]
    BY DEF Invlpg
<1>6. DOMAIN tlb \subseteq Page /\ \A u \in DOMAIN tlb : tlb[u] = Translate(u)
    BY ZenonT(30) DEF MInv, WalkInv, TlbFresh
<1>7. TlbFresh'
    <2>1. SUFFICES ASSUME NEW u \in DOMAIN tlb' PROVE tlb'[u] = Translate(u)'
        BY DEF TlbFresh
    <2>2. QED
        BY <1>4, <1>5, <1>6, Zenon
<1>8. SpaceTrans' = [SpaceTrans EXCEPT ![v] =
          IF e.kind = "page" THEN Small(e.frame, e.flags) ELSE Nowhere]
    BY <1>2, <1>4, ZenonT(30) DEF SpaceTrans
<1>9. IInv' /\ BootOK'
    BY DEF MInv, IInv, TypeOK, UsedCountExact, BitsExact, HintIsLowest, Frames, Free,
           Allocatable, vars, BootOK, bootVars, fw
<1>10. QED
    BY <1>1, <1>2, <1>3, <1>5, <1>6, <1>7, <1>8, <1>9, ZenonT(30)

\* vmm_map() writes the leaf of its page and goes on to the next.
LEMMA WriteStep ==
    ASSUME MInv, WriteLeaf, UNCHANGED bootVars
    PROVE  MInv' /\ SpaceNext
PROOF
<1> DEFINE v == Split(job.v)
           e == Leaf(job.p, job.flags)
<1>1. /\ boot' = boot /\ level' = level /\ heapEnd' = heapEnd /\ root' = root /\ UNCHANGED vars
      /\ Mapping /\ depth = 1 /\ tabs' = SetEntry(tabs, at, Here, e) /\ tlb' = Invlpg(v)
      /\ job' = [job EXCEPT !.v = @ + 1, !.p = @ + 1] /\ at' = root /\ depth' = 4
      /\ state = "up" /\ job.op = "map" /\ job.v < job.end
    BY DEF WriteLeaf, root, Mapping
<1>2. /\ job \in Calls /\ v \in Page /\ OnWay(v) /\ Good(tabs, root, level)
      /\ at \in DOMAIN tabs /\ Here = v[4]
    BY <1>1, WalkAt
<1>3. e \in Entry /\ e.kind = "page" /\ e.frame = job.p /\ e.flags = job.flags
    BY <1>2 DEF Leaf, Entry, Calls
<1> HIDE DEF v, e
<1>4. Written(tabs, root, level, v, e, tabs')
    <2>1. at = Table1(tabs, root, v) /\ Path(tabs, root, v)
        BY <1>1, <1>2, WayOf DEF OnWay
    <2> QED
        BY <1>1, <1>2, <1>3, <2>1, Zenon DEF Written
<1>5. /\ Good(tabs', root', level) /\ DOMAIN tabs' = DOMAIN tabs /\ TlbFresh'
      /\ DOMAIN tlb' \subseteq Page /\ IInv' /\ BootOK'
      /\ SpaceTrans' = [SpaceTrans EXCEPT ![v] = Small(job.p, job.flags)]
    BY <1>1, <1>3, <1>4, LeafEffect
<1>6. job' \in Calls
    <2>1. job' = [op |-> job.op, v |-> job.v + 1, end |-> job.end, p |-> job.p + 1,
                  flags |-> job.flags]
        BY <1>1, <1>2, Zenon DEF Calls
    <2>2. QED
        BY <1>2, <2>1 DEF Calls
<1>7. WalkInv'
    <2>1. root \in DOMAIN tabs /\ level[root] = 4
        BY <1>2 DEF Good
    <2>2. QED
        BY <1>1, <1>5, <1>6, <2>1 DEF MInv, WalkInv, OnWay, WayAt, vars
<1>8. TablesHeld'
    BY <1>1, <1>5, NoCallNone, Zenon DEF MInv, TablesHeld, vars
<1>9. ~SpaceTrans[v].large
    <2>1. Walk(tabs, root, v).large = FALSE
        <3>1. Path(tabs, root, v)
            BY <1>4, SMTT(30), Zenon DEF Written
        <3>2. Walk(tabs, root, v) \in {Nowhere, Small(tabs[at][v[4]].frame, tabs[at][v[4]].flags)}
            <4>1. at = Table1(tabs, root, v)
                BY <1>1, <1>2, WayOf DEF OnWay
            <4> QED
                BY <3>1, <4>1 DEF Walk, Path
        <3>3. QED
            BY <3>2 DEF Nowhere, Small
    <2>2. QED
        BY <1>2, <2>1, SMTT(30) DEF SpaceTrans, Translate
<1>10. SpaceNext
    <2>1. SpaceCall = job /\ SpaceCall' = job'
        BY <1>1 DEF SpaceCall, vars
    <2>2. Space!MapPage
        BY <1>1, <1>5, <1>9, <2>1, SameNames, Zenon DEF Space!MapPage, SpaceTrans, SpaceCall, v
    <2>3. QED
        BY <2>2 DEF SpaceNext, Space!Next
<1>11. QED
    BY <1>5, <1>7, <1>8, <1>10, Zenon DEF MInv

\* vmm_unmap() clears the leaf of its page, if there is one, and goes on to the next.
LEMMA UnmapStep ==
    ASSUME MInv, UnmapPage, UNCHANGED bootVars
    PROVE  MInv' /\ SpaceNext
PROOF
<1> DEFINE v == Split(job.v)
<1>1. /\ boot' = boot /\ level' = level /\ heapEnd' = heapEnd /\ root' = root /\ UNCHANGED vars
      /\ at' = at /\ depth' = depth /\ job' = [job EXCEPT !.v = @ + 1]
      /\ state = "up" /\ job.op = "unmap" /\ job.v < job.end
    BY DEF UnmapPage, root
<1>2. job \in Calls /\ v \in Page /\ Good(tabs, root, level)
    <2>1. job \in Calls
        BY <1>1, NoCallNone, Zenon DEF MInv, WalkInv
    <2>2. job.v \in Nat
        BY <2>1 DEF Calls
    <2>3. QED
        BY <2>1, <2>2, SplitPage DEF MInv, WalkInv
<1>3. job' \in Calls /\ job'.op = "unmap"
    <2>1. job' = [op |-> job.op, v |-> job.v + 1, end |-> job.end, p |-> job.p,
                  flags |-> job.flags]
        BY <1>1, <1>2 DEF Calls
    <2>2. QED
        BY <1>1, <1>2, <2>1 DEF Calls
<1>4. SpaceCall = job /\ SpaceCall' = job'
    BY <1>1, SMTT(30) DEF SpaceCall, vars
<1>5. CASE Path(tabs, root, v)
    <2>1. tabs' = SetEntry(tabs, Table1(tabs, root, v), v[4], Absent) /\ tlb' = Invlpg(v)
        BY <1>5 DEF UnmapPage, Path
    <2>2. Absent \in Entry /\ Absent.kind = "absent"
        BY DEF Absent, Entry
    <2> HIDE DEF v
    <2>3. Written(tabs, root, level, v, Absent, tabs')
        BY <1>2, <1>5, <2>1, <2>2 DEF Written
    <2>4. /\ Good(tabs', root', level) /\ DOMAIN tabs' = DOMAIN tabs /\ TlbFresh'
          /\ DOMAIN tlb' \subseteq Page /\ IInv' /\ BootOK'
          /\ SpaceTrans' = [SpaceTrans EXCEPT ![v] = Nowhere]
        BY <1>1, <2>1, <2>2, <2>3, LeafEffect
    <2>5. WalkInv' /\ TablesHeld'
        BY <1>1, <1>3, <2>4, NoCallNone, SMTT(30) DEF MInv, WalkInv, TablesHeld, vars
    <2>6. SpaceTrans[v] = Walk(tabs, root, v) /\ ~Walk(tabs, root, v).large
        <3>1. Walk(tabs, root, v) \in {Nowhere, Small(tabs[Table1(tabs, root, v)][v[4]].frame,
                                                    tabs[Table1(tabs, root, v)][v[4]].flags)}
            BY <1>5, Zenon DEF Walk, Path
        <3>2. ~Walk(tabs, root, v).large
            BY <3>1, SMTT(30) DEF Nowhere, Small
        <3>3. SpaceTrans[v] = Walk(tabs, root, v)
            BY <1>2, SMTT(30) DEF SpaceTrans, Translate
        <3>4. QED
            BY <3>2, <3>3, Zenon
    <2>7. Space!UnmapPage
        BY <1>1, <1>4, <2>4, <2>6, SameNames, Zenon DEF Space!UnmapPage, SpaceTrans, SpaceCall, v
    <2>8. QED
        BY <2>4, <2>5, <2>7 DEF MInv, SpaceNext, Space!Next
<1>6. CASE ~Path(tabs, root, v)
    <2>1. tabs' = tabs /\ tlb' = tlb
        BY <1>6 DEF UnmapPage, Path
    <2>2. IInv' /\ BootOK' /\ TlbFresh' /\ SpaceTrans' = SpaceTrans
        BY <1>1, <2>1, SMTT(30) DEF MInv, IInv, TypeOK, UsedCountExact, BitsExact, HintIsLowest, Frames,
                    Free, Allocatable, vars, BootOK, bootVars, fw, TlbFresh, Translate, SpaceTrans
    <2>3. WalkInv' /\ TablesHeld'
        BY <1>1, <1>3, <2>1, NoCallNone, SMTT(30) DEF MInv, WalkInv, TablesHeld, vars
    <2>4. SpaceTrans[v].large \/ SpaceTrans[v] = Nowhere
        <3>1. Walk(tabs, root, v) = Nowhere \/ Walk(tabs, root, v).large
            BY <1>6, Zenon DEF Walk, Path, Large
        <3>2. QED
            BY <1>2, <3>1 DEF SpaceTrans, Translate
    <2> HIDE DEF v
    <2>5. SpaceTrans = [SpaceTrans EXCEPT ![v] = IF @.large THEN @ ELSE Nowhere]
        BY <2>4 DEF SpaceTrans
    <2>6. Space!UnmapPage
        BY <1>1, <1>4, <2>2, <2>5, SameNames, Zenon DEF Space!UnmapPage, SpaceTrans, SpaceCall, v
    <2>7. QED
        BY <2>2, <2>3, <2>6 DEF MInv, SpaceNext, Space!Next
<1>7. QED
    BY <1>5, <1>6

\* The end of a call.
LEMMA ReturnStep ==
    ASSUME MInv, MapReturn, UNCHANGED bootVars
    PROVE  MInv' /\ SpaceNext
PROOF
<1>1. /\ boot' = boot /\ tabs' = tabs /\ level' = level /\ at' = at /\ depth' = depth
      /\ tlb' = tlb /\ heapEnd' = heapEnd /\ root' = root /\ UNCHANGED vars
      /\ state = "up" /\ job # NoCall /\ job.v >= job.end /\ job' = NoCall
    BY DEF MapReturn, root
<1>2. IInv' /\ BootOK' /\ TlbFresh' /\ SpaceTrans' = SpaceTrans /\ TablesHeld'
    BY <1>1, Zenon DEF MInv, IInv, TypeOK, UsedCountExact, BitsExact, HintIsLowest, Frames, Free,
                Allocatable, vars, BootOK, bootVars, fw, TlbFresh, Translate, SpaceTrans,
                TablesHeld
<1>3. WalkInv'
    BY <1>1, Zenon DEF MInv, WalkInv, vars, NoCall
<1>4. Space!Return
    BY <1>1, <1>2, SameNames DEF Space!Return, SpaceTrans, vars
<1>5. QED
    BY <1>2, <1>3, <1>4 DEF MInv, SpaceNext, Space!Next

\* The CPU caches a translation the tables have.
LEMMA FillStep ==
    ASSUME MInv, NEW v \in Cached, TlbFill(v), UNCHANGED bootVars
    PROVE  MInv' /\ SpaceNext
PROOF
<1>1. /\ boot' = boot /\ tabs' = tabs /\ level' = level /\ at' = at /\ depth' = depth
      /\ job' = job /\ heapEnd' = heapEnd /\ root' = root /\ UNCHANGED vars
      /\ tlb' = Grow(tlb, v, Translate(v)) /\ v \in Page
    BY VmmAssumption, Zenon DEF TlbFill, root
<1>2. IInv' /\ BootOK' /\ SpaceTrans' = SpaceTrans /\ TablesHeld' /\ SpaceCall' = SpaceCall
    BY <1>1, Zenon DEF MInv, IInv, TypeOK, UsedCountExact, BitsExact, HintIsLowest, Frames, Free,
                Allocatable, vars, BootOK, bootVars, fw, Translate, SpaceTrans, TablesHeld,
                SpaceCall
<1>3. DOMAIN tlb' = DOMAIN tlb \cup {v}
      /\ \A u \in DOMAIN tlb' : tlb'[u] = IF u = v THEN Translate(v) ELSE tlb[u]
    BY <1>1 DEF Grow
<1>4. TlbFresh'
    <2>1. \A u : Translate(u)' = Translate(u)
        BY <1>1 DEF Translate
    <2>2. QED
        BY <1>3, <2>1 DEF MInv, TlbFresh
<1>5. WalkInv'
    BY <1>1, <1>3, Zenon DEF MInv, WalkInv, OnWay, vars
<1>6. QED
    BY <1>2, <1>4, <1>5 DEF MInv, SpaceNext

\* The I/O APIC that parse_madt() keeps is one of the table's.
LEMMA GreatestProp ==
    ASSUME NEW n \in Nat, NEW S \in SUBSET (1 .. n), S # {}
    PROVE  (CHOOSE k \in S : \A m \in S : m <= k) \in S
PROOF
<1> DEFINE T == {n - k : k \in S}
<1>1. T \in SUBSET Nat /\ T # {}
    <2>1. PICK s \in S : TRUE
        BY Zenon
    <2>2. n - s \in T
        BY <2>1
    <2>3. \A k \in S : n - k \in Nat
        OBVIOUS
    <2>4. QED
        BY <2>2, <2>3
<1>2. Least(T) \in T /\ \A y \in T : Least(T) <= y
    <2> HIDE DEF T
    <2>1. QED
        BY <1>1, LeastProp
<1>3. PICK g \in S : Least(T) = n - g
    BY <1>2, Zenon
<1>4. \A m \in S : m <= g
    <2>1. SUFFICES ASSUME NEW m \in S PROVE m <= g
        OBVIOUS
    <2>2. n - m \in T
        OBVIOUS
    <2>3. n - g <= n - m
        BY <1>2, <1>3, <2>2, ZenonT(30)
    <2>4. QED
        BY <2>3
<1>5. QED
    BY <1>4, Zenon

LEMMA ParsedOK ==
    ASSUME MInv, NEW t \in Tables
    PROVE  /\ Parsed(t).lapic = t.lapic
           /\ \/ Parsed(t).ioapic = acpi.ioapic
              \/ \E k \in DOMAIN t.entries : Parsed(t).ioapic = t.entries[k].addr
           /\ Parsed(t).lapic \in Nat /\ Parsed(t).ioapic \in Nat
PROOF
<1> DEFINE es == t.entries
           live == {k \in DOMAIN es : \A m \in 1 .. k : es[m].length # 0}
           ios == {k \in live : es[k].type = 1}
           last == CHOOSE k \in ios : \A m \in ios : m <= k
<1>1. es \in Seq(MadtEntries) /\ t.lapic \in Nat
    BY DEF Tables
<1>2. Parsed(t).lapic = t.lapic
      /\ Parsed(t).ioapic = IF ios = {} THEN acpi.ioapic ELSE es[last].addr
    BY ZenonT(30) DEF Parsed
<1>3. CASE ios = {}
    BY <1>1, <1>2, <1>3, SMTT(30), Zenon DEF MInv, BootOK
<1>4. CASE ios # {}
    <2>1. Len(es) \in Nat /\ ios \in SUBSET (1 .. Len(es))
        BY <1>1
    <2>2. last \in ios
        <3> HIDE DEF ios
        <3>1. QED
            BY <1>4, <2>1, GreatestProp, Zenon
    <2>3. last \in DOMAIN es
        BY <2>2
    <2> HIDE DEF last
    <2>4. es[last] \in MadtEntries
        BY <1>1, <2>3
    <2>5. es[last].addr \in Nat
        BY <2>4 DEF MadtEntries
    <2>6. QED
        BY <1>1, <1>2, <1>4, <2>3, <2>5
<1>5. QED
    BY <1>3, <1>4

\* The firmware's tables are typed.
LEMMA FirmwareOK ==
    ASSUME MInv
    PROVE  /\ fw.rsdp \in Nat /\ fw.root \in Nat /\ fw.length \in Nat
           /\ pc \in {"header", "table"} => Table \in Tables
           /\ idx <= EntryCount => idx \in DOMAIN fw.tables
PROOF
<1>1. fw \in Firmware /\ EntryCount <= Len(fw.tables) /\ EntrySize[fw.revision] \in Nat \ {0}
    BY BootAssumption DEF MInv, WalkInv, fw, EntryCount
<1>2. fw.rsdp \in Nat /\ fw.root \in Nat /\ fw.length \in Nat /\ fw.tables \in Seq(Tables)
    BY <1>1 DEF Firmware
<1>3. EntryCount \in Int
    BY <1>1, <1>2, BootAssumption, SMTT(30) DEF EntryCount
<1>4. idx <= EntryCount => idx \in DOMAIN fw.tables
    BY <1>1, <1>2, <1>3 DEF MInv, BootOK
<1>5. idx \in DOMAIN fw.tables => Table \in Tables
    BY <1>2 DEF Table
<1>6. QED
    BY <1>2, <1>4, <1>5, SMTT(30), Zenon DEF MInv, BootOK

\* mmio_map() of a range in the direct map.
LEMMA MapPhysStep ==
    ASSUME MInv, NEW phys \in Nat, NEW span \in Nat, MapPhys(phys, span), BootOK'
    PROVE  MInv' /\ SpaceNext
PROOF
<1>1. /\ Start("map", Hhdm + phys, phys, span, {"W", "PCD"}) /\ UNCHANGED <<vars, heapEnd>>
      /\ Hhdm + phys \in Nat /\ {"W", "PCD"} \in SUBSET Flag
    BY BootAssumption DEF MapPhys, MmioMap, VmmMap, Flag
<1>2. IInv' /\ map' = map /\ state' = "up" /\ held \subseteq held' /\ heapEnd' \in Nat
    BY <1>1, Zenon DEF MInv, WalkInv, IInv, TypeOK, UsedCountExact, BitsExact, HintIsLowest, Frames,
                Free, Allocatable, vars, Start, Idle
<1>3. QED
    BY <1>1, <1>2, BeginStep

\* vmm_unmap() begins.
LEMMA UnmapBegins ==
    ASSUME MInv, NEW virt \in Nat, NEW size \in Nat, VmmUnmap(virt, size), BootOK'
    PROVE  MInv' /\ SpaceNext
PROOF
<1>1. /\ Start("unmap", virt, 0, size, {}) /\ UNCHANGED <<vars, heapEnd>>
      /\ {} \in SUBSET Flag
    BY DEF VmmUnmap
<1>2. IInv' /\ map' = map /\ state' = "up" /\ held \subseteq held' /\ heapEnd' \in Nat
    BY <1>1, Zenon DEF MInv, WalkInv, IInv, TypeOK, UsedCountExact, BitsExact, HintIsLowest, Frames,
                Free, Allocatable, vars, Start, Idle
<1>3. QED
    BY <1>1, <1>2, BeginStep

\* A frame taken and mapped at once.
LEMMA FreshStep ==
    ASSUME MInv, NEW v \in Nat, NEW flags \in SUBSET Flag, MapFresh(v, flags),
           heapEnd' \in Nat, state' = "panic" => heapEnd' = heapEnd, BootOK'
    PROVE  MInv' /\ SpaceNext
PROOF
<1>1. Idle /\ AllocPage /\ state = "up"
    BY DEF MapFresh, Idle
<1>2. IInv' /\ map' = map /\ held \subseteq held' /\ state' \in {"up", "panic"}
    <2>1. IInv'
        BY <1>1, AllocPageStep DEF MInv
    <2>2. QED
        BY <1>1, <2>1 DEF AllocPage
<1>3. CASE state' = "panic"
    <2>1. UNCHANGED walkVars
        BY <1>3 DEF MapFresh, walkVars
    <2>2. QED
        BY <1>1, <1>2, <1>3, <2>1, QuietStep, ZenonT(30) DEF MInv, WalkInv
<1>4. CASE state' # "panic"
    <2>1. Free # {}
        BY <1>1, <1>4 DEF AllocPage
    <2>2. NextFrame \in Nat
        BY <1>1, <2>1, FreshFrame DEF MInv
    <2>3. Start("map", v * PageSize, NextFrame * PageSize, PageSize, flags)
        BY <1>4, SMTT(30) DEF MapFresh
    <2>4. v * PageSize \in Nat /\ NextFrame * PageSize \in Nat /\ PageSize \in Nat
        BY <2>2, PmmAssumption
    <2>5. QED
        BY <1>2, <1>4, <2>3, <2>4, BeginStep
<1>5. QED
    BY <1>3, <1>4

\* Every step keeps the invariant and is a step of AddressSpace or leaves it alone.
LEMMA MemoryStep ==
    ASSUME MInv, MemoryNext
    PROVE  MInv' /\ SpaceNext
PROOF
<1>1. CASE StartMemory /\ UNCHANGED bootVars
    <2>1. boot \in Boots /\ boot.map \in Maps /\ PmmInit(boot.map) /\ UNCHANGED walkVars
        BY <1>1, VmmAssumption, Zenon DEF StartMemory, MInv, WalkInv
    <2>2. IInv'
        BY <2>1, BootStep DEF MInv
    <2>3. /\ map' = boot.map /\ held' = held /\ state = "off"
          /\ (state' = "panic" \/ state' = "up")
        BY <2>1 DEF PmmInit
    <2>4. BootOK'
        BY <1>1, <2>1, Zenon DEF MInv, BootOK, bootVars, walkVars, fw
    <2>5. QED
        BY <2>1, <2>2, <2>3, <2>4, QuietStep
<1>2. CASE MapStep /\ UNCHANGED bootVars
    <2>1. CASE HugePanic
        <3>1. UNCHANGED walkVars /\ state = "up" /\ state' = "panic" /\ map' = map /\ held' = held
            BY <2>1, SMTT(30), Zenon DEF HugePanic, Mapping
        <3>2. IInv' /\ BootOK'
            BY <1>2, <2>1, <3>1 DEF HugePanic, MInv, IInv, TypeOK, UsedCountExact, BitsExact,
                         HintIsLowest, Frames, BootOK, bootVars, walkVars, fw
        <3>3. QED
            BY <3>1, <3>2, QuietStep, ZenonT(30) DEF MInv, WalkInv
    <2>2. QED
        BY <1>2, <2>1, AddStep, DownStep, WriteStep, UnmapStep, ReturnStep DEF MapStep
<1>3. CASE (\E v \in Cached : TlbFill(v)) /\ UNCHANGED bootVars
    BY <1>3, FillStep
<1>4. CASE AcpiStep
    <2>1. CASE NoRsdp \/ ReadTable \/ NoMadt
        <3>1. UNCHANGED <<vars, walkVars>> /\ state = "up"
            BY <2>1 DEF NoRsdp, ReadTable, NoMadt, At
        <3>2. IInv' /\ UNCHANGED walkVars /\ map' = map /\ held' = held /\ state' = state
            BY <3>1, Zenon DEF MInv, IInv, TypeOK, UsedCountExact, BitsExact, HintIsLowest, Frames,
                        Free, Allocatable, vars, walkVars
        <3>3. fw' = fw
            BY <3>1 DEF walkVars, fw
        <3>4. BootOK'
            <4>1. CASE ReadTable
                <5>1. Table \in Tables
                    BY <4>1, FirmwareOK, SMTT(30), Zenon DEF ReadTable, At
                <5>2. Parsed(Table).lapic \in Nat /\ Parsed(Table).ioapic \in Nat
                    BY <5>1, ParsedOK
                <5>3. QED
                    BY <3>3, <4>1, <5>2, SMTT(30) DEF ReadTable, MInv, BootOK
            <4>2. CASE NoRsdp \/ NoMadt
                BY <3>3, <4>2 DEF NoRsdp, NoMadt, GoTo, MInv, BootOK
            <4>3. QED
                BY <2>1, <4>1, <4>2, SMTT(30)
        <3>5. QED
            BY <3>1, <3>2, <3>4, QuietStep, ZenonT(30) DEF MInv, WalkInv
    <2>2. CASE MapRsdp \/ MapRootHeader \/ MapRoot \/ MapHeader \/ MapTable
        <3>1. /\ fw.rsdp \in Nat /\ fw.root \in Nat /\ fw.length \in Nat
              /\ RsdpSize \in Nat /\ HeaderSize \in Nat
              /\ pc \in {"header", "table"} => Table \in Tables
              /\ idx <= EntryCount => idx \in DOMAIN fw.tables
            BY FirmwareOK, BootAssumption
        <3>2. PICK phys \in Nat, span \in Nat : MapPhys(phys, span)
            <4>1. CASE MapRsdp
                BY <3>1, <4>1 DEF MapRsdp
            <4>2. CASE MapRootHeader \/ MapRoot
                BY <3>1, <4>2 DEF MapRootHeader, MapRoot
            <4>3. CASE MapHeader
                <5>1. Table \in Tables /\ MapPhys(Table.phys, HeaderSize)
                    <6>1. idx \in DOMAIN fw.tables /\ fw.tables \in Seq(Tables)
                        BY <3>1, <4>3, BootAssumption, Zenon DEF MapHeader, MInv, WalkInv, fw, Firmware
                    <6>2. QED
                        BY <4>3, <6>1 DEF MapHeader, Table
                <5>2. QED
                    BY <3>1, <5>1 DEF Tables
            <4>4. CASE MapTable
                <5>1. Table \in Tables /\ MapPhys(Table.phys, Table.length)
                    BY <3>1, <4>4, SMTT(30) DEF MapTable, At
                <5>2. QED
                    BY <5>1 DEF Tables
            <4>5. QED
                BY <2>2, <4>1, <4>2, <4>3, <4>4
        <3>3. fw' = fw
            BY <3>2, SMTT(30), Zenon DEF MapPhys, MmioMap, VmmMap, Start, fw
        <3>4. BootOK'
            BY <2>2, <3>1, <3>3, SMTT(30), Zenon DEF MapRsdp, MapRootHeader, MapRoot, MapHeader, MapTable, At,
                                    GoTo, MInv, BootOK
        <3>5. QED
            BY <3>2, <3>4, MapPhysStep, SMTT(30)
    <2>3. QED
        BY <1>4, <2>1, <2>2 DEF AcpiStep
<1>5. CASE LapicInit \/ IoapicInit \/ \E d \in Devices : MapDevice(d)
    <2>1. PICK phys \in Nat, span \in Nat : MapPhys(phys, span)
        BY <1>5, PmmAssumption, BootAssumption
           DEF LapicInit, IoapicInit, MapDevice, MInv, BootOK
    <2>2. fw' = fw
        BY <2>1 DEF MapPhys, MmioMap, VmmMap, Start, fw
    <2>3. BootOK'
        BY <1>5, <2>2, Zenon DEF LapicInit, IoapicInit, MapDevice, GoTo, bootVars, MInv, BootOK
    <2>4. QED
        BY <2>1, <2>3, MapPhysStep
<1>6. CASE HeapGrow \/ \E u \in UserPages : UserPage(u)
    <2>1. PICK v \in Nat, flags \in SUBSET Flag :
              /\ MapFresh(v, flags) /\ UNCHANGED bootVars /\ heapEnd' \in Nat
              /\ state' = "panic" => heapEnd' = heapEnd
        <3>0. heapEnd \in Nat /\ {"W"} \in SUBSET Flag
            BY DEF MInv, WalkInv, Flag
        <3>1. CASE HeapGrow
            <4>1. MapFresh(heapEnd, {"W"}) /\ UNCHANGED bootVars
                BY <3>1, Zenon DEF HeapGrow, GrowPage
            <4>2. heapEnd' \in Nat /\ (state' = "panic" => heapEnd' = heapEnd)
                BY <3>0, <3>1 DEF HeapGrow, GrowPage
            <4>3. QED
                BY <3>0, <4>1, <4>2, Zenon
        <3>2. ASSUME NEW u \in UserPages, UserPage(u)
              PROVE  \E v \in Nat, flags \in SUBSET Flag :
                         /\ MapFresh(v, flags) /\ UNCHANGED bootVars /\ heapEnd' \in Nat
                         /\ state' = "panic" => heapEnd' = heapEnd
            <4>1. u.page \in Nat /\ u.flags \in SUBSET Flag
                BY BootAssumption
            <4>2. MapFresh(u.page, u.flags) /\ UNCHANGED <<heapEnd, bootVars>>
                BY <3>2, ZenonT(30) DEF UserPage
            <4>3. QED
                BY <3>0, <4>1, <4>2, ZenonT(30)
        <3>3. QED
            BY <1>6, <3>1, <3>2, ZenonT(30)
    <2>2. boot' = boot
        BY <2>1, SMTT(30) DEF MapFresh, Start
    <2>3. BootOK'
        BY <2>1, <2>2 DEF bootVars, MInv, BootOK, fw
    <2>4. QED
        BY <2>1, <2>3, FreshStep
<1>7. CASE \E u \in Unmaps : Unmap(u)
    <2>1. PICK virt \in Nat, size \in Nat : VmmUnmap(virt, size) /\ UNCHANGED bootVars
        BY <1>7, BootAssumption, ZenonT(30) DEF Unmap
    <2>2. boot' = boot
        BY <2>1 DEF VmmUnmap, Start
    <2>3. BootOK'
        BY <2>1, <2>2, Zenon DEF bootVars, MInv, BootOK, fw
    <2>4. QED
        BY <2>1, <2>3, UnmapBegins
<1>8. CASE DriverPages
    <2>1. UNCHANGED walkVars /\ UNCHANGED bootVars /\ state = "up"
        BY <1>8 DEF DriverPages, At
    <2>2. IInv'
        BY <1>8, AllocPageStep, AllocContigStep, FreePageStep, SMTT(30), Zenon DEF DriverPages, MInv
    <2>3. /\ map' = map /\ (state' = state \/ state' = "panic")
          /\ (held \subseteq held' \/ boot.frames)
        BY <1>8, SMTT(30), Zenon DEF DriverPages, AllocPage, AllocContig, FreePage
    <2>4. BootOK'
        BY <2>1 DEF MInv, BootOK, bootVars, walkVars, fw
    <2>5. QED
        BY <2>1, <2>2, <2>3, <2>4, QuietStep, ZenonT(30) DEF MInv, WalkInv
<1>9. QED
    BY <1>1, <1>2, <1>3, <1>4, <1>5, <1>6, <1>7, <1>8, SMTT(30) DEF MemoryNext

\* The invariant holds initially.
LEMMA MemoryStarts == ASSUME BootInit PROVE MInv
PROOF
<1>1. IInv
    BY DEF BootInit, VmmInit, Init, IInv, TypeOK, Frames, UsedCountExact, BitsExact, HintIsLowest
<1>2. boot \in Boots /\ tabs = boot.tabs /\ level = boot.level
      /\ job = NoCall /\ at = root /\ depth = 4 /\ DOMAIN tlb = {} /\ heapEnd = HeapBase
      /\ state = "off"
    BY DEF BootInit, VmmInit, Init
<1>3. Good(tabs, root, level)
    BY <1>2, VmmAssumption, Zenon DEF Good, root
<1>4. WalkInv
    BY <1>2, <1>3, VmmAssumption, Zenon DEF WalkInv, NoCall, Good
<1>5. TablesHeld /\ TlbFresh
    BY <1>2, SMTT(30) DEF TablesHeld, TlbFresh
<1>6. BootOK
    BY BootAssumption DEF BootInit, BootOK
<1>7. QED
    BY <1>1, <1>4, <1>5, <1>6, SMTT(30) DEF MInv

-----------------------------------------------------------------------------
memoryVars == <<vars, walkVars, bootVars>>

\* Steps that change nothing keep the invariant.
LEMMA MemoryStutter ==
    ASSUME MInv, UNCHANGED memoryVars
    PROVE  MInv' /\ UNCHANGED <<SpaceTrans, SpaceCall>>
PROOF
<1>1. UNCHANGED vars /\ UNCHANGED walkVars /\ UNCHANGED bootVars
    BY SMTT(30), Zenon DEF memoryVars
<1>2. IInv'
    BY <1>1 DEF MInv, IInv, TypeOK, UsedCountExact, BitsExact, HintIsLowest, Frames, Free,
                Allocatable, vars
<1>3. WalkInv' /\ TablesHeld' /\ TlbFresh' /\ BootOK'
    BY <1>1, ZenonT(30) DEF MInv, WalkInv, OnWay, TablesHeld, TlbFresh, Translate, root, BootOK, fw, vars,
                walkVars, bootVars
<1>4. SpaceTrans' = SpaceTrans /\ SpaceCall' = SpaceCall
    BY <1>1 DEF SpaceTrans, SpaceCall, Translate, root, vars, walkVars
<1>5. QED
    BY <1>2, <1>3, <1>4 DEF MInv

\* Whatever the memory map, the bootloader's tables and the calls of acpi_init(), the
\* drivers and the heap: the bitmap of frames is exact, and the hint right, while the page
\* tables take frames from it.
THEOREM MemorySafety == MemorySpec => []FramesExact
PROOF
<1>1. MInv /\ [MemoryNext]_memoryVars => MInv'
    BY MemoryStep, MemoryStutter
<1>2. MInv => FramesExact
    BY DEF MInv, IInv, FramesExact
<1>3. QED
    BY <1>1, <1>2, MemoryStarts, PTL DEF MemorySpec, memoryVars

\* used_pages counts the frames in use while the page tables take frames.
THEOREM MemoryCount == MemorySpec => []UsedCountExact
PROOF
<1>1. MInv /\ [MemoryNext]_memoryVars => MInv'
    BY MemoryStep, MemoryStutter
<1>2. MInv => UsedCountExact
    BY DEF MInv, IInv
<1>3. QED
    BY <1>1, <1>2, MemoryStarts, PTL DEF MemorySpec, memoryVars

\* The TLB never holds a translation the tables no longer have: every leaf vmm_map() or
\* vmm_unmap() changes is followed by invlpg of its page, and a table added changes none.
THEOREM TlbSafety == MemorySpec => []TlbFresh
PROOF
<1>1. MInv /\ [MemoryNext]_memoryVars => MInv'
    BY MemoryStep, MemoryStutter
<1>2. MInv => TlbFresh
    BY DEF MInv
<1>3. QED
    BY <1>1, <1>2, MemoryStarts, PTL DEF MemorySpec, memoryVars

\* vmm_map() and vmm_unmap() implement one translation per page that changes only at
\* the page a call is at.
THEOREM TablesRefine == MemorySpec => MapsPages
PROOF
<1>1. BootInit => Space!Init
    <2> SUFFICES ASSUME BootInit PROVE Space!Init
        OBVIOUS
    <2>1. Good(tabs, root, level) /\ job = NoCall /\ state = "off"
        BY MemoryStarts, Zenon DEF MInv, WalkInv, BootInit, VmmInit, Init
    <2>2. \A v \in Page : Translate(v) \in Target
        BY <2>1, WalkType DEF Translate
    <2>3. QED
        BY <2>1, <2>2, SameNames DEF Space!Init
<1>2. MInv /\ [MemoryNext]_memoryVars => MInv'
    BY MemoryStep, MemoryStutter
<1>3. MInv /\ [MemoryNext]_memoryVars => [Space!Next]_<<SpaceTrans, SpaceCall>>
    BY MemoryStep, MemoryStutter DEF SpaceNext
<1>4. [Space!Next]_<<SpaceTrans, SpaceCall>> =>
        [Space!Next]_<<[v \in Page |-> Translate(v)], IF state = "panic" THEN Halted ELSE job>>
    BY DEF SpaceTrans, SpaceCall
<1>5. QED
    BY <1>1, <1>2, <1>3, <1>4, MemoryStarts, PTL DEF MemorySpec, memoryVars, MapsPages, Space!Spec
=============================================================================
