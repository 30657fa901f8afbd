-------------------------------- MODULE Heap --------------------------------
(***************************************************************************)
(* The kernel heap (mm/heap.c): one list of blocks in address order, first *)
(* fit, split on allocation, coalesced on free, grown by whole pages.      *)
(*                                                                         *)
(* The list is the function heap from block addresses to headers; the walk *)
(* along next visits the blocks in address order (Tiled), which is why the *)
(* first fit is the fitting block with the least address.  The owner of a  *)
(* region may write every byte of it: the header magics it overwrites are  *)
(* removed from magic when the region is allocated.                        *)
(***************************************************************************)
EXTENDS Integers

Least(S) == CHOOSE x \in S : \A y \in S : x <= y

CONSTANTS Base,        \* KHEAP_BASE
          Header,      \* sizeof(struct block), 32
          Align,       \* 16
          PageSize,    \* PMM_PAGE_SIZE
          FirstPages,  \* KHEAP_FIRST / PMM_PAGE_SIZE
          GrowPages,   \* KHEAP_GROW / PMM_PAGE_SIZE
          MaxEnd,      \* where physical memory is used up
          Sizes,       \* the sizes asked of kmalloc()
          FreesTwice   \* whether a caller may free a pointer again

ASSUME HeapAssumption ==
    /\ Base \in Nat \ {0} /\ Header \in Nat \ {0} /\ Align \in Nat \ {0}
    /\ PageSize \in Nat \ {0} /\ FirstPages \in Nat /\ GrowPages \in Nat \ {0}
    /\ FirstPages * PageSize >= Header + Align
    /\ GrowPages * PageSize >= Header + Align
    /\ PageSize >= Header + Align
    /\ MaxEnd \in Nat /\ Base + FirstPages * PageSize <= MaxEnd
    /\ Sizes \subseteq Nat /\ FreesTwice \in BOOLEAN

VARIABLES heap,    \* block address -> [size, free, next], a list from Base
          heapEnd, \* heap_end
          magic,   \* the addresses that hold HEAP_MAGIC
          state,   \* "run", or the panic that stopped the kernel
          asked,   \* history: live block -> the size its owner asked for
          freed,   \* history: pointers freed, their memory not reused since
          twice    \* history: kfree() was called with a pointer freed before

vars == <<heap, heapEnd, magic, state, asked, freed, twice>>

Null == 0
Block(size, free, next) == [size |-> size, free |-> free, next |-> next]
Put(h, b, header) == [x \in DOMAIN h \cup {b} |-> IF x = b THEN header ELSE h[x]]

\* heap_init()
Init ==
    /\ heap = [b \in {Base} |-> Block(FirstPages * PageSize, TRUE, Null)]
    /\ heapEnd = Base + FirstPages * PageSize
    /\ magic = {Base}
    /\ state = "run" /\ asked = [b \in {} |-> 0] /\ freed = {} /\ twice = FALSE

-----------------------------------------------------------------------------
(* kmalloc() and its helpers, as functions of the list h. *)

\* The block behind the first need bytes of b, if the rest of b is large enough.
Splits(h, b, need) == h[b].size >= need + Header + Align

\* Variant that drops the rest of the list.
SplitCutsList(h, b, need) ==
    LET n == b + need
    IN IF ~Splits(h, b, need) THEN h
       ELSE Put(Put(h, n, Block(h[b].size - need, TRUE, Null)),
                b, Block(need, h[b].free, n))

Split(h, b, need) ==
    LET n == b + need
    IN IF ~Splits(h, b, need) THEN h
       ELSE Put(Put(h, n, Block(h[b].size - need, TRUE, h[b].next)),
                b, Block(need, h[b].free, n))

SetFree(h, b, free) == Put(h, b, Block(h[b].size, free, h[b].next))

LastBlock(h) == CHOOSE t \in DOMAIN h : h[t].next = Null

AppendFreeRegion(h, base, size) ==
    LET t == LastBlock(h)
    IN IF h[t].free /\ t + h[t].size = base
       THEN Put(h, t, Block(h[t].size + size, TRUE, Null))
       ELSE Put(Put(h, base, Block(size, TRUE, Null)),
                t, Block(h[t].size, h[t].free, base))

\* grow_heap_for(): whole pages for need, at least the minimum chunk.
Growth(need) ==
    LET pages == (need + PageSize - 1) \div PageSize
    IN (IF pages < GrowPages THEN GrowPages ELSE pages) * PageSize

\* Variant that takes a block that is free but too small by one header.
FitsPayload(h, need) == {b \in DOMAIN h : h[b].free /\ h[b].size + Header >= need}

Fits(h, need) == {b \in DOMAIN h : h[b].free /\ h[b].size >= need}

Need(size) == ((size + Align - 1) \div Align) * Align + Header

\* A header at n overwrites the magic of a header that was merged away and starts inside.
Overwritten(n) == n + 1 .. n + Header - 1

\* The block is taken from list h; m are the magics so far.  The rest of the block gets
\* a header; the owner may overwrite everything behind the header of its own.
Take(h, m, end, size) ==
    LET need == Need(size)
        b == Least(Fits(h, need))
        g == Split(h, b, need)
    IN /\ heap' = SetFree(g, b, FALSE)
       /\ heapEnd' = end
       /\ magic' = ((m \cup DOMAIN g) \ (b + Header .. b + g[b].size - 1))
                   \ (IF Splits(h, b, need) THEN Overwritten(b + need) ELSE {})
       /\ asked' = [x \in DOMAIN asked \cup {b} |-> IF x = b THEN size ELSE asked[x]]
       /\ freed' = {p \in freed : p - Header < b \/ p - Header >= b + g[b].size}
       /\ UNCHANGED <<state, twice>>

Panic(what) == state' = what /\ UNCHANGED <<heap, heapEnd, magic, asked, freed, twice>>

Kmalloc(size) ==
    LET need == Need(size)
        grown == AppendFreeRegion(heap, heapEnd, Growth(need))
    IN /\ state = "run" /\ size # 0
       /\ IF ~(DOMAIN heap \subseteq magic) THEN Panic("corrupt free-list magic")
          ELSE IF Fits(heap, need) # {} THEN Take(heap, magic, heapEnd, size)
          ELSE IF heapEnd + Growth(need) > MaxEnd THEN Panic("no physical memory")
          ELSE IF Fits(grown, need) = {} THEN Panic("out of memory after grow")
          ELSE Take(grown, magic \cup {heapEnd}, heapEnd + Growth(need), size)

-----------------------------------------------------------------------------
(* kfree() *)

Merge(h, b, n) == [x \in DOMAIN h \ {n} |->
    IF x = b THEN Block(h[b].size + h[n].size, h[b].free, h[n].next) ELSE h[x]]

CoalesceForward(h, b) ==
    LET n == h[b].next
    IN IF n # Null /\ h[n].free /\ b + h[b].size = n THEN Merge(h, b, n) ELSE h

CoalesceBackward(h, b) ==
    LET prev == {p \in DOMAIN h : h[p].next = b /\ h[p].free /\ p + h[p].size = b}
    IN IF prev # {} THEN Merge(h, Least(prev), b) ELSE h

\* The owner of block b frees it.
Kfree(b) ==
    /\ state = "run" /\ b \in DOMAIN heap /\ ~heap[b].free
    /\ IF b \notin magic THEN Panic("bad or already-freed pointer")
       ELSE /\ heap' = CoalesceBackward(
                           CoalesceForward(SetFree(heap, b, TRUE), b), b)
            /\ asked' = [x \in DOMAIN asked \ {b} |-> asked[x]]
            /\ freed' = IF FreesTwice THEN freed \cup {b + Header} ELSE freed
            /\ UNCHANGED <<heapEnd, magic, state, twice>>

\* A second kfree() of p before its memory is reused.  It panics where a later header
\* has overwritten the magic; else the list does not change: the block is free, and its
\* neighbours are merged already.
KfreeAgain(p) ==
    /\ FreesTwice /\ state = "run" /\ p \in freed
    /\ twice' = TRUE
    /\ state' = IF p - Header \notin magic THEN "bad or already-freed pointer" ELSE state
    /\ UNCHANGED <<heap, heapEnd, magic, asked, freed>>

Next ==
    \/ \E size \in Sizes : Kmalloc(size)
    \/ \E b \in DOMAIN heap : Kfree(b)
    \/ \E p \in freed : KfreeAgain(p)

Spec == Init /\ [][Next]_vars

-----------------------------------------------------------------------------
(* Properties. *)

\* Every variable has its type.
TypeOK ==
    /\ DOMAIN heap \subseteq Nat
    /\ \A b \in DOMAIN heap : heap[b] \in [size : Header .. MaxEnd, free : BOOLEAN,
                                       next : 0 .. MaxEnd]
    /\ heapEnd \in 0 .. MaxEnd /\ magic \subseteq Nat /\ freed \subseteq Nat /\ twice \in BOOLEAN
    /\ DOMAIN asked \subseteq DOMAIN heap /\ \A b \in DOMAIN asked : asked[b] \in Sizes
    /\ state \in {"run", "no physical memory", "corrupt free-list magic",
                  "out of memory after grow", "bad or already-freed pointer"}

\* The blocks of list h tile the window up to end in address order.
TiledIn(h, end) ==
    /\ Base \in DOMAIN h
    /\ \A b \in DOMAIN h :
        /\ b >= Base /\ h[b].size >= Header + Align /\ b + h[b].size <= end
        /\ IF b + h[b].size = end THEN h[b].next = Null
           ELSE h[b].next = b + h[b].size /\ b + h[b].size \in DOMAIN h
    /\ \A a, b \in DOMAIN h : a < b => a + h[a].size <= b
    /\ \E t \in DOMAIN h : t + h[t].size = end

\* Splits, merges and growth keep the list a tiling of the heap window in
\* address order: every block ends where the next one starts, the last one at
\* heap_end, and each has room for a header and the smallest payload.
Tiled == TiledIn(heap, heapEnd)

\* After every kfree() and every growth no two neighbours are both free, so
\* that memory never stays fragmented once it is given back.
Coalesced ==
    \A b \in DOMAIN heap :
        heap[b].free /\ heap[b].next # Null => ~heap[heap[b].next].free

\* Whatever the owners write into their regions, no header of the list is hit, so that
\* kmalloc() and the kfree() of an owner never meet a bad magic; nor does the panic
\* behind the second attempt fire, because the growth always makes room.  A pointer that
\* is freed again may be refused.
NeverCorrupt ==
    /\ DOMAIN heap \subseteq magic
    /\ state \in {"run", "no physical memory"}
       \/ (state = "bad or already-freed pointer" /\ twice)

\* The list is sound after any sequence of kmalloc() and kfree() calls, double frees and
\* growth included: it tiles the heap, free neighbours are merged, no header in it was
\* hit, and only a pointer freed before can be refused (kmalloc, kfree).
HeapSound == Tiled /\ Coalesced /\ NeverCorrupt

\* The list implements the allocator: kmalloc() grants regions that are apart
\* from all live ones, kfree() releases one and touches no other.
Region(b) == [at |-> b + Header, len |-> heap[b].size - Header, asked |-> asked[b]]
Contract == INSTANCE Allocator WITH
    Space <- 0 .. MaxEnd,
    live <- {Region(b) : b \in {x \in DOMAIN heap : ~heap[x].free}}

GrantsApart == Contract!AllocatorSpec

=============================================================================
