--------------------------------- MODULE Vmm ---------------------------------
(***************************************************************************)
(* The page tables (mm/vmm.c) over the frames of Pmm: four levels of       *)
(* tables, found ready from the bootloader and extended with frames of     *)
(* pmm_alloc_page() as mappings need them.                                 *)
(*                                                                         *)
(* vmm_map() is its own loop, one next_table() or one leaf a step, since   *)
(* each may allocate or panic.  Callers come one at a time: boot code, and *)
(* the heap as it grows.  The TLB of this CPU may cache a translation at   *)
(* any time.  The flags of entries that lead to tables are left out: the   *)
(* code sets all of them, and the leaf decides.                            *)
(***************************************************************************)
EXTENDS Pmm, PageTables

CONSTANTS Boots,    \* machines: memory map, and the page tables the bootloader left
          Cached,   \* pages the TLB may hold
          HeapBase, \* KHEAP_BASE, in pages
          HeapTop,  \* bound: where the address space above KHEAP_BASE ends, in pages
          MaxCalls  \* bound: calls of vmm_map() and vmm_unmap()

ASSUME VmmAssumption ==
    /\ \A b \in Boots :
        /\ b.map \in Maps /\ DOMAIN b.tabs \subseteq Nat /\ b.root \in DOMAIN b.tabs
        /\ b.tabs \in [DOMAIN b.tabs -> [Index -> Entry]]
        /\ b.level \in [DOMAIN b.tabs -> 1 .. 4] /\ b.level[b.root] = 4
        /\ Shaped(b.tabs, b.level) /\ OneParent(b.tabs)
        /\ \A t \in DOMAIN b.tabs : \A i \in DOMAIN b.map :
               b.map[i].type = "usable" => t < b.map[i].base \/ t >= EndOf(b.map[i])
    /\ Cached \subseteq Page /\ HeapBase \in Nat /\ HeapTop \in Nat /\ HeapBase <= HeapTop

VARIABLES boot,    \* the machine
          tabs,    \* frame of a table -> its entries
          level,   \* history: frame of a table -> its level
          job,     \* the call in progress
          at,      \* its walk: the table reached
          depth,   \* ... and that table's level
          tlb,     \* page -> translation cached
          heapEnd, \* heap_end, in pages
          calls    \* calls made

walkVars == <<boot, tabs, level, job, at, depth, tlb, heapEnd, calls>>

root == boot.root

VmmInit ==
    /\ Init
    /\ boot \in Boots /\ tabs = boot.tabs /\ level = boot.level
    /\ job = NoCall /\ at = root /\ depth = 4
    /\ tlb = [v \in {} |-> Nowhere] /\ heapEnd = HeapBase /\ calls = 0

StartMemory == PmmInit(boot.map) /\ UNCHANGED walkVars

-----------------------------------------------------------------------------
(* The walk. *)

Translate(v) == Walk(tabs, root, v)

\* The CPU caches what its walk finds.
TlbFill(v) ==
    /\ state = "up" /\ Translate(v).on
    /\ tlb' = Grow(tlb, v, Translate(v))
    /\ UNCHANGED <<vars, boot, tabs, level, job, at, depth, heapEnd, calls>>

\* Variant that leaves an old translation cached.
InvlpgNone(v) == tlb

Invlpg(v) == [u \in DOMAIN tlb \ {v} |-> tlb[u]]

-----------------------------------------------------------------------------
(* vmm_map() and vmm_unmap(); addresses and sizes are in bytes. *)

Idle == state = "up" /\ ~boot.frames /\ job = NoCall /\ calls < MaxCalls

\* Variant that rounds the size alone.
EndOfSize(virt, size) == virt \div PageSize + CeilDiv(size, PageSize)

\* end = (virt + size + PAGE_SIZE - 1) & ~(PAGE_SIZE - 1)
EndPage(virt, size) == CeilDiv(virt + size, PageSize)

Start(op, virt, phys, size, flags) ==
    /\ Idle
    /\ job' = [op |-> op, v |-> virt \div PageSize, end |-> EndPage(virt, size),
               p |-> phys \div PageSize, flags |-> flags]
    /\ at' = root /\ depth' = 4 /\ calls' = calls + 1
    /\ UNCHANGED <<boot, tabs, level, tlb>>

VmmMap(virt, phys, size, flags) ==
    Start("map", virt, phys, size, flags) /\ UNCHANGED <<vars, heapEnd>>
MmioMap(virt, phys, size) == VmmMap(virt, phys, size, {"W", "PCD"})
VmmUnmap(virt, size) ==
    Start("unmap", virt, 0, size, {}) /\ UNCHANGED <<vars, heapEnd>>

\* A frame of pmm_alloc_page(), mapped at once at page v.
MapFresh(v, flags) ==
    /\ Idle /\ AllocPage
    /\ IF state' = "panic" THEN UNCHANGED <<boot, tabs, level, job, at, depth, tlb, calls>>
       ELSE Start("map", v * PageSize, NextFrame * PageSize, PageSize, flags)

\* A page of grow_pages() in mm/heap.c.
GrowPage == /\ heapEnd < HeapTop /\ MapFresh(heapEnd, {"W"})
            /\ heapEnd' = IF state' = "up" THEN heapEnd + 1 ELSE heapEnd

Mapping == state = "up" /\ job.op = "map" /\ job.v < job.end
Here == Split(job.v)[5 - depth]

\* next_table() where the parent has no entry: pt_alloc(), and a link to it.
AddTable ==
    /\ Mapping /\ depth > 1 /\ tabs[at][Here].kind = "absent"
    /\ AllocPage
    /\ IF state' = "panic" THEN UNCHANGED <<tabs, level, at, depth>>
       ELSE /\ tabs' = Grow(SetEntry(tabs, at, Here, Link(NextFrame)), NextFrame, EmptyTable)
            /\ level' = Grow(level, NextFrame, depth - 1)
            /\ at' = NextFrame /\ depth' = depth - 1
    /\ UNCHANGED <<boot, job, tlb, heapEnd, calls>>

\* ... where it leads to a table.
DownTable ==
    /\ Mapping /\ depth > 1 /\ tabs[at][Here].kind = "table"
    /\ at' = tabs[at][Here].frame /\ depth' = depth - 1
    /\ UNCHANGED <<vars, boot, tabs, level, job, tlb, heapEnd, calls>>

\* ... and where it maps a large page.
HugePanic ==
    /\ Mapping /\ depth > 1 /\ tabs[at][Here].kind = "huge"
    /\ state' = "panic"
    /\ UNCHANGED <<map, total, bits, usedPages, hint, bmBase, bmPages, held, walkVars>>

WriteLeaf ==
    /\ Mapping /\ depth = 1
    /\ tabs' = SetEntry(tabs, at, Here, Leaf(job.p, job.flags))
    /\ tlb' = Invlpg(Split(job.v))
    /\ job' = [job EXCEPT !.v = @ + 1, !.p = @ + 1]
    /\ at' = root /\ depth' = 4
    /\ UNCHANGED <<vars, boot, level, heapEnd, calls>>

\* A page of vmm_unmap(): skipped where a table is missing or the page is large.
UnmapPage ==
    /\ state = "up" /\ job.op = "unmap" /\ job.v < job.end
    /\ LET v == Split(job.v)
       IN IF /\ tabs[root][v[1]].kind = "table"
             /\ tabs[Table3(tabs, root, v)][v[2]].kind = "table"
             /\ tabs[Table2(tabs, root, v)][v[3]].kind = "table"
          THEN /\ tabs' = SetEntry(tabs, Table1(tabs, root, v), v[4], Absent)
               /\ tlb' = Invlpg(v)
          ELSE UNCHANGED <<tabs, tlb>>
    /\ job' = [job EXCEPT !.v = @ + 1]
    /\ UNCHANGED <<vars, boot, level, at, depth, heapEnd, calls>>

MapReturn ==
    /\ state = "up" /\ job # NoCall /\ job.v >= job.end /\ job' = NoCall
    /\ UNCHANGED <<vars, boot, tabs, level, at, depth, tlb, heapEnd, calls>>

MapStep == AddTable \/ DownTable \/ HugePanic \/ WriteLeaf \/ UnmapPage \/ MapReturn

-----------------------------------------------------------------------------
(* Properties. *)

\* The tables implement one translation per page that only the calls change: adding
\* a table changes none, writing a leaf exactly the page asked for.
Space == INSTANCE AddressSpace
    WITH trans <- [v \in Page |-> Translate(v)],
         call <- IF state = "panic" THEN Halted ELSE job
MapsPages == Space!Spec

\* After a call has written a leaf and dropped its page, the TLB holds no translation the
\* tables no longer have (vmm_map, vmm_unmap; the store and the invlpg right after it are
\* one step of the model).
TlbFresh == \A v \in DOMAIN tlb : tlb[v] = Translate(v)

\* Between calls the pages of the heap are mapped to frames of their own, and none of
\* them is a page table: a store to the heap never changes a translation.
HeapPagesOwn ==
    (state = "up" /\ job = NoCall) => \A n \in HeapBase .. heapEnd - 1 :
        LET t == Translate(Split(n))
        IN /\ t.on /\ t.frame \notin DOMAIN tabs
           /\ \A k \in HeapBase .. heapEnd - 1 :
                 Translate(Split(k)).frame = t.frame => k = n

=============================================================================
