----------------------------- MODULE BootProofs -----------------------------
(***************************************************************************)
(* The users of the page tables, for every machine whose address space is  *)
(* laid out as LayoutAssumption says: the pages of the heap have frames of *)
(* their own (mm/heap.c), and acpi_init() reads nothing it has not mapped  *)
(* (arch/x86_64/acpi.c).  Both follow from what the calls do to the        *)
(* translations: a page keeps its own until a call names it.               *)
(***************************************************************************)
EXTENDS MemoryProofs

HeapNow == HeapBase .. heapEnd - 1

\* The call in progress maps page n next, and will map it.
Waits(n) == job.op = "map" /\ job.v = n /\ n < job.end
Awaited(n) == job.op = "map" /\ job.v <= n /\ n < job.end

\* The frame of a page of the heap, from the time it is taken.
HeapFrame(n) == IF Waits(n) THEN job.p ELSE Translate(Split(n)).frame

\* A call either maps the last page of the heap or stays off it.
HeapCall == /\ job.op = "map" /\ job.end = heapEnd /\ heapEnd > HeapBase
            /\ job.v \in {heapEnd - 1, heapEnd}
OtherCall == OffHeap({n \in Nat : job.v <= n /\ n < job.end})

HeapInv ==
    /\ HeapBase <= heapEnd /\ heapEnd <= HeapTop /\ (boot.frames => heapEnd = HeapBase)
    /\ \A n \in HeapNow : /\ Waits(n) \/ Translate(Split(n)).on
                       /\ HeapFrame(n) \in held /\ HeapFrame(n) \notin DOMAIN tabs
    /\ \A n, k \in HeapNow : HeapFrame(n) = HeapFrame(k) => n = k
    /\ job # NoCall => HeapCall \/ OtherCall

\* The ranges acpi_init() has asked for and still reads.
Needs == {r \in Ranges(fw) :
    \/ pc = "root" /\ r = [phys |-> fw.rsdp, size |-> RsdpSize]
    \/ pc = "length" /\ r = [phys |-> fw.root, size |-> HeaderSize]
    \/ pc \in {"entry", "header", "table"} /\ r = [phys |-> fw.root, size |-> fw.length]
    \/ pc = "header" /\ r = [phys |-> Table.phys, size |-> HeaderSize]
    \/ pc = "table" /\ r = [phys |-> Table.phys, size |-> Table.length]}

\* Page n of the direct map leads to its frame.
Offset == Hhdm \div PageSize
Straight(n) == Translate(Split(n)).on /\ Translate(Split(n)).frame = n - Offset

\* Up to lapic_init() every call maps a range of the firmware, page by page.
FirmwareCall ==
    /\ job.op = "map" /\ job.p = job.v - Offset
    /\ \E r \in Ranges(fw) : \A n \in Nat : job.v <= n /\ n < job.end => n \in Direct(r)

ReadInv ==
    /\ \A r \in Needs : \A n \in Direct(r) : Awaited(n) \/ Straight(n)
    /\ (pc # "up" /\ job # NoCall) => FirmwareCall
    /\ acpi.lapic \in Registers(fw) /\ acpi.ioapic \in Registers(fw)
    /\ boot.frames => pc = "up"

\* What the proofs use of the constants.
LEMMA Geometry ==
    /\ PageSize \in Nat /\ PageSize > 0
    /\ Hhdm \in Nat /\ Hhdm % PageSize = 0 /\ RsdpSize \in Nat /\ HeaderSize \in Nat
    /\ HeapBase \in Nat /\ HeapTop \in Nat /\ HeapBase <= HeapTop
PROOF
<1>1. PageSize \in Nat \ {0}
    BY PmmAssumption, Zenon
<1>2. /\ Hhdm \in Nat /\ Hhdm % PageSize = 0 /\ RsdpSize \in Nat /\ HeaderSize \in Nat
      /\ HeapBase \in Nat /\ HeapTop \in Nat /\ HeapBase <= HeapTop
    BY VmmAssumption, BootAssumption, LayoutAssumption, Zenon
<1>3. PageSize \in Nat /\ PageSize > 0
    BY <1>1, SMT
<1>4. QED
    BY <1>2, <1>3, Zenon

\* The other users of the address space stay off the heap, whose pages differ.
LEMMA HeapAlone ==
    /\ \A n, k \in HeapPages : Split(n) = Split(k) => n = k
    /\ \A d \in Devices : d.phys \in Nat /\ d.size \in Nat /\ OffHeap(Direct(d))
    /\ \A u \in UserPages : u.page \in Nat /\ OffHeap({u.page})
    /\ \A u \in Unmaps : u.virt \in Nat /\ u.size \in Nat /\ OffHeap(Pages(u.virt, u.size))
PROOF
BY BootAssumption, LayoutAssumption, Zenon

\* The quotient is the number of whole divisors.
LEMMA QuotientIs ==
    ASSUME NEW n \in Nat, n > 0, NEW q \in Nat, NEW x \in Nat, n * q <= x, x < n * q + n
    PROVE  x \div n = q
PROOF
<1>1. PICK p \in Nat : p = x \div n
    OBVIOUS
<1>2. n * p <= x /\ x < n * p + n /\ n * p \in Nat /\ n * q \in Nat
    BY <1>1
<1>3. ASSUME NEW a \in Nat, NEW b \in Nat, a < b PROVE n * a + n <= n * b
    <2>1. PICK d \in Nat : b = a + 1 + d
        BY <1>3
    <2>2. n * b = n * a + n + n * d /\ n * d \in Nat /\ n * a \in Nat
        BY <2>1
    <2>3. QED
        BY <2>2
<1>4. p < q => n * p + n <= n * q
    BY <1>3
<1>5. q < p => n * q + n <= n * p
    BY <1>3
<1>6. QED
    BY <1>1, <1>2, <1>4, <1>5

\* A larger number has no smaller quotient.
LEMMA QuotientOrder ==
    ASSUME NEW n \in Nat, n > 0, NEW x \in Nat, NEW y \in Nat, x <= y
    PROVE  x \div n <= y \div n
PROOF
<1>1. PICK p \in Nat : p = x \div n
    OBVIOUS
<1>2. PICK q \in Nat : q = y \div n
    OBVIOUS
<1>3. n * p <= x /\ y < n * q + n /\ n * p \in Nat /\ n * q \in Nat
    BY <1>1, <1>2
<1>4. ASSUME q < p PROVE FALSE
    <2>1. PICK d \in Nat : p = q + 1 + d
        BY <1>4
    <2>2. n * p = n * q + n + n * d /\ n * d \in Nat
        BY <2>1
    <2>3. QED
        BY <1>3, <2>2
<1>5. QED
    BY <1>1, <1>2, <1>4

\* A call for one page: where it starts and ends, and its frame.
LEMMA OnePage ==
    ASSUME NEW n \in Nat
    PROVE  (n * PageSize) \div PageSize = n /\ EndPage(n * PageSize, PageSize) = n + 1
PROOF
<1>1. PageSize \in Nat /\ PageSize > 0
    BY Geometry
<1>2. n * PageSize \in Nat /\ PageSize * n = n * PageSize
      /\ PageSize * (n + 1) = n * PageSize + PageSize
    BY <1>1
<1>3. (n * PageSize) \div PageSize = n
    BY <1>1, <1>2, QuotientIs
<1>4. (n * PageSize + PageSize + PageSize - 1) \div PageSize = n + 1
    <2>1. n + 1 \in Nat /\ n * PageSize + PageSize + PageSize - 1 \in Nat
        BY <1>1, <1>2
    <2>2. /\ PageSize * (n + 1) <= n * PageSize + PageSize + PageSize - 1
          /\ n * PageSize + PageSize + PageSize - 1 < PageSize * (n + 1) + PageSize
        BY <1>1, <1>2
    <2>3. QED
        BY <1>1, <2>1, <2>2, QuotientIs
<1>5. QED
    BY <1>3, <1>4 DEF EndPage, CeilDiv

\* The page of a byte in the direct map.
LEMMA DirectPage ==
    ASSUME NEW b \in Nat
    PROVE  Offset \in Nat /\ (Hhdm + b) \div PageSize = Offset + b \div PageSize
PROOF
<1>1. PageSize \in Nat /\ PageSize > 0 /\ Hhdm \in Nat /\ Hhdm % PageSize = 0
    BY Geometry
<1>2. PICK h \in Nat : h = Offset
    BY <1>1 DEF Offset
<1>3. PICK q \in Nat : q = b \div PageSize
    BY <1>1
<1>4. Hhdm = PageSize * h
    BY <1>1, <1>2 DEF Offset
<1>5. PageSize * q <= b /\ b < PageSize * q + PageSize
    BY <1>1, <1>3
<1>6. PageSize * (h + q) = PageSize * h + PageSize * q /\ PageSize * q \in Nat
    BY <1>1
<1>7. (Hhdm + b) \div PageSize = h + q
    BY <1>1, <1>4, <1>5, <1>6, QuotientIs
<1>8. QED
    BY <1>2, <1>3, <1>7

\* Every byte of a range is on one of its pages.
LEMMA ByteOnPage ==
    ASSUME NEW phys \in Nat, NEW size \in Nat, NEW b \in Span(phys, size)
    PROVE  (Hhdm + b) \div PageSize \in Direct([phys |-> phys, size |-> size])
PROOF
<1>1. PageSize \in Nat /\ PageSize > 0 /\ Hhdm \in Nat
    BY Geometry
<1>2. b \in Nat /\ phys <= b /\ b + 1 <= phys + size
    BY DEF Span
<1>3. (Hhdm + phys) \div PageSize <= (Hhdm + b) \div PageSize
    BY <1>1, <1>2, QuotientOrder
<1>4. (Hhdm + b) \div PageSize + 1 <= EndPage(Hhdm + phys, size)
    <2>1. PICK q \in Nat : q = (Hhdm + b) \div PageSize
        BY <1>1, <1>2
    <2>2. PageSize * q <= Hhdm + b /\ Hhdm + b < PageSize * q + PageSize /\ PageSize * q \in Nat
        BY <1>1, <1>2, <2>1
    <2>3. PageSize * (q + 1) = PageSize * q + PageSize
        BY <1>1
    <2>4. (Hhdm + b + PageSize) \div PageSize = q + 1
        BY <1>1, <1>2, <2>2, <2>3, QuotientIs
    <2>5. (Hhdm + b + PageSize) \div PageSize <= (Hhdm + phys + size + PageSize - 1) \div PageSize
        <3>1. Hhdm + b + PageSize \in Nat /\ Hhdm + phys + size + PageSize - 1 \in Nat
              /\ Hhdm + b + PageSize <= Hhdm + phys + size + PageSize - 1
            BY <1>1, <1>2
        <3>2. QED
            BY <1>1, <3>1, QuotientOrder
    <2>6. QED
        BY <2>1, <2>4, <2>5 DEF EndPage, CeilDiv
<1>5. (Hhdm + b) \div PageSize \in Nat /\ EndPage(Hhdm + phys, size) \in Nat
    BY <1>1, <1>2 DEF EndPage, CeilDiv
<1>6. QED
    BY <1>1, <1>3, <1>4, <1>5 DEF Direct, Pages

\* The firmware's ranges, and where they lie in the direct map.
LEMMA LaidOut ==
    ASSUME MInv
    PROVE  /\ \A r \in Ranges(fw) : /\ r.phys \in Nat /\ r.size \in Nat
                                    /\ Direct(r) \subseteq Nat /\ OffHeap(Direct(r))
           /\ \A r, s \in Ranges(fw) : \A n \in Direct(r), k \in Direct(s) :
                  Split(n) = Split(k) => n = k
           /\ \A a \in Registers(fw) : OffHeap(Direct([phys |-> a, size |-> PageSize]))
PROOF
<1>1. boot \in Boots
    BY DEF MInv, WalkInv
<1>2. /\ \A r, s \in Ranges(fw) : \A n \in Direct(r), k \in Direct(s) :
             Split(n) = Split(k) => n = k
      /\ \A r \in Ranges(fw) : OffHeap(Direct(r))
      /\ \A a \in Registers(fw) : OffHeap(Direct([phys |-> a, size |-> PageSize]))
    BY <1>1, LayoutAssumption, Zenon DEF fw
<1>3. /\ fw.rsdp \in Nat /\ fw.root \in Nat /\ fw.length \in Nat
      /\ fw.tables \in Seq(Tables) /\ RsdpSize \in Nat /\ HeaderSize \in Nat
    BY <1>1, BootAssumption DEF fw, Firmware
<1>4. \A i \in DOMAIN fw.tables : fw.tables[i].phys \in Nat /\ fw.tables[i].length \in Nat
    <2>1. SUFFICES ASSUME NEW i \in DOMAIN fw.tables
                   PROVE  fw.tables[i].phys \in Nat /\ fw.tables[i].length \in Nat
        OBVIOUS
    <2>2. fw.tables[i] \in Tables
        BY <1>3
    <2>3. QED
        BY <2>2 DEF Tables
<1>5. \A r \in Ranges(fw) : r.phys \in Nat /\ r.size \in Nat
    BY <1>3, <1>4 DEF Ranges
<1>6. \A r \in Ranges(fw) : Direct(r) \subseteq Nat
    <2>1. SUFFICES ASSUME NEW r \in Ranges(fw) PROVE Direct(r) \subseteq Nat
        OBVIOUS
    <2>2. Hhdm + r.phys \in Nat /\ r.size \in Nat /\ PageSize \in Nat /\ PageSize > 0
        BY <1>5, Geometry
    <2>3. (Hhdm + r.phys) \div PageSize \in Nat /\ EndPage(Hhdm + r.phys, r.size) \in Nat
        BY <2>2 DEF EndPage, CeilDiv
    <2>4. QED
        BY <2>3 DEF Direct, Pages
<1>7. QED
    BY <1>2, <1>5, <1>6, Zenon

\* What a step does to the translation of a page.
Same(v) == Translate(v)' = Translate(v)

\* Nothing while a call stays at its page.
LEMMA CallStays ==
    ASSUME MInv, SpaceNext, job \in Calls, job' = job, state = "up", state' = "up"
    PROVE  \A v \in Page : Same(v)
PROOF
<1>1. SpaceCall = job /\ SpaceCall' = job
    BY DEF SpaceCall
<1>2. job.op \in {"map", "unmap"} /\ job.v \in Nat
    BY DEF Calls
<1>3. SpaceTrans' = SpaceTrans
    <2>1. CASE Space!MapPage \/ Space!UnmapPage
        <3>1. job' = [job EXCEPT !.v = @ + 1, !.p = @ + 1] \/ job' = [job EXCEPT !.v = @ + 1]
            BY <1>1, <2>1 DEF Space!MapPage, Space!UnmapPage, SpaceCall
        <3>2. job'.v = job.v + 1
            BY <3>1 DEF Calls
        <3>3. QED
            BY <1>2, <3>2
    <2>2. CASE Space!Begin \/ Space!Return \/ Space!Halt
        BY <2>2, SameNames, Zenon DEF Space!Begin, Space!Return, Space!Halt, SpaceTrans
    <2>3. QED
        BY <2>1, <2>2, Zenon DEF SpaceNext, Space!Next
<1>4. QED
    <2>1. SUFFICES ASSUME NEW v \in Page PROVE Translate(v)' = Translate(v)
        BY DEF Same
    <2>2. SpaceTrans[v] = Translate(v) /\ SpaceTrans'[v] = Translate(v)'
        BY DEF SpaceTrans
    <2>3. QED
        BY <1>3, <2>2, Zenon

\* Writing a leaf maps its page, and changes no other.
LEMMA LeafTrans ==
    ASSUME MInv, WriteLeaf, SpaceNext
    PROVE  /\ job \in Calls /\ Split(job.v) \in Page
           /\ \A v \in Page : IF v = Split(job.v) THEN Translate(v)' = Small(job.p, job.flags)
                                                  ELSE Same(v)
           /\ DOMAIN tabs' = DOMAIN tabs
           /\ job' = [op |-> "map", v |-> job.v + 1, end |-> job.end, p |-> job.p + 1,
                      flags |-> job.flags]
PROOF
<1>1. /\ state = "up" /\ state' = "up" /\ job.op = "map" /\ job.v < job.end
      /\ job' = [job EXCEPT !.v = @ + 1, !.p = @ + 1]
      /\ tabs' = SetEntry(tabs, at, Here, Leaf(job.p, job.flags))
    BY DEF WriteLeaf, Mapping, vars
<1>2. job \in Calls
    BY <1>1, NoCallNone, Zenon DEF MInv, WalkInv
<1>3. job.v \in Nat /\ job.end \in Nat /\ job.p \in Nat
    BY <1>2 DEF Calls
<1>4. job' = [op |-> "map", v |-> job.v + 1, end |-> job.end, p |-> job.p + 1,
              flags |-> job.flags]
    BY <1>1, <1>2 DEF Calls
<1>5. Split(job.v) \in Page
    BY <1>3, SplitPage
<1>6. DOMAIN tabs' = DOMAIN tabs
    BY <1>1 DEF SetEntry
<1>7. SpaceCall = job /\ SpaceCall' = job'
    BY <1>1 DEF SpaceCall
<1>8. Space!MapPage
    <2>1. job # NoCall /\ job' # Halted /\ job'.v # job.v
        BY <1>1, <1>3, <1>4 DEF NoCall, Halted
    <2>2. ~ Space!Begin /\ ~ Space!Return /\ ~ Space!UnmapPage
        BY <1>1, <1>3, <1>7, <2>1, SameNames DEF Space!Begin, Space!Return, Space!UnmapPage, SpaceCall
    <2>3. ~ Space!Halt /\ SpaceCall' # SpaceCall
        BY <1>7, <2>1, SameNames DEF Space!Halt, SpaceCall
    <2>4. QED
        BY <2>2, <2>3 DEF SpaceNext, Space!Next
<1>9. SpaceTrans' = [SpaceTrans EXCEPT ![Split(job.v)] = Small(job.p, job.flags)]
    BY <1>7, <1>8, SameNames, Zenon DEF Space!MapPage, SpaceTrans, SpaceCall
<1>10. \A v \in Page : SpaceTrans[v] = Translate(v) /\ SpaceTrans'[v] = Translate(v)'
    BY DEF SpaceTrans
<1>11. DOMAIN SpaceTrans = Page
    BY DEF SpaceTrans
<1>12. /\ SpaceTrans'[Split(job.v)] = Small(job.p, job.flags)
       /\ \A v \in Page : v # Split(job.v) => SpaceTrans'[v] = SpaceTrans[v]
    BY <1>5, <1>9, <1>11, Zenon
<1>13. QED
    BY <1>2, <1>4, <1>5, <1>6, <1>10, <1>12, Zenon DEF Same

\* Unmapping a page changes no other.
LEMMA UnmapTrans ==
    ASSUME MInv, UnmapPage, SpaceNext
    PROVE  /\ job \in Calls /\ Split(job.v) \in Page
           /\ \A v \in Page : v # Split(job.v) => Same(v)
           /\ DOMAIN tabs' = DOMAIN tabs
           /\ job' = [op |-> "unmap", v |-> job.v + 1, end |-> job.end, p |-> job.p,
                      flags |-> job.flags]
PROOF
<1>1. /\ state = "up" /\ state' = "up" /\ job.op = "unmap" /\ job.v < job.end
      /\ job' = [job EXCEPT !.v = @ + 1]
    BY DEF UnmapPage, vars
<1>2. job \in Calls
    BY <1>1, NoCallNone, Zenon DEF MInv, WalkInv
<1>3. job.v \in Nat /\ job.end \in Nat
    BY <1>2 DEF Calls
<1>4. job' = [op |-> "unmap", v |-> job.v + 1, end |-> job.end, p |-> job.p,
              flags |-> job.flags]
    BY <1>1, <1>2 DEF Calls
<1>5. Split(job.v) \in Page
    BY <1>3, SplitPage
<1>6. DOMAIN tabs' = DOMAIN tabs
    BY DEF UnmapPage, SetEntry
<1>7. SpaceCall = job /\ SpaceCall' = job'
    BY <1>1 DEF SpaceCall
<1>8. Space!UnmapPage
    <2>1. job # NoCall /\ job' # Halted /\ job'.v # job.v
        BY <1>1, <1>3, <1>4 DEF NoCall, Halted
    <2>2. ~ Space!Begin /\ ~ Space!Return /\ ~ Space!MapPage
        BY <1>1, <1>3, <1>7, <2>1, SameNames, SMTT(30) DEF Space!Begin, Space!Return, Space!MapPage, SpaceCall
    <2>3. ~ Space!Halt /\ SpaceCall' # SpaceCall
        BY <1>7, <2>1, SameNames DEF Space!Halt, SpaceCall
    <2>4. QED
        BY <2>2, <2>3 DEF SpaceNext, Space!Next
<1>9. SpaceTrans' = [SpaceTrans EXCEPT ![Split(job.v)] = IF @.large THEN @ ELSE Nowhere]
    BY <1>7, <1>8, SameNames, Zenon DEF Space!UnmapPage, SpaceTrans, SpaceCall
<1>10. \A v \in Page : SpaceTrans[v] = Translate(v) /\ SpaceTrans'[v] = Translate(v)'
    BY DEF SpaceTrans
<1>11. \A v \in Page : v # Split(job.v) => SpaceTrans'[v] = SpaceTrans[v]
    BY <1>9 DEF SpaceTrans
<1>12. QED
    BY <1>2, <1>4, <1>5, <1>6, <1>10, <1>11, Zenon DEF Same

-----------------------------------------------------------------------------
(* The heap. *)

\* A step after which the pages of the heap still have their frames.
LEMMA FramesStay ==
    ASSUME MInv, HeapInv, heapEnd' = heapEnd, boot' = boot,
           \A n \in HeapNow : /\ (Waits(n) \/ Translate(Split(n)).on)'
                              /\ HeapFrame(n)' = HeapFrame(n),
           held \subseteq held' \/ boot.frames, DOMAIN tabs' \cap held \subseteq DOMAIN tabs,
           (job # NoCall => HeapCall \/ OtherCall)'
    PROVE  HeapInv'
PROOF
<1>1. HeapNow' = HeapNow
    BY DEF HeapNow
<1>2. HeapBase \in Nat /\ heapEnd \in Nat
    BY Geometry DEF MInv, WalkInv
<1>3. HeapNow # {} => held \subseteq held'
    BY <1>2 DEF HeapInv, HeapNow
<1>4. \A n \in HeapNow : HeapFrame(n)' \in held' /\ HeapFrame(n)' \notin DOMAIN tabs'
    BY <1>3, Zenon DEF HeapInv
<1>5. \A n, k \in HeapNow : HeapFrame(n)' = HeapFrame(k)' => n = k
    BY Zenon DEF HeapInv
<1>6. HeapBase <= heapEnd' /\ heapEnd' <= HeapTop /\ (boot.frames => heapEnd = HeapBase)'
    BY Zenon DEF HeapInv
<1>7. QED
    BY <1>1, <1>4, <1>5, <1>6, Zenon DEF HeapInv

\* A step outside of the translations.
LEMMA HeapKept ==
    ASSUME MInv, HeapInv, \A v \in Page : Same(v), job' = job, heapEnd' = heapEnd,
           boot' = boot, held \subseteq held' \/ boot.frames,
           DOMAIN tabs' \cap held \subseteq DOMAIN tabs
    PROVE  HeapInv'
PROOF
<1>1. \A n \in HeapNow : Split(n) \in Page
    BY SplitPage, Geometry DEF MInv, WalkInv, HeapNow
<1>2. \A n \in HeapNow : Translate(Split(n))' = Translate(Split(n))
    BY <1>1, Zenon DEF Same
<1>3. \A n \in HeapNow : /\ (Waits(n) \/ Translate(Split(n)).on)'
                         /\ HeapFrame(n)' = HeapFrame(n)
    BY <1>2, Zenon DEF HeapInv, Waits, HeapFrame
<1>4. (job # NoCall => HeapCall \/ OtherCall)'
    BY Zenon DEF HeapInv, HeapCall, OtherCall
<1>5. QED
    BY <1>3, <1>4, FramesStay, Zenon

\* The end of a call.
LEMMA HeapReturns ==
    ASSUME MInv, HeapInv, MapReturn
    PROVE  HeapInv'
PROOF
<1>1. /\ job # NoCall /\ job.v >= job.end /\ job' = NoCall /\ tabs' = tabs /\ boot' = boot
      /\ heapEnd' = heapEnd /\ held' = held
    BY DEF MapReturn, vars
<1>2. job.v \in Nat /\ job.end \in Nat
    BY <1>1 DEF MInv, WalkInv, Calls
<1>3. \A n \in HeapNow : ~ Waits(n) /\ ~ Waits(n)'
    BY <1>1, <1>2, NoCallNone DEF Waits
<1>4. \A n \in HeapNow : Translate(Split(n))' = Translate(Split(n))
    BY <1>1 DEF Translate, root
<1>5. \A n \in HeapNow : /\ (Waits(n) \/ Translate(Split(n)).on)'
                         /\ HeapFrame(n)' = HeapFrame(n)
    BY <1>3, <1>4, Zenon DEF HeapInv, HeapFrame
<1>6. QED
    BY <1>1, <1>5, FramesStay, Zenon

\* A call on other pages begins.
LEMMA HeapBegins ==
    ASSUME MInv, HeapInv, job = NoCall, job'.op \in {"map", "unmap"}, OtherCall',
           job'.v \in Nat, tabs' = tabs, boot' = boot, heapEnd' = heapEnd, held \subseteq held'
    PROVE  HeapInv'
PROOF
<1>1. HeapBase \in Nat /\ heapEnd \in Nat /\ HeapTop \in Nat /\ heapEnd <= HeapTop
    BY Geometry DEF MInv, WalkInv, HeapInv
<1>2. \A n \in HeapNow : ~ Waits(n)
    BY NoCallNone DEF Waits
<1>3. \A n \in HeapNow : ~ Waits(n)'
    <2>1. SUFFICES ASSUME NEW n \in HeapNow, job'.v = n, n < job'.end PROVE FALSE
        BY DEF Waits
    <2>2. n \in Nat /\ n \in HeapPages
        BY <1>1 DEF HeapNow, HeapPages
    <2>3. QED
        BY <2>1, <2>2 DEF OtherCall, OffHeap
<1>4. \A n \in HeapNow : Translate(Split(n))' = Translate(Split(n))
    BY DEF Translate, root
<1>5. \A n \in HeapNow : /\ (Waits(n) \/ Translate(Split(n)).on)'
                         /\ HeapFrame(n)' = HeapFrame(n)
    BY <1>2, <1>3, <1>4, Zenon DEF HeapInv, HeapFrame
<1>6. QED
    BY <1>5, FramesStay, Zenon

\* vmm_map() writes a leaf: of the last page of the heap, whose frame waits for it, or
\* off the heap.
LEMMA HeapWritten ==
    ASSUME MInv, HeapInv, WriteLeaf, SpaceNext
    PROVE  HeapInv'
PROOF
<1>1. /\ job \in Calls /\ DOMAIN tabs' = DOMAIN tabs
      /\ \A v \in Page : IF v = Split(job.v) THEN Translate(v)' = Small(job.p, job.flags)
                                             ELSE Same(v)
      /\ job'.op = "map" /\ job'.v = job.v + 1 /\ job'.end = job.end
      /\ heapEnd' = heapEnd /\ boot' = boot /\ held' = held
      /\ job.op = "map" /\ job.v < job.end
    BY LeafTrans DEF WriteLeaf, Mapping, vars
<1>2. job.v \in Nat /\ job.end \in Nat
    BY <1>1 DEF Calls
<1>3. HeapCall \/ OtherCall
    BY <1>1, NoCallNone DEF HeapInv
<1>4. HeapBase \in Nat /\ heapEnd \in Nat /\ HeapTop \in Nat /\ heapEnd <= HeapTop
    BY Geometry DEF MInv, WalkInv, HeapInv
<1>5. \A n \in HeapNow : n \in Nat /\ n \in HeapPages /\ Split(n) \in Page
    BY <1>4, SplitPage DEF HeapNow, HeapPages
<1>6. \A n \in HeapNow : Split(n) = Split(job.v) => Waits(n)
    <2>1. CASE HeapCall
        <3>1. job.v \in HeapPages
            BY <1>1, <1>2, <1>4, <2>1, SMTT(30) DEF HeapCall, HeapPages
        <3>2. QED
            BY <1>1, <1>5, <3>1, HeapAlone, Zenon DEF Waits
    <2>2. CASE OtherCall
        BY <1>1, <1>2, <1>5, <2>2 DEF OtherCall, OffHeap
    <2>3. QED
        BY <1>3, <2>1, <2>2, SMTT(30)
<1>7. \A n \in HeapNow : ~ Waits(n)'
    <2>1. SUFFICES ASSUME NEW n \in HeapNow, n = job.v + 1, n < job.end PROVE FALSE
        BY <1>1 DEF Waits
    <2>2. CASE HeapCall
        BY <1>2, <1>4, <2>1, <2>2 DEF HeapCall, HeapNow
    <2>3. CASE OtherCall
        BY <1>2, <1>5, <2>1, <2>3 DEF OtherCall, OffHeap
    <2>4. QED
        BY <1>3, <2>2, <2>3, SMTT(30)
<1>8. \A n \in HeapNow : /\ (Waits(n) \/ Translate(Split(n)).on)'
                         /\ HeapFrame(n)' = HeapFrame(n)
    <2>1. SUFFICES ASSUME NEW n \in HeapNow
                   PROVE  Translate(Split(n))'.on /\ HeapFrame(n)' = HeapFrame(n)
        OBVIOUS
    <2>2. HeapFrame(n)' = Translate(Split(n))'.frame
        BY <1>7, Zenon DEF HeapFrame
    <2>3. CASE Split(n) = Split(job.v)
        <3>1. Waits(n)
            BY <1>6, <2>3
        <3>2. Translate(Split(n))' = Small(job.p, job.flags)
            BY <1>1, <1>5, <2>3, Zenon
        <3>3. HeapFrame(n) = job.p
            BY <3>1 DEF HeapFrame
        <3>4. QED
            BY <2>2, <3>2, <3>3 DEF Small
    <2>4. CASE Split(n) # Split(job.v)
        <3>1. ~ Waits(n)
            BY <2>4 DEF Waits
        <3>2. Translate(Split(n))' = Translate(Split(n))
            BY <1>1, <1>5, <2>4, Zenon DEF Same
        <3>3. QED
            BY <2>2, <3>1, <3>2, Zenon DEF HeapInv, HeapFrame
    <2>5. QED
        BY <2>3, <2>4
<1>9. (job # NoCall => HeapCall \/ OtherCall)'
    <2>1. CASE HeapCall
        BY <1>1, <1>2, <1>4, <2>1, SMTT(30) DEF HeapCall
    <2>2. CASE OtherCall
        BY <1>1, <1>2, <2>2 DEF OtherCall, OffHeap
    <2>3. QED
        BY <1>3, <2>1, <2>2, SMTT(30)
<1>10. QED
    BY <1>1, <1>8, <1>9, FramesStay, Zenon

\* vmm_unmap() goes on to its next page.
LEMMA HeapUnmapped ==
    ASSUME MInv, HeapInv, UnmapPage, SpaceNext
    PROVE  HeapInv'
PROOF
<1>1. /\ job \in Calls /\ DOMAIN tabs' = DOMAIN tabs
      /\ \A v \in Page : v # Split(job.v) => Same(v)
      /\ job'.op = "unmap" /\ job'.v = job.v + 1 /\ job'.end = job.end
      /\ heapEnd' = heapEnd /\ boot' = boot /\ held' = held
      /\ job.op = "unmap" /\ job.v < job.end
    BY UnmapTrans DEF UnmapPage, vars
<1>2. job.v \in Nat /\ job.end \in Nat
    BY <1>1 DEF Calls
<1>3. OtherCall
    BY <1>1, NoCallNone, SMTT(30) DEF HeapInv, HeapCall
<1>4. \A n \in HeapNow : n \in Nat /\ n \in HeapPages /\ Split(n) \in Page
    BY Geometry, SplitPage DEF MInv, WalkInv, HeapInv, HeapNow, HeapPages
<1>5. \A n \in HeapNow : Split(n) # Split(job.v)
    BY <1>1, <1>2, <1>3, <1>4 DEF OtherCall, OffHeap
<1>6. \A n \in HeapNow : Translate(Split(n))' = Translate(Split(n))
    BY <1>1, <1>4, <1>5, Zenon DEF Same
<1>7. \A n \in HeapNow : ~ Waits(n) /\ ~ Waits(n)'
    BY <1>1 DEF Waits
<1>8. \A n \in HeapNow : /\ (Waits(n) \/ Translate(Split(n)).on)'
                         /\ HeapFrame(n)' = HeapFrame(n)
    BY <1>6, <1>7, Zenon DEF HeapInv, HeapFrame
<1>9. OtherCall'
    BY <1>1, <1>2, <1>3, SMTT(30), Zenon DEF OtherCall, OffHeap
<1>10. QED
    BY <1>1, <1>8, <1>9, FramesStay, Zenon

\* The heap grows: its new page waits for a frame that nobody holds.
LEMMA HeapGrows ==
    ASSUME MInv, HeapInv, heapEnd < HeapTop, ~ boot.frames, job = NoCall, NEW f,
           f \notin held, f \notin DOMAIN tabs, held' = held \cup {f},
           job'.op = "map", job'.v = heapEnd, job'.end = heapEnd + 1, job'.p = f,
           tabs' = tabs, boot' = boot, heapEnd' = heapEnd + 1
    PROVE  HeapInv'
PROOF
<1>1. HeapBase \in Nat /\ heapEnd \in Nat /\ HeapTop \in Nat /\ HeapBase <= heapEnd
    BY Geometry DEF MInv, WalkInv, HeapInv
<1>2. HeapNow' = HeapNow \cup {heapEnd} /\ heapEnd \notin HeapNow
    BY <1>1 DEF HeapNow
<1>3. \A n \in HeapNow : ~ Waits(n) /\ ~ Waits(n)' /\ Translate(Split(n))' = Translate(Split(n))
    BY <1>2, NoCallNone DEF Waits, Translate, root
<1>4. ASSUME NEW n, n = heapEnd PROVE Waits(n)' /\ HeapFrame(n)' = f
    BY <1>1, <1>4 DEF Waits, HeapFrame
<1>5. \A n \in HeapNow : HeapFrame(n)' = HeapFrame(n)
    BY <1>3, Zenon DEF HeapFrame
<1>6. \A n \in HeapNow : Translate(Split(n))'.on /\ HeapFrame(n)' \in held
                         /\ HeapFrame(n)' \notin DOMAIN tabs
    BY <1>3, <1>5, Zenon DEF HeapInv
<1>7. \A n \in HeapNow' : /\ (Waits(n) \/ Translate(Split(n)).on)'
                          /\ HeapFrame(n)' \in held' /\ HeapFrame(n)' \notin DOMAIN tabs'
    BY <1>2, <1>4, <1>6
<1>8. \A n, k \in HeapNow' : HeapFrame(n)' = HeapFrame(k)' => n = k
    <2>1. SUFFICES ASSUME NEW n \in HeapNow', NEW k \in HeapNow', HeapFrame(n)' = HeapFrame(k)'
                   PROVE  n = k
        OBVIOUS
    <2>2. CASE n \in HeapNow /\ k \in HeapNow
        BY <1>5, <2>1, <2>2, Zenon DEF HeapInv
    <2>3. CASE n \in HeapNow /\ k = heapEnd
        BY <1>4, <1>6, <2>1, <2>3
    <2>4. CASE n = heapEnd /\ k \in HeapNow
        BY <1>4, <1>6, <2>1, <2>4
    <2>5. QED
        BY <1>2, <2>2, <2>3, <2>4
<1>9. HeapCall'
    BY <1>1 DEF HeapCall
<1>10. HeapBase <= heapEnd' /\ heapEnd' <= HeapTop
    BY <1>1
<1>11. QED
    BY <1>7, <1>8, <1>9, <1>10, SMTT(30) DEF HeapInv

-----------------------------------------------------------------------------
(* acpi_init(). *)

\* A step outside of the translations.
LEMMA ReadKept ==
    ASSUME MInv, ReadInv, \A v \in Page : Same(v), job' = job, boot' = boot,
           Needs' \subseteq Needs, pc = "up" => pc' = "up",
           acpi'.lapic \in Registers(fw), acpi'.ioapic \in Registers(fw)
    PROVE  ReadInv'
PROOF
<1>1. fw' = fw
    BY DEF fw
<1>2. ASSUME NEW r \in Needs', NEW n \in Direct(r) PROVE (Awaited(n) \/ Straight(n))'
    <2>1. r \in Needs /\ r \in Ranges(fw)
        BY <1>2 DEF Needs
    <2>2. Split(n) \in Page
        BY <2>1, LaidOut, SplitPage
    <2>3. Translate(Split(n))' = Translate(Split(n))
        BY <2>2 DEF Same
    <2>4. QED
        BY <2>1, <2>3, Zenon DEF ReadInv, Awaited, Straight
<1>3. (pc' # "up" /\ job' # NoCall) => FirmwareCall'
    BY <1>1, Zenon DEF ReadInv, FirmwareCall
<1>4. boot'.frames => pc' = "up"
    BY DEF ReadInv
<1>5. QED
    BY <1>1, <1>2, <1>3, <1>4, Zenon DEF ReadInv

\* After acpi_init(), nothing is asked.
LEMMA ReadUp ==
    ASSUME ReadInv, pc' = "up", boot' = boot, acpi' = acpi
    PROVE  ReadInv'
PROOF
<1>1. Needs' = {} /\ fw' = fw
    BY DEF Needs, fw
<1>2. QED
    BY <1>1, Zenon DEF ReadInv

\* The end of a call.
LEMMA ReadReturns ==
    ASSUME MInv, ReadInv, MapReturn, UNCHANGED bootVars
    PROVE  ReadInv'
PROOF
<1>1. /\ job # NoCall /\ job.v >= job.end /\ job' = NoCall /\ tabs' = tabs /\ boot' = boot
      /\ pc' = pc /\ idx' = idx /\ acpi' = acpi
    BY DEF MapReturn, bootVars
<1>2. job.v \in Nat /\ job.end \in Nat
    BY <1>1 DEF MInv, WalkInv, Calls
<1>3. Needs' = Needs /\ fw' = fw
    BY <1>1 DEF Needs, fw, Table
<1>4. ASSUME NEW r \in Needs, NEW n \in Direct(r) PROVE Straight(n)'
    <2>1. n \in Nat
        BY LaidOut DEF Needs
    <2>2. ~ Awaited(n)
        BY <1>1, <1>2, <2>1 DEF Awaited
    <2>3. Straight(n)
        BY <2>2, Zenon DEF ReadInv
    <2>4. QED
        BY <1>1, <2>3, Zenon DEF Straight, Translate, root
<1>5. QED
    BY <1>1, <1>3, <1>4, Zenon DEF ReadInv

\* vmm_map() writes the leaf of a page of the firmware's.
LEMMA ReadWritten ==
    ASSUME MInv, ReadInv, WriteLeaf, SpaceNext, UNCHANGED bootVars
    PROVE  ReadInv'
PROOF
<1>1. /\ job \in Calls
      /\ \A v \in Page : IF v = Split(job.v) THEN Translate(v)' = Small(job.p, job.flags)
                                             ELSE Same(v)
      /\ job'.op = "map" /\ job'.v = job.v + 1 /\ job'.end = job.end /\ job'.p = job.p + 1
      /\ boot' = boot /\ pc' = pc /\ idx' = idx /\ acpi' = acpi
      /\ job.op = "map" /\ job.v < job.end
    BY LeafTrans DEF WriteLeaf, Mapping, bootVars
<1>2. job.v \in Nat /\ job.end \in Nat /\ job.p \in Nat /\ Offset \in Int
    BY <1>1, DirectPage, SMTT(30), Zenon DEF Calls
<1>3. Needs' = Needs /\ fw' = fw
    BY <1>1 DEF Needs, fw, Table
<1>4. CASE pc = "up"
    BY <1>1, <1>4, ReadUp
<1>5. CASE pc # "up"
    <2>1. FirmwareCall
        BY <1>1, <1>5, NoCallNone DEF ReadInv
    <2>2. PICK s \in Ranges(fw) : \A n \in Nat : job.v <= n /\ n < job.end => n \in Direct(s)
        BY <2>1 DEF FirmwareCall
    <2>3. job.v \in Direct(s) /\ job.p = job.v - Offset
        BY <1>1, <1>2, <2>1, <2>2 DEF FirmwareCall
    <2>4. FirmwareCall'
        BY <1>1, <1>2, <1>3, <2>2, <2>3, SMTT(30) DEF FirmwareCall
    <2>5. ASSUME NEW r \in Needs, NEW n \in Direct(r) PROVE (Awaited(n) \/ Straight(n))'
        <3>1. n \in Nat /\ Split(n) \in Page /\ r \in Ranges(fw)
            BY LaidOut, SplitPage DEF Needs
        <3>2. CASE n = job.v
            <4>1. Translate(Split(n))' = Small(job.p, job.flags)
                BY <1>1, <3>1, <3>2, Zenon
            <4>2. Straight(n)'
                BY <2>3, <3>2, <4>1 DEF Straight, Small
            <4>3. QED
                BY <4>2
        <3>3. CASE n # job.v
            <4>1. Split(n) # Split(job.v)
                BY <2>3, <3>1, <3>3, LaidOut
            <4>2. Translate(Split(n))' = Translate(Split(n))
                BY <1>1, <3>1, <4>1, Zenon DEF Same
            <4>3. Awaited(n) => Awaited(n)'
                BY <1>1, <1>2, <3>1, <3>3, SMTT(30) DEF Awaited
            <4>4. QED
                BY <4>2, <4>3, Zenon DEF ReadInv, Straight
        <3>4. QED
            BY <3>2, <3>3, SMTT(30), Zenon
    <2>6. QED
        BY <1>1, <1>3, <2>4, <2>5, Zenon DEF ReadInv
<1>6. QED
    BY <1>4, <1>5

\* mmio_map() of the next range begins.
LEMMA ReadBegins ==
    ASSUME MInv, ReadInv, job = NoCall, NEW r \in Ranges(fw), job'.op = "map",
           job'.v = (Hhdm + r.phys) \div PageSize, job'.end = EndPage(Hhdm + r.phys, r.size),
           job'.p = r.phys \div PageSize, tabs' = tabs, boot' = boot, acpi' = acpi,
           ~ boot.frames, Needs' \subseteq Needs \cup {r}
    PROVE  ReadInv'
PROOF
<1>1. fw' = fw
    BY SMTT(30) DEF fw
<1>2. r.phys \in Nat /\ Direct(r) \subseteq Nat
    BY LaidOut
<1>3. /\ job'.p = job'.v - Offset /\ job'.v \in Nat /\ Offset \in Nat
    <2>1. r.phys \div PageSize \in Nat
        BY <1>2, Geometry
    <2>2. QED
        BY <1>2, <2>1, DirectPage, SMTT(30)
<1>4. job'.end \in Int
    <2>1. r.size \in Nat /\ Hhdm \in Nat /\ PageSize \in Nat /\ PageSize > 0
        BY LaidOut, Geometry
    <2>2. QED
        BY <1>2, <2>1, SMTT(30) DEF EndPage, CeilDiv
<1>5. \A n \in Nat : (job'.v <= n /\ n < job'.end) <=> n \in Direct(r)
    BY <1>3, <1>4 DEF Direct, Pages
<1>6. FirmwareCall'
    BY <1>1, <1>3, <1>5, Zenon DEF FirmwareCall
<1>7. ASSUME NEW s \in Needs', NEW n \in Direct(s) PROVE (Awaited(n) \/ Straight(n))'
    <2>1. CASE s = r
        BY <1>2, <1>5, <1>7, <2>1, SMTT(30) DEF Awaited
    <2>2. CASE s \in Needs
        <3>1. ~ Awaited(n)
            BY NoCallNone DEF Awaited
        <3>2. Straight(n)
            BY <1>7, <2>2, <3>1, Zenon DEF ReadInv
        <3>3. QED
            BY <3>2, Zenon DEF Straight, Translate, root
    <2>3. QED
        BY <1>7, <2>1, <2>2, SMTT(30)
<1>8. QED
    BY <1>1, <1>6, <1>7, Zenon DEF ReadInv

-----------------------------------------------------------------------------
(* Every step keeps both. *)

\* Steps that leave the tables and the call alone.
LEMMA UsersQuiet ==
    ASSUME MInv, HeapInv, ReadInv, tabs' = tabs, boot' = boot, job' = job, heapEnd' = heapEnd,
           held \subseteq held' \/ boot.frames, Needs' \subseteq Needs, pc = "up" => pc' = "up",
           acpi'.lapic \in Registers(fw), acpi'.ioapic \in Registers(fw)
    PROVE  HeapInv' /\ ReadInv'
PROOF
<1>1. \A v \in Page : Same(v)
    BY DEF Same, Translate, root
<1>2. QED
    BY <1>1, HeapKept, ReadKept, Zenon

\* ... and acpi_init() as well.
LEMMA UsersIdle ==
    ASSUME MInv, HeapInv, ReadInv, tabs' = tabs, boot' = boot, job' = job, heapEnd' = heapEnd,
           held \subseteq held' \/ boot.frames, UNCHANGED bootVars
    PROVE  HeapInv' /\ ReadInv'
PROOF
<1>1. pc' = pc /\ idx' = idx /\ acpi' = acpi
    BY SMTT(30) DEF bootVars
<1>2. Needs' = Needs
    BY <1>1 DEF Needs, fw, Table
<1>3. acpi'.lapic \in Registers(fw) /\ acpi'.ioapic \in Registers(fw)
    BY <1>1 DEF ReadInv
<1>4. QED
    BY <1>1, <1>2, <1>3, UsersQuiet, SMTT(30)

\* mmio_map() of a range off the heap begins.
LEMMA MapPhysBegins ==
    ASSUME MInv, HeapInv, NEW phys \in Nat, NEW span \in Nat, MapPhys(phys, span),
           OffHeap(Direct([phys |-> phys, size |-> span]))
    PROVE  /\ HeapInv' /\ job = NoCall /\ ~ boot.frames /\ tabs' = tabs /\ boot' = boot
           /\ job'.op = "map" /\ job'.v = (Hhdm + phys) \div PageSize
           /\ job'.end = EndPage(Hhdm + phys, span) /\ job'.p = phys \div PageSize
PROOF
<1>1. /\ job = NoCall /\ ~ boot.frames /\ tabs' = tabs /\ boot' = boot
      /\ job' = [op |-> "map", v |-> (Hhdm + phys) \div PageSize,
                 end |-> EndPage(Hhdm + phys, span), p |-> phys \div PageSize,
                 flags |-> {"W", "PCD"}]
      /\ heapEnd' = heapEnd /\ held' = held
    BY DEF MapPhys, MmioMap, VmmMap, Start, Idle, vars
<1>2. /\ job'.op = "map" /\ job'.v = (Hhdm + phys) \div PageSize
      /\ job'.end = EndPage(Hhdm + phys, span) /\ job'.p = phys \div PageSize
    BY <1>1, SMTT(30)
<1>3. (Hhdm + phys) \div PageSize \in Nat /\ EndPage(Hhdm + phys, span) \in Nat
    BY Geometry DEF EndPage, CeilDiv
<1>4. \A n \in Nat : (job'.v <= n /\ n < job'.end) => n \in Direct([phys |-> phys, size |-> span])
    BY <1>2, <1>3 DEF Direct, Pages
<1>5. OtherCall'
    BY <1>4 DEF OtherCall, OffHeap
<1>6. HeapInv'
    BY <1>1, <1>2, <1>3, <1>5, HeapBegins, SMTT(30)
<1>7. QED
    BY <1>1, <1>2, <1>6, SMTT(30)

\* A frame taken and mapped at once, at a page v.
LEMMA FreshBegins ==
    ASSUME MInv, NEW v \in Nat, NEW flags, MapFresh(v, flags), state' # "panic"
    PROVE  /\ job = NoCall /\ ~ boot.frames /\ tabs' = tabs /\ boot' = boot
           /\ NextFrame \notin held /\ NextFrame \notin DOMAIN tabs
           /\ held' = held \cup {NextFrame} /\ state' = "up"
           /\ job'.op = "map" /\ job'.v = v /\ job'.end = v + 1 /\ job'.p = NextFrame
PROOF
<1>1. Start("map", v * PageSize, NextFrame * PageSize, PageSize, flags)
    BY DEF MapFresh
<1>2. AllocPage /\ state = "up" /\ job = NoCall /\ ~ boot.frames
    BY DEF MapFresh, Idle
<1>3. Free # {} /\ held' = held \cup {NextFrame} /\ state' = "up"
    BY <1>2 DEF AllocPage
<1>4. NextFrame \in Nat /\ NextFrame \notin DOMAIN tabs /\ NextFrame \notin held
    BY <1>2, <1>3, FreshFrame, SMTT(30) DEF MInv
<1>5. /\ (v * PageSize) \div PageSize = v /\ EndPage(v * PageSize, PageSize) = v + 1
      /\ (NextFrame * PageSize) \div PageSize = NextFrame
    BY <1>4, OnePage, SMTT(30)
<1>6. /\ tabs' = tabs /\ boot' = boot
      /\ job' = [op |-> "map", v |-> v, end |-> v + 1, p |-> NextFrame, flags |-> flags]
    BY <1>1, <1>5 DEF Start
<1>7. QED
    BY <1>2, <1>3, <1>4, <1>6

\* A panic while a frame is taken.
LEMMA FreshPanics ==
    ASSUME NEW v, NEW flags, MapFresh(v, flags), state' = "panic", heapEnd' = heapEnd
    PROVE  /\ tabs' = tabs /\ boot' = boot /\ job' = job /\ heapEnd' = heapEnd
           /\ held \subseteq held'
BY DEF MapFresh, AllocPage

\* The steps of vmm_map() and vmm_unmap().
LEMMA UsersMap ==
    ASSUME MInv, HeapInv, ReadInv, SpaceNext, MapStep, UNCHANGED bootVars
    PROVE  HeapInv' /\ ReadInv'
PROOF
<1>1. CASE AddTable
    <2>1. /\ boot' = boot /\ job' = job /\ heapEnd' = heapEnd /\ state = "up" /\ AllocPage
          /\ job.op = "map"
        BY <1>1 DEF AddTable, Mapping
    <2>2. held \subseteq held'
        BY <2>1 DEF AllocPage
    <2>3. CASE state' = "panic"
        <3>1. tabs' = tabs
            BY <1>1, <2>3 DEF AddTable
        <3>2. QED
            BY <2>1, <2>2, <3>1, UsersIdle, SMTT(30), Zenon
    <2>4. CASE state' # "panic"
        <3>1. state' = "up" /\ Free # {}
            BY <2>1, <2>4 DEF AllocPage
        <3>2. NextFrame \notin held
            BY <2>1, <3>1, FreshFrame, SMTT(30) DEF MInv
        <3>3. DOMAIN tabs' = DOMAIN tabs \cup {NextFrame}
            BY <1>1, <2>4 DEF AddTable, Grow, SetEntry
        <3>4. job \in Calls
            BY <2>1, NoCallNone, Zenon DEF MInv, WalkInv
        <3>5. \A v \in Page : Same(v)
            BY <2>1, <3>1, <3>4, CallStays, SMTT(30), Zenon
        <3>6. HeapInv'
            BY <2>1, <2>2, <3>2, <3>3, <3>5, HeapKept, SMTT(30), Zenon
        <3>7. pc' = pc /\ acpi' = acpi /\ Needs' = Needs
            BY <2>1 DEF bootVars, Needs, fw, Table
        <3>8. acpi'.lapic \in Registers(fw) /\ acpi'.ioapic \in Registers(fw)
            BY <3>7 DEF ReadInv
        <3>9. ReadInv'
            BY <2>1, <3>5, <3>7, <3>8, ReadKept, SMTT(30), Zenon
        <3>10. QED
            BY <3>6, <3>9
    <2>5. QED
        BY <2>3, <2>4, SMTT(30)
<1>2. CASE DownTable \/ HugePanic
    <2>1. tabs' = tabs /\ boot' = boot /\ job' = job /\ heapEnd' = heapEnd /\ held' = held
        BY <1>2 DEF DownTable, HugePanic, vars, walkVars
    <2>2. QED
        BY <2>1, UsersIdle, SMTT(30), Zenon
<1>3. CASE WriteLeaf
    BY <1>3, HeapWritten, ReadWritten
<1>4. CASE UnmapPage
    <2>1. job.op = "unmap" /\ boot' = boot /\ pc' = pc /\ acpi' = acpi
        BY <1>4 DEF UnmapPage, bootVars
    <2>2. pc = "up"
        BY <2>1, NoCallNone DEF ReadInv, FirmwareCall
    <2>3. QED
        BY <1>4, <2>1, <2>2, HeapUnmapped, ReadUp, SMTT(30), Zenon
<1>5. CASE MapReturn
    BY <1>5, HeapReturns, ReadReturns
<1>6. QED
    BY <1>1, <1>2, <1>3, <1>4, <1>5, SMTT(30), Zenon DEF MapStep

\* The registers a table names
LEMMA TableRegisters ==
    ASSUME NEW f, NEW i \in DOMAIN f.tables
    PROVE  /\ f.tables[i].lapic \in Registers(f)
           /\ \A k \in DOMAIN f.tables[i].entries : f.tables[i].entries[k].addr \in Registers(f)
PROOF
<1>1. f.tables[i].lapic \in Registers(f)
    BY Zenon DEF Registers
<1>2. ASSUME NEW k \in DOMAIN f.tables[i].entries PROVE f.tables[i].entries[k].addr \in Registers(f)
    <2> DEFINE Addresses(j) == {f.tables[j].entries[e].addr : e \in DOMAIN f.tables[j].entries}
    <2>1. f.tables[i].entries[k].addr \in Addresses(i)
        BY Zenon
    <2>2. Addresses(i) \in {Addresses(j) : j \in DOMAIN f.tables}
        BY Zenon
    <2>3. Registers(f) = {Defaults.lapic, Defaults.ioapic} \cup {f.tables[j].lapic : j \in DOMAIN f.tables}
                         \cup UNION {Addresses(j) : j \in DOMAIN f.tables}
        BY Zenon DEF Registers
    <2> HIDE DEF Addresses
    <2>4. f.tables[i].entries[k].addr \in UNION {Addresses(j) : j \in DOMAIN f.tables}
        BY <2>1, <2>2, Zenon
    <2> QED
        BY <2>3, <2>4, Zenon
<1>3. QED
    BY <1>1, <1>2

\* The steps of acpi_init().
LEMMA UsersAcpi ==
    ASSUME MInv, HeapInv, ReadInv, AcpiStep
    PROVE  HeapInv' /\ ReadInv'
PROOF
<1>1. /\ pc \in {"header", "table"} => idx \in DOMAIN fw.tables
      /\ idx <= EntryCount => idx \in DOMAIN fw.tables
    BY FirmwareOK DEF MInv, BootOK
<1>2. \A i \in DOMAIN fw.tables : fw.tables[i] \in Tables
    <2>1. fw.tables \in Seq(Tables)
        BY BootAssumption DEF MInv, WalkInv, fw, Firmware
    <2>2. QED
        BY <2>1, SMTT(30), Zenon
<1>3. CASE NoRsdp \/ NoMadt \/ ReadTable
    <2>1. tabs' = tabs /\ boot' = boot /\ job' = job /\ heapEnd' = heapEnd /\ held' = held
        BY <1>3 DEF NoRsdp, NoMadt, ReadTable, vars, walkVars
    <2>2. fw' = fw
        BY <2>1 DEF fw
    <2>3. pc \in {"rsdp", "entry", "table"} /\ pc' \in {"done", "entry"}
          /\ (pc' = "entry" => pc = "table")
        BY <1>3, SMTT(30), Zenon DEF NoRsdp, NoMadt, ReadTable, At, GoTo
    <2>4. Needs' \subseteq Needs
        BY <2>2, <2>3 DEF Needs
    <2>5. acpi'.lapic \in Registers(fw) /\ acpi'.ioapic \in Registers(fw)
        <3>1. CASE acpi' = acpi
            BY <3>1, SMTT(30) DEF ReadInv
        <3>2. CASE acpi' # acpi
            <4>1. acpi' = Parsed(Table) /\ idx \in DOMAIN fw.tables
                BY <1>1, <1>3, <3>2 DEF NoRsdp, NoMadt, ReadTable, GoTo, At
            <4>2. Table \in Tables
                BY <1>2, <4>1, SMTT(30) DEF Table
            <4>3. /\ acpi'.lapic = Table.lapic
                  /\ \/ acpi'.ioapic = acpi.ioapic
                     \/ \E k \in DOMAIN Table.entries : acpi'.ioapic = Table.entries[k].addr
                BY <4>1, <4>2, ParsedOK
            <4>4. /\ Table.lapic \in Registers(fw)
                  /\ \A k \in DOMAIN Table.entries : Table.entries[k].addr \in Registers(fw)
                BY <4>1, TableRegisters, Zenon DEF Table
            <4>5. QED
                BY <4>3, <4>4, Zenon DEF ReadInv
        <3>3. QED
            BY <3>1, <3>2, Zenon
    <2>6. QED
        BY <2>1, <2>3, <2>4, <2>5, UsersQuiet, SMTT(30), Zenon
<1>4. ASSUME NEW phys, NEW size, [phys |-> phys, size |-> size] \in Ranges(fw),
             MapPhys(phys, size), acpi' = acpi,
             fw' = fw => Needs' \subseteq Needs \cup {[phys |-> phys, size |-> size]}
      PROVE  HeapInv' /\ ReadInv'
    <2> DEFINE r == [phys |-> phys, size |-> size]
    <2>1. r.phys = phys /\ r.size = size
        BY SMTT(30)
    <2>2. phys \in Nat /\ size \in Nat /\ OffHeap(Direct(r))
        BY <1>4, <2>1, LaidOut, SMTT(30), Zenon
    <2>3. /\ HeapInv' /\ job = NoCall /\ ~ boot.frames /\ tabs' = tabs /\ boot' = boot
          /\ job'.op = "map" /\ job'.v = (Hhdm + phys) \div PageSize
          /\ job'.end = EndPage(Hhdm + phys, size) /\ job'.p = phys \div PageSize
        BY <1>4, <2>2, MapPhysBegins, SMTT(30), Zenon
    <2>4. Needs' \subseteq Needs \cup {r}
        BY <1>4, <2>3, SMTT(30), Zenon DEF fw
    <2> HIDE DEF r
    <2>5. ReadInv'
        BY <1>4, <2>1, <2>3, <2>4, ReadBegins, SMTT(30) DEF r
    <2>6. QED
        BY <2>3, <2>5
<1>5. CASE MapRsdp
    <2>1. MapPhys(fw.rsdp, RsdpSize) /\ pc' = "root" /\ acpi' = acpi
        BY <1>5, SMTT(30), Zenon DEF MapRsdp, GoTo
    <2>2. [phys |-> fw.rsdp, size |-> RsdpSize] \in Ranges(fw)
        BY SMTT(30), Zenon DEF Ranges
    <2>3. fw' = fw => Needs' \subseteq Needs \cup {[phys |-> fw.rsdp, size |-> RsdpSize]}
        BY <2>1, SMTT(30) DEF Needs
    <2>4. QED
        BY <1>4, <2>1, <2>2, <2>3, Zenon
<1>6. CASE MapRootHeader
    <2>1. MapPhys(fw.root, HeaderSize) /\ pc' = "length" /\ acpi' = acpi
        BY <1>6, SMTT(30), Zenon DEF MapRootHeader, GoTo
    <2>2. [phys |-> fw.root, size |-> HeaderSize] \in Ranges(fw)
        BY SMTT(30), Zenon DEF Ranges
    <2>3. fw' = fw => Needs' \subseteq Needs \cup {[phys |-> fw.root, size |-> HeaderSize]}
        BY <2>1, SMTT(30) DEF Needs
    <2>4. QED
        BY <1>4, <2>1, <2>2, <2>3, Zenon
<1>7. CASE MapRoot
    <2>1. MapPhys(fw.root, fw.length) /\ pc' = "entry" /\ acpi' = acpi
        BY <1>7, SMTT(30), Zenon DEF MapRoot, GoTo
    <2>2. [phys |-> fw.root, size |-> fw.length] \in Ranges(fw)
        BY SMTT(30), Zenon DEF Ranges
    <2>3. fw' = fw => Needs' \subseteq Needs \cup {[phys |-> fw.root, size |-> fw.length]}
        BY <2>1, SMTT(30) DEF Needs
    <2>4. QED
        BY <1>4, <2>1, <2>2, <2>3, Zenon
<1>8. CASE MapHeader
    <2>1. /\ MapPhys(Table.phys, HeaderSize) /\ pc = "entry" /\ pc' = "header" /\ acpi' = acpi
          /\ idx' = idx /\ idx \in DOMAIN fw.tables
        BY <1>1, <1>8, SMTT(30), Zenon DEF MapHeader, GoTo, At
    <2>2. [phys |-> Table.phys, size |-> HeaderSize] \in Ranges(fw)
        BY <2>1, SMTT(30), Zenon DEF Ranges, Table
    <2>3. fw' = fw => Needs' \subseteq Needs \cup {[phys |-> Table.phys, size |-> HeaderSize]}
        BY <2>1, SMTT(30) DEF Needs, Table
    <2>4. QED
        BY <1>4, <2>1, <2>2, <2>3, Zenon
<1>9. CASE MapTable
    <2>1. /\ MapPhys(Table.phys, Table.length) /\ pc = "header" /\ pc' = "table" /\ acpi' = acpi
          /\ idx' = idx /\ idx \in DOMAIN fw.tables
        BY <1>1, <1>9, SMTT(30), Zenon DEF MapTable, GoTo, At
    <2>2. [phys |-> Table.phys, size |-> Table.length] \in Ranges(fw)
        BY <2>1, SMTT(30), Zenon DEF Ranges, Table
    <2>3. fw' = fw => Needs' \subseteq Needs \cup {[phys |-> Table.phys, size |-> Table.length]}
        BY <2>1 DEF Needs, Table
    <2>4. QED
        BY <1>4, <2>1, <2>2, <2>3, Zenon
<1>10. QED
    BY <1>3, <1>5, <1>6, <1>7, <1>8, <1>9, SMTT(30), Zenon DEF AcpiStep

\* Every step keeps the heap's frames and what acpi_init() has mapped.
LEMMA UsersStep ==
    ASSUME MInv, HeapInv, ReadInv, MemoryNext
    PROVE  HeapInv' /\ ReadInv'
PROOF
<1>1. SpaceNext
    BY MemoryStep
<1>2. CASE (StartMemory \/ \E v \in Cached : TlbFill(v)) /\ UNCHANGED bootVars
    <2>1. tabs' = tabs /\ boot' = boot /\ job' = job /\ heapEnd' = heapEnd /\ held' = held
        BY <1>2 DEF StartMemory, PmmInit, TlbFill, vars, walkVars
    <2>2. QED
        BY <1>2, <2>1, UsersIdle, SMTT(30), Zenon
<1>3. CASE MapStep /\ UNCHANGED bootVars
    BY <1>1, <1>3, UsersMap
<1>4. CASE AcpiStep
    BY <1>4, UsersAcpi
<1>5. CASE LapicInit \/ IoapicInit \/ \E d \in Devices : MapDevice(d)
    <2>1. PageSize \in Nat /\ acpi.lapic \in Nat /\ acpi.ioapic \in Nat
        BY Geometry DEF MInv, BootOK
    <2>2. PICK phys \in Nat, span \in Nat :
              MapPhys(phys, span) /\ OffHeap(Direct([phys |-> phys, size |-> span]))
        <3>1. CASE LapicInit
            BY <2>1, <3>1, LaidOut, Zenon DEF LapicInit, ReadInv
        <3>2. CASE IoapicInit
            BY <2>1, <3>2, LaidOut, Zenon DEF IoapicInit, ReadInv
        <3>3. ASSUME NEW d \in Devices, MapDevice(d)
              PROVE  \E phys \in Nat, span \in Nat :
                         MapPhys(phys, span) /\ OffHeap(Direct([phys |-> phys, size |-> span]))
            <4>1. d.phys \in Nat /\ d.size \in Nat /\ MapPhys(d.phys, d.size)
                BY <3>3, HeapAlone, Zenon DEF MapDevice
            <4>2. Direct([phys |-> d.phys, size |-> d.size]) = Direct(d)
                BY DEF Direct
            <4>3. QED
                BY <4>1, <4>2, HeapAlone, Zenon
        <3>4. QED
            BY <1>5, <3>1, <3>2, <3>3, Zenon
    <2>3. HeapInv' /\ boot' = boot
        BY <2>2, MapPhysBegins, SMTT(30)
    <2>4. pc' = "up" /\ acpi' = acpi
        BY <1>5 DEF LapicInit, IoapicInit, MapDevice, GoTo, At, bootVars
    <2>5. QED
        BY <2>3, <2>4, ReadUp, SMTT(30)
<1>6. CASE HeapGrow
    <2>1. /\ MapFresh(heapEnd, {"W"}) /\ UNCHANGED bootVars /\ pc = "up" /\ heapEnd < HeapTop
          /\ heapEnd' = (IF state' = "up" THEN heapEnd + 1 ELSE heapEnd) /\ heapEnd \in Nat
        BY <1>6 DEF HeapGrow, GrowPage, At, MInv, WalkInv
    <2>2. CASE state' = "panic"
        BY <2>1, <2>2, FreshPanics, UsersIdle
    <2>3. CASE state' # "panic"
        <3>1. /\ job = NoCall /\ ~ boot.frames /\ tabs' = tabs /\ boot' = boot
              /\ NextFrame \notin held /\ NextFrame \notin DOMAIN tabs
              /\ held' = held \cup {NextFrame} /\ state' = "up"
              /\ job'.op = "map" /\ job'.v = heapEnd /\ job'.end = heapEnd + 1
              /\ job'.p = NextFrame
            BY <2>1, <2>3, FreshBegins, SMTT(30), Zenon
        <3>2. HeapInv'
            BY <2>1, <3>1, HeapGrows
        <3>3. ReadInv'
            BY <2>1, <3>1, ReadUp DEF bootVars
        <3>4. QED
            BY <3>2, <3>3, SMTT(30), Zenon
    <2>4. QED
        BY <2>2, <2>3, SMTT(30), Zenon
<1>7. ASSUME NEW u \in UserPages, UserPage(u) PROVE HeapInv' /\ ReadInv'
    <2>1. /\ MapFresh(u.page, u.flags) /\ UNCHANGED bootVars /\ pc = "up" /\ heapEnd' = heapEnd
          /\ u.page \in Nat /\ OffHeap({u.page})
        <3>1. /\ MapFresh(u.page, u.flags) /\ UNCHANGED bootVars /\ pc = "up"
              /\ heapEnd' = heapEnd
            BY <1>7, SMTT(30) DEF UserPage, At
        <3>2. QED
            BY <3>1, HeapAlone, Zenon
    <2>2. CASE state' = "panic"
        BY <2>1, <2>2, FreshPanics, UsersIdle
    <2>3. CASE state' # "panic"
        <3>1. /\ job = NoCall /\ tabs' = tabs /\ boot' = boot /\ held \subseteq held'
              /\ job'.op = "map" /\ job'.v = u.page /\ job'.end = u.page + 1
            BY <2>1, <2>3, FreshBegins
        <3>2. OtherCall'
            BY <2>1, <3>1 DEF OtherCall, OffHeap
        <3>3. HeapInv'
            BY <2>1, <3>1, <3>2, HeapBegins, SMTT(30), Zenon
        <3>4. ReadInv'
            BY <2>1, <3>1, ReadUp, SMTT(30) DEF bootVars
        <3>5. QED
            BY <3>3, <3>4, SMTT(30), Zenon
    <2>4. QED
        BY <2>2, <2>3, SMTT(30)
<1>8. ASSUME NEW u \in Unmaps, Unmap(u) PROVE HeapInv' /\ ReadInv'
    <2>1. /\ Start("unmap", u.virt, 0, u.size, {}) /\ UNCHANGED bootVars /\ pc = "up"
          /\ heapEnd' = heapEnd /\ held' = held
          /\ u.virt \in Nat /\ u.size \in Nat /\ OffHeap(Pages(u.virt, u.size))
        <3>1. /\ Start("unmap", u.virt, 0, u.size, {}) /\ UNCHANGED bootVars /\ pc = "up"
              /\ heapEnd' = heapEnd /\ held' = held
            BY <1>8, SMTT(30), Zenon DEF Unmap, VmmUnmap, At, vars
        <3>2. QED
            BY <3>1, HeapAlone, Zenon
    <2>2. /\ job = NoCall /\ tabs' = tabs /\ boot' = boot /\ job'.op = "unmap"
          /\ job'.v = u.virt \div PageSize /\ job'.end = EndPage(u.virt, u.size)
        BY <2>1, SMTT(30) DEF Start, Idle
    <2>3. u.virt \div PageSize \in Nat /\ EndPage(u.virt, u.size) \in Nat
        BY <2>1, Geometry DEF EndPage, CeilDiv
    <2>4. \A n \in Nat : (job'.v <= n /\ n < job'.end) => n \in Pages(u.virt, u.size)
        BY <2>2, <2>3 DEF Pages
    <2>5. OtherCall'
        BY <2>1, <2>4, SMTT(30), Zenon DEF OtherCall, OffHeap
    <2>6. HeapInv'
        BY <2>1, <2>2, <2>3, <2>5, HeapBegins, SMTT(30), Zenon
    <2>7. ReadInv'
        BY <2>1, <2>2, ReadUp DEF bootVars
    <2>8. QED
        BY <2>6, <2>7
<1>9. CASE DriverPages
    <2>1. UNCHANGED walkVars /\ UNCHANGED bootVars
        BY <1>9 DEF DriverPages
    <2>2. held \subseteq held' \/ boot.frames
        BY <1>9 DEF DriverPages, AllocContig
    <2>3. tabs' = tabs /\ boot' = boot /\ job' = job /\ heapEnd' = heapEnd
        BY <2>1 DEF walkVars
    <2>4. QED
        BY <2>1, <2>2, <2>3, UsersIdle
<1>10. QED
    BY <1>2, <1>3, <1>4, <1>5, <1>6, <1>7, <1>8, <1>9, Zenon DEF MemoryNext

\* Both hold before the memory is set up.
LEMMA UsersStart == ASSUME BootInit PROVE HeapInv /\ ReadInv
PROOF
<1>1. heapEnd = HeapBase /\ job = NoCall /\ acpi = Defaults /\ boot \in Boots
      /\ pc = (IF boot.frames THEN "up" ELSE "rsdp")
    BY SMTT(30) DEF BootInit, VmmInit
<1>2. HeapNow = {} /\ HeapBase <= HeapBase /\ HeapBase <= HeapTop
    BY <1>1, Geometry DEF HeapNow
<1>3. HeapInv
    BY <1>1, <1>2, SMTT(30), Zenon DEF HeapInv
<1>4. Needs = {}
    BY <1>1, SMTT(30), Zenon DEF Needs
<1>5. ReadInv
    BY <1>1, <1>4 DEF ReadInv, Registers
<1>6. QED
    BY <1>3, <1>5

\* Steps that change nothing.
LEMMA UsersStutter ==
    ASSUME MInv, HeapInv, ReadInv, UNCHANGED memoryVars
    PROVE  HeapInv' /\ ReadInv'
PROOF
<1>1. UNCHANGED vars /\ UNCHANGED walkVars /\ UNCHANGED bootVars
    BY SMTT(30) DEF memoryVars
<1>2. tabs' = tabs /\ boot' = boot /\ job' = job /\ heapEnd' = heapEnd /\ held' = held
    BY <1>1 DEF vars, walkVars
<1>3. QED
    BY <1>1, <1>2, UsersIdle

\* What is read is what has been asked for, and between calls that is mapped.
LEMMA ReadsCovered ==
    ASSUME MInv, ReadInv
    PROVE  ReadsMapped
PROOF
<1>1. SUFFICES ASSUME state = "up", job = NoCall, NEW b \in Reads
               PROVE  /\ Translate(Split((Hhdm + b) \div PageSize)).on
                      /\ Translate(Split((Hhdm + b) \div PageSize)).frame = b \div PageSize
    BY Zenon DEF ReadsMapped
<1>2. PICK r \in Needs : b \in Span(r.phys, r.size)
    <2>1. pc \in {"header", "table"} => idx \in DOMAIN fw.tables
        BY DEF MInv, BootOK
    <2>2. pc \in {"root", "length", "entry", "header", "table"}
        BY <1>1, Zenon DEF Reads
    <2>3. CASE pc = "root"
        <3>1. [phys |-> fw.rsdp, size |-> RsdpSize] \in Needs
            BY <2>3 DEF Needs, Ranges
        <3>2. b \in Span(fw.rsdp, RsdpSize)
            BY <1>1, <2>3 DEF Reads
        <3>3. QED
            BY <3>1, <3>2, SMTT(30), Zenon
    <2>4. CASE pc = "length"
        <3>1. [phys |-> fw.root, size |-> HeaderSize] \in Needs
            BY <2>4 DEF Needs, Ranges
        <3>2. b \in Span(fw.root, HeaderSize)
            BY <1>1, <2>4, SMTT(30) DEF Reads
        <3>3. QED
            BY <3>1, <3>2, SMTT(30), Zenon
    <2>5. CASE pc = "entry"
        <3>1. [phys |-> fw.root, size |-> fw.length] \in Needs
            BY <2>5 DEF Needs, Ranges
        <3>2. b \in Span(fw.root, fw.length)
            BY <1>1, <2>5 DEF Reads
        <3>3. QED
            BY <3>1, <3>2, SMTT(30), Zenon
    <2>6. CASE pc = "header"
        <3>1. [phys |-> Table.phys, size |-> HeaderSize] \in Needs
            BY <2>1, <2>6 DEF Needs, Ranges, Table
        <3>2. b \in Span(Table.phys, HeaderSize)
            BY <1>1, <2>6 DEF Reads
        <3>3. QED
            BY <3>1, <3>2, SMTT(30), Zenon
    <2>7. CASE pc = "table"
        <3>1. [phys |-> Table.phys, size |-> Table.length] \in Needs
            BY <2>1, <2>7 DEF Needs, Ranges, Table
        <3>2. b \in Span(Table.phys, Table.length)
            BY <1>1, <2>7, SMTT(30), Zenon DEF Reads
        <3>3. QED
            BY <3>1, <3>2, SMTT(30), Zenon
    <2>8. QED
        BY <2>2, <2>3, <2>4, <2>5, <2>6, <2>7, SMTT(30), Zenon
<1>3. r \in Ranges(fw) /\ r.phys \in Nat /\ r.size \in Nat
    BY LaidOut, SMTT(30), Zenon DEF Needs
<1>4. (Hhdm + b) \div PageSize \in Direct(r)
    <2>1. Direct([phys |-> r.phys, size |-> r.size]) = Direct(r)
        BY DEF Direct
    <2>2. QED
        BY <1>2, <1>3, <2>1, ByteOnPage, SMTT(30), Zenon
<1>5. Straight((Hhdm + b) \div PageSize)
    <2>1. ~ Awaited((Hhdm + b) \div PageSize)
        BY <1>1, NoCallNone DEF Awaited
    <2>2. QED
        BY <1>4, <2>1, Zenon DEF ReadInv
<1>6. b \in Nat
    BY <1>2, <1>3, SMTT(30) DEF Span
<1>7. b \div PageSize \in Nat
    BY <1>6, Geometry
<1>8. (Hhdm + b) \div PageSize - Offset = b \div PageSize
    BY <1>6, <1>7, DirectPage
<1>9. QED
    BY <1>5, <1>8 DEF Straight

\* Between calls every page of the heap is mapped, to a frame of its own that is no page
\* table, whatever else is mapped and unmapped between the growths of the heap.
THEOREM HeapPagesApart == MemorySpec => []HeapPagesOwn
PROOF
<1>1. MInv /\ HeapInv /\ ReadInv /\ [MemoryNext]_memoryVars => MInv' /\ HeapInv' /\ ReadInv'
    BY MemoryStep, MemoryStutter, UsersStep, UsersStutter
<1>2. HeapInv => HeapPagesOwn
    <2>1. SUFFICES ASSUME HeapInv, state = "up", job = NoCall PROVE HeapPagesOwn
        BY Zenon DEF HeapPagesOwn
    <2>2. \A n \in HeapNow : ~ Waits(n)
        BY <2>1, NoCallNone DEF Waits
    <2>3. \A n \in HeapNow : /\ HeapFrame(n) = Translate(Split(n)).frame /\ Translate(Split(n)).on
                             /\ HeapFrame(n) \notin DOMAIN tabs
        BY <2>1, <2>2, Zenon DEF HeapInv, HeapFrame
    <2>4. \A n, k \in HeapNow : HeapFrame(n) = HeapFrame(k) => n = k
        BY <2>1 DEF HeapInv
    <2>5. QED
        BY <2>3, <2>4, Zenon DEF HeapPagesOwn, HeapNow
<1>3. QED
    BY <1>1, <1>2, MemoryStarts, UsersStart, PTL DEF MemorySpec, memoryVars

\* acpi_init() reads no byte of a firmware table that is not mapped, at its place,
\* wherever the tables lie and however long they are.
THEOREM TablesMappedFirst == MemorySpec => []ReadsMapped
PROOF
<1>1. MInv /\ HeapInv /\ ReadInv /\ [MemoryNext]_memoryVars => MInv' /\ HeapInv' /\ ReadInv'
    BY MemoryStep, MemoryStutter, UsersStep, UsersStutter
<1>2. MInv /\ ReadInv => ReadsMapped
    BY ReadsCovered
<1>3. QED
    BY <1>1, <1>2, MemoryStarts, UsersStart, PTL DEF MemorySpec, memoryVars

=============================================================================
