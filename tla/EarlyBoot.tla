------------------------------ MODULE EarlyBoot ------------------------------
(***************************************************************************)
(* The users of the page tables at boot: acpi_init(), which maps each      *)
(* firmware table before it reads it, lapic_init(), and then heap growth   *)
(* and the drivers' mappings in any order.                                 *)
(*                                                                         *)
(* The firmware of a machine is a record: where its tables are, how long,  *)
(* and for each whether it is the MADT.  Addresses are in bytes.           *)
(***************************************************************************)
EXTENDS Vmm

CONSTANTS Hhdm,       \* hhdm_off(), in bytes
          RsdpSize,   \* sizeof(struct rsdp_v2)
          HeaderSize, \* sizeof(struct sdt_header)
          EntrySize,  \* revision -> bytes of an entry of the root table
          UserPages,  \* [page, flags] at USER_CODE_VA and USER_STACK_VA
          Devices,    \* [phys, size] of the device registers mapped by drivers
          Unmaps,     \* [virt, size] of vmm_unmap(), which has no caller yet
          Defaults    \* acpi, as initialised: [lapic, ioapic, gsi, cpus]

\* What the firmware hands over, as far as acpi_init() reads it; the root table has as
\* many entries as its length says.
MadtEntries == [type : Nat, length : Nat, on : BOOLEAN, addr : Nat, gsi : Nat]
Tables == [phys : Nat, length : Nat, madt : BOOLEAN, lapic : Nat, entries : Seq(MadtEntries)]
Firmware == [present : BOOLEAN, revision : Nat, rsdp : Nat, root : Nat, length : Nat,
             tables : Seq(Tables)]

ASSUME BootAssumption ==
    /\ \A b \in Boots :
        /\ b.firmware \in Firmware /\ b.frames \in BOOLEAN
        /\ EntrySize[b.firmware.revision] \in Nat \ {0} /\ b.firmware.length >= HeaderSize
        /\ (b.firmware.length - HeaderSize) \div EntrySize[b.firmware.revision]
              <= Len(b.firmware.tables)
    /\ Hhdm \in Nat /\ RsdpSize \in Nat /\ HeaderSize \in Nat
    /\ \A u \in UserPages : u.page \in Nat /\ u.flags \in SUBSET Flag
    /\ \A d \in Devices : d.phys \in Nat /\ d.size \in Nat
    /\ \A u \in Unmaps : u.virt \in Nat /\ u.size \in Nat
    /\ Defaults.lapic \in Nat /\ Defaults.ioapic \in Nat

\* The physical ranges and registers of a machine that are mapped in the direct map.
Ranges(f) ==
    {[phys |-> f.rsdp, size |-> RsdpSize], [phys |-> f.root, size |-> HeaderSize],
     [phys |-> f.root, size |-> f.length]}
    \cup {[phys |-> f.tables[i].phys, size |-> HeaderSize] : i \in DOMAIN f.tables}
    \cup {[phys |-> f.tables[i].phys, size |-> f.tables[i].length] : i \in DOMAIN f.tables}
Registers(f) ==
    {Defaults.lapic, Defaults.ioapic} \cup {f.tables[i].lapic : i \in DOMAIN f.tables}
    \cup UNION {{f.tables[i].entries[k].addr : k \in DOMAIN f.tables[i].entries} :
                   i \in DOMAIN f.tables}

\* The pages of a range of bytes, and of one in the direct map.
Pages(virt, size) == virt \div PageSize .. EndPage(virt, size) - 1
Direct(r) == Pages(Hhdm + r.phys, r.size)
HeapPages == HeapBase .. HeapTop - 1

\* No page of the heap is one of these, by its indices.
OffHeap(ns) == \A n \in ns, k \in HeapPages : Split(n) # Split(k)

\* The address space: the direct map starts at a page, its pages differ, and so do those
\* of the heap, which has its addresses for itself.
ASSUME LayoutAssumption ==
    /\ Hhdm % PageSize = 0
    /\ \A n, k \in HeapPages : Split(n) = Split(k) => n = k
    /\ \A b \in Boots :
        /\ \A r, s \in Ranges(b.firmware) : \A n \in Direct(r), k \in Direct(s) :
               Split(n) = Split(k) => n = k
        /\ \A r \in Ranges(b.firmware) : OffHeap(Direct(r))
        /\ \A a \in Registers(b.firmware) : OffHeap(Direct([phys |-> a, size |-> PageSize]))
    /\ \A d \in Devices : OffHeap(Direct(d))
    /\ \A u \in UserPages : OffHeap({u.page})
    /\ \A u \in Unmaps : OffHeap(Pages(u.virt, u.size))

VARIABLES pc,   \* the step acpi_init() is at
          idx,  \* the table it is at
          acpi  \* struct acpi_info

bootVars == <<pc, idx, acpi>>

fw == boot.firmware

BootInit == VmmInit /\ pc = (IF boot.frames THEN "up" ELSE "rsdp") /\ idx = 1 /\ acpi = Defaults

-----------------------------------------------------------------------------
(* acpi_init(): each step reads what the last one mapped and maps the next. *)

MapPhys(phys, span) == MmioMap(Hhdm + phys, phys, span)

At(p) == state = "up" /\ job = NoCall /\ pc = p
GoTo(p) == pc' = p /\ UNCHANGED <<idx, acpi>>

NoRsdp == At("rsdp") /\ ~fw.present /\ GoTo("done") /\ UNCHANGED <<vars, walkVars>>
MapRsdp == At("rsdp") /\ fw.present /\ MapPhys(fw.rsdp, RsdpSize) /\ GoTo("root")
MapRootHeader == At("root") /\ MapPhys(fw.root, HeaderSize) /\ GoTo("length")
MapRoot == At("length") /\ MapPhys(fw.root, fw.length) /\ GoTo("entry")

EntryCount == (fw.length - HeaderSize) \div EntrySize[fw.revision]
Table == fw.tables[idx]

MapHeader ==
    At("entry") /\ idx <= EntryCount /\ MapPhys(Table.phys, HeaderSize) /\ GoTo("header")
MapTable == At("header") /\ MapPhys(Table.phys, Table.length) /\ GoTo("table")

\* parse_madt(): up to an entry of length 0, local APICs that are enabled are counted
\* and the last I/O APIC stays.
Parsed(t) ==
    LET live == {k \in DOMAIN t.entries : \A m \in 1 .. k : t.entries[m].length # 0}
        ios == {k \in live : t.entries[k].type = 1}
        last == CHOOSE k \in ios : \A m \in ios : m <= k
    IN [lapic |-> t.lapic,
        cpus |-> Cardinality({k \in live : t.entries[k].type = 0 /\ t.entries[k].on}),
        ioapic |-> IF ios = {} THEN acpi.ioapic ELSE t.entries[last].addr,
        gsi |-> IF ios = {} THEN acpi.gsi ELSE t.entries[last].gsi]

ReadTable ==
    /\ At("table")
    /\ IF Table.madt THEN pc' = "done" /\ acpi' = Parsed(Table) /\ UNCHANGED idx
       ELSE pc' = "entry" /\ idx' = idx + 1 /\ UNCHANGED acpi
    /\ UNCHANGED <<vars, walkVars>>
NoMadt == At("entry") /\ idx > EntryCount /\ GoTo("done") /\ UNCHANGED <<vars, walkVars>>

AcpiStep == NoRsdp \/ MapRsdp \/ MapRootHeader \/ MapRoot \/ MapHeader \/ MapTable
            \/ ReadTable \/ NoMadt

-----------------------------------------------------------------------------
(* What follows. *)

LapicInit == At("done") /\ MapPhys(acpi.lapic, PageSize) /\ GoTo("up")
IoapicInit == At("up") /\ MapPhys(acpi.ioapic, PageSize) /\ UNCHANGED bootVars

\* spawn_user_demo()
UserPage(u) == At("up") /\ MapFresh(u.page, u.flags) /\ UNCHANGED <<heapEnd, bootVars>>

MapDevice(d) == At("up") /\ MapPhys(d.phys, d.size) /\ UNCHANGED bootVars
Unmap(u) == At("up") /\ VmmUnmap(u.virt, u.size) /\ UNCHANGED bootVars
HeapGrow == At("up") /\ GrowPage /\ UNCHANGED bootVars

\* Frames of the drivers' rings; on machines that only exercise the allocator, also
\* single frames and frames given back.
DriverPages ==
    /\ At("up") /\ UNCHANGED <<walkVars, bootVars>>
    /\ \/ \E n \in Runs : AllocContig(n)
       \/ boot.frames /\ AllocPage
       \/ boot.frames /\ \E p \in 0 .. total : FreePage(p)

MemoryNext ==
    \/ StartMemory /\ UNCHANGED bootVars
    \/ MapStep /\ UNCHANGED bootVars
    \/ (\E v \in Cached : TlbFill(v)) /\ UNCHANGED bootVars
    \/ AcpiStep
    \/ LapicInit
    \/ IoapicInit
    \/ HeapGrow
    \/ \E u \in UserPages : UserPage(u)
    \/ \E d \in Devices : MapDevice(d)
    \/ \E u \in Unmaps : Unmap(u)
    \/ DriverPages

MemorySpec == BootInit /\ [][MemoryNext]_<<vars, walkVars, bootVars>>

-----------------------------------------------------------------------------
(* Properties. *)

\* The bytes acpi_init() reads in its next step.
Span(phys, n) == phys .. phys + n - 1
Reads == CASE pc = "root" -> Span(fw.rsdp, RsdpSize)
           [] pc = "length" -> Span(fw.root, HeaderSize)
           [] pc = "entry" -> Span(fw.root, fw.length)
           [] pc = "header" -> Span(Table.phys, HeaderSize)
           [] pc = "table" -> Span(Table.phys, Table.length)
           [] OTHER -> {}

\* Every byte of the firmware's tables is mapped, at its place, when acpi_init() reads
\* it, wherever the table starts in its page and however long it is.
ReadsMapped ==
    (state = "up" /\ job = NoCall) => \A b \in Reads :
        LET t == Translate(Split((Hhdm + b) \div PageSize))
        IN t.on /\ t.frame = b \div PageSize

=============================================================================
