----------------------------- MODULE MCEarlyBoot -----------------------------
(* Tables of two entries, pages of two bytes: sixteen pages, the upper eight the
   direct map.  Machines: firmware whose tables straddle pages, RSDT and XSDT, no
   firmware tables at all, little memory, large pages in the direct map; and machines
   that only exercise the frame allocator. *)
EXTENDS EarlyBoot, TLC

R(b, n, t) == [base |-> b, len |-> n, type |-> t]

FrameMaps ==
    { <<R(0, 1, "reserved"), R(1, 4, "usable"), R(6, 3, "usable"), R(9, 1, "reserved")>>,
      <<R(0, 1, "reserved"), R(1, 1, "usable"), R(2, 2, "reserved"), R(4, 5, "usable"),
        R(9, 1, "reclaimable")>>,
      <<R(0, 1, "reserved"), R(1, 1, "usable"), R(2, 8, "reclaimable")>>,
      <<R(0, 1, "reserved"), R(1, 7, "usable")>> }
Roomy == <<R(0, 8, "reserved"), R(8, 12, "usable")>>
Tight == <<R(0, 8, "reserved"), R(8, 7, "usable")>>
MCMaps == FrameMaps \cup {Roomy, Tight}

T(e, f) == (0 :> e) @@ (1 :> f)
Huge(p) == [kind |-> "huge", frame |-> p, flags |-> {"W"}]

\* The bootloader's tables: the way to the direct map alone; its upper part in a large
\* page; all of it in one.
Bare == (40 :> T(Absent, Link(41))) @@ (41 :> T(Link(42), Absent)) @@ (42 :> T(Absent, Absent))
Mixed == (40 :> T(Absent, Link(41))) @@ (41 :> T(Link(42), Link(43)))
         @@ (42 :> T(Link(44), Absent)) @@ (43 :> T(Absent, Huge(6)))
         @@ (44 :> T(Leaf(0, {"W"}), Leaf(1, {"W"})))
Big == (40 :> T(Absent, Link(41))) @@ (41 :> T(Huge(0), Absent))
Depths == (40 :> 4) @@ (41 :> 3) @@ (42 :> 2) @@ (43 :> 2) @@ (44 :> 1)
Levels(ts) == [t \in DOMAIN ts |-> Depths[t]]

Lapic(on) == [type |-> 0, length |-> 1, on |-> on, addr |-> 0, gsi |-> 0]
Io(a) == [type |-> 1, length |-> 1, on |-> FALSE, addr |-> a, gsi |-> 1]
End0 == [type |-> 0, length |-> 0, on |-> TRUE, addr |-> 0, gsi |-> 0]

Sdt(p, n) == [phys |-> p, length |-> n, madt |-> FALSE, lapic |-> 0, entries |-> <<>>]
Madt(p, n, l, es) == [phys |-> p, length |-> n, madt |-> TRUE, lapic |-> l, entries |-> es]
Fw(rev, r, ro, n, ts) == [present |-> TRUE, revision |-> rev, rsdp |-> r, root |-> ro,
                          length |-> n, tables |-> ts]
None == [Fw(0, 0, 0, 2, <<>>) EXCEPT !.present = FALSE]
Rsdt == Fw(0, 1, 3, 4, <<Sdt(7, 3), Madt(11, 3, 14, <<Lapic(TRUE), Io(8), Lapic(FALSE)>>)>>)
Xsdt == Fw(2, 0, 2, 4, <<Madt(6, 4, 10, <<Lapic(TRUE), Lapic(TRUE), End0, Io(8)>>)>>)
Other == Fw(0, 1, 3, 3, <<Sdt(7, 3)>>)

Machine(m, ts, f) == [map |-> m, tabs |-> ts, root |-> 40, level |-> Levels(ts),
                      firmware |-> f, frames |-> FALSE]
MCBoots ==
    {Machine(Roomy, Bare, Rsdt), Machine(Roomy, Mixed, Xsdt), Machine(Tight, Bare, Other),
     Machine(Roomy, Bare, None), Machine(Roomy, Big, Rsdt)}
    \cup {[Machine(m, Big, None) EXCEPT !.frames = TRUE] : m \in FrameMaps}

MCEntrySize == (0 :> 1) @@ (2 :> 2)
MCUserPages == {[page |-> 0, flags |-> {"USER", "W", "NX"}]}
MCDevices == {[phys |-> 9, size |-> 2]}
MCUnmaps == {[virt |-> 1, size |-> 2], [virt |-> 27, size |-> 3]}
MCCached == {Split(0), Split(12)}
MCDefaults == [lapic |-> 10, ioapic |-> 8, gsi |-> 0, cpus |-> 0]

=============================================================================
