----------------------------- MODULE PageTables ------------------------------
(* Page tables as the CPU walks them (mm/vmm.c). *)
EXTENDS PageNumbers

Entry == [kind : {"absent", "table", "page", "huge"}, frame : Nat, flags : SUBSET Flag]
Absent == [kind |-> "absent", frame |-> 0, flags |-> {}]
Link(t) == [kind |-> "table", frame |-> t, flags |-> {}]
Leaf(p, f) == [kind |-> "page", frame |-> p, flags |-> f]

\* Variant that trusts what the frame held before.
StaleTable == [i \in Index |-> Leaf(0, {})]

\* pmm_alloc_page() has zeroed the frame.
EmptyTable == [i \in Index |-> Absent]

SetEntry(ts, t, k, e) == [ts EXCEPT ![t] = [@ EXCEPT ![k] = e]]
Grow(f, x, y) == [z \in DOMAIN f \cup {x} |-> IF z = x THEN y ELSE f[z]]

\* What the hardware can walk: tables a level apart, small pages at the lowest level
\* only and large ones in the two above it, and one entry for each table.
Shaped(ts, lv) ==
    \A t \in DOMAIN ts : \A i \in Index :
        /\ ts[t][i].kind = "table" => /\ ts[t][i].frame \in DOMAIN ts
                                      /\ lv[ts[t][i].frame] = lv[t] - 1
        /\ ts[t][i].kind = "page" => lv[t] = 1
        /\ ts[t][i].kind = "huge" => lv[t] \in {2, 3}
OneParent(ts) ==
    \A t, u \in DOMAIN ts : \A i, j \in Index :
        (/\ ts[t][i].kind = "table" /\ ts[u][j].kind = "table"
         /\ ts[t][i].frame = ts[u][j].frame) => t = u /\ i = j

\* The table of each level on the way to page v, from the root r of the tables ts.
Table3(ts, r, v) == ts[r][v[1]].frame
Table2(ts, r, v) == ts[Table3(ts, r, v)][v[2]].frame
Table1(ts, r, v) == ts[Table2(ts, r, v)][v[3]].frame

\* vmm_virt_to_phys() for a page, with the flags of the leaf.
Walk(ts, r, v) ==
    LET e4 == ts[r][v[1]]
        e3 == ts[Table3(ts, r, v)][v[2]]
        e2 == ts[Table2(ts, r, v)][v[3]]
        e1 == ts[Table1(ts, r, v)][v[4]]
    IN IF e4.kind # "table" THEN Nowhere
       ELSE IF e3.kind = "huge" THEN Large(e3.frame + v[3] * Fan + v[4], e3.flags)
       ELSE IF e3.kind # "table" THEN Nowhere
       ELSE IF e2.kind = "huge" THEN Large(e2.frame + v[4], e2.flags)
       ELSE IF e2.kind # "table" THEN Nowhere
       ELSE IF e1.kind # "page" THEN Nowhere
       ELSE Small(e1.frame, e1.flags)

=============================================================================
