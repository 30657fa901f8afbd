----------------------------- MODULE PageNumbers -----------------------------
(* Virtual pages, what they are mapped to and the calls on them (mm/vmm.h). *)
EXTENDS Integers

CONSTANTS Fan \* entries of a page table, 512 in the code

ASSUME FanAssumption == Fan \in Nat \ {0}

Index == 0 .. Fan - 1

\* A page by its indices in the tables of the four levels, from PML4 down.
Page == Index \X Index \X Index \X Index

\* (v >> 39) & 0x1FF and so on, of the page with number n.
Split(n) == << (n \div (Fan * Fan * Fan)) % Fan, (n \div (Fan * Fan)) % Fan,
               (n \div Fan) % Fan, n % Fan >>

Flag == {"W", "USER", "PCD", "NX"}

\* A translation: the frame, the flags of the leaf entry, and whether the leaf is
\* a page of 2 MiB or 1 GiB.
Target == [on : BOOLEAN, frame : Nat, flags : SUBSET Flag, large : BOOLEAN]
Nowhere == [on |-> FALSE, frame |-> 0, flags |-> {}, large |-> FALSE]
Small(p, f) == [on |-> TRUE, frame |-> p, flags |-> f, large |-> FALSE]
Large(p, f) == [on |-> TRUE, frame |-> p, flags |-> f, large |-> TRUE]

\* A call in progress: the pages v .. end - 1 are left, the next one goes to p.
Calls == [op : {"map", "unmap"}, v : Nat, end : Nat, p : Nat, flags : SUBSET Flag]
NoCall == [op |-> "none", v |-> 0, end |-> 0, p |-> 0, flags |-> {}]
Halted == [op |-> "halted", v |-> 0, end |-> 0, p |-> 0, flags |-> {}]

=============================================================================
