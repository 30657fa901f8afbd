-------------------------- MODULE StructureProofs ---------------------------
(***************************************************************************)
(* The two data structures every later part of the kernel works with, for  *)
(* all their sizes and every order of calls.                               *)
(*                                                                         *)
(* The heap (mm/heap.c): its list of blocks tiles the heap, stays          *)
(* coalesced, never trips its own panics and implements the allocator      *)
(* contract, for every block geometry and request size.                    *)
(*                                                                         *)
(* The keyboard's ring (drivers/keyboard.c): with one producer sys_read()  *)
(* returns the characters accepted, in order, for every size of the ring,  *)
(* every scan code table and every sequence of bytes.  head and tail are   *)
(* the numbers of characters stored and taken, modulo the ring's size; the *)
(* invariant says so and places each character that waits in the slot of   *)
(* its number.                                                             *)
(***************************************************************************)
EXTENDS Heap, Input, WellFoundedInduction, TLAPS

-----------------------------------------------------------------------------
(* The first block that fits. *)

\* A nonempty set of naturals has a least element: kmalloc()'s first fit rests on it.
LEMMA LeastProp ==
    ASSUME NEW S \in SUBSET Nat, S # {}
    PROVE  Least(S) \in S /\ \A y \in S : Least(S) <= y
PROOF
<1> DEFINE Less == {ss \in Nat \X Nat : ss[1] < ss[2]}
<1>1. OpToRel(<, Nat) = Less
    BY Zenon DEF OpToRel
<1>2. IsWellFoundedOn(Less, Nat)
    BY <1>1, NatLessThanWellFounded, Zenon
<1>3. PICK x \in S : \A y \in S : ~(<<y, x>> \in Less)
    BY <1>2, WFMin, Zenon
<1>4. ASSUME NEW y \in S PROVE x <= y
    <2>1. y \in Nat /\ x \in Nat /\ <<y, x>> \in Nat \X Nat
        OBVIOUS
    <2>2. ~(<<y, x>> \in Less)
        BY <1>3
    <2>3. ~(<<y, x>>[1] < <<y, x>>[2])
        BY <2>1, <2>2
    <2>4. QED
        BY <2>1, <2>3
<1>5. QED
    BY <1>4, Zenon DEF Least

-----------------------------------------------------------------------------
(* Lists. *)

Headers == [size : Nat, free : BOOLEAN, next : Nat]

\* h is a list: a function from addresses to headers.
Typed(h) == /\ h = [b \in DOMAIN h |-> h[b]]
            /\ DOMAIN h \subseteq Nat
            /\ \A b \in DOMAIN h : h[b] \in Headers

CoalescedIn(h) ==
    \A x \in DOMAIN h : h[x].free /\ h[x].next # Null => ~h[h[x].next].free

\* kmalloc() takes block b of h and leaves list g: the block is no longer free
\* and holds need bytes; every other block of h is as before and every other
\* block of g is free and lies in what b was.
Taken(h, g, b, need) ==
    /\ b \in DOMAIN g /\ ~g[b].free /\ g[b].size >= need /\ g[b].size <= h[b].size
    /\ DOMAIN h \subseteq DOMAIN g
    /\ \A x \in DOMAIN h : x # b => g[x] = h[x]
    /\ \A x \in DOMAIN g : x \notin DOMAIN h => g[x].free /\ x = b + g[b].size

\* split() and clearing the free flag of a fitting block.
LEMMA TakeList ==
    ASSUME NEW h, NEW end \in Nat, Typed(h), TiledIn(h, end), CoalescedIn(h),
           NEW b \in DOMAIN h, h[b].free,
           NEW need \in Nat, need >= Header + Align, need <= h[b].size
    PROVE  LET g == SetFree(Split(h, b, need), b, FALSE)
           IN /\ Typed(g) /\ TiledIn(g, end) /\ CoalescedIn(g)
              /\ Taken(h, g, b, need)
              /\ DOMAIN g = DOMAIN Split(h, b, need)
              /\ g[b].size = Split(h, b, need)[b].size
PROOF
<1> DEFINE g == SetFree(Split(h, b, need), b, FALSE)
<1>0. /\ Header \in Nat \ {0} /\ Align \in Nat \ {0} /\ Base \in Nat \ {0}
      /\ b \in Nat /\ h[b].size \in Nat /\ h[b].next \in Nat
      /\ \A x \in DOMAIN h : x \in Nat /\ h[x] \in Headers
    BY HeapAssumption DEF Typed, Headers
<1> SUFFICES /\ Typed(g) /\ TiledIn(g, end) /\ CoalescedIn(g)
             /\ Taken(h, g, b, need)
             /\ DOMAIN g = DOMAIN Split(h, b, need)
             /\ g[b].size = Split(h, b, need)[b].size
    BY Zenon
<1>1. CASE ~Splits(h, b, need)
    <2>1. Split(h, b, need) = h
        BY <1>1 DEF Split
    <2>2. /\ DOMAIN g = DOMAIN h
          /\ \A x \in DOMAIN h : g[x] = IF x = b THEN Block(h[b].size, FALSE, h[b].next)
                                        ELSE h[x]
        BY <2>1, <1>0, Zenon DEF SetFree, Put
    <2>3. Typed(g)
        BY <2>1, <2>2, <1>0 DEF Typed, Block, Headers, SetFree, Put
    <2> HIDE DEF g
    <2>4. TiledIn(g, end)
        BY <2>2, <1>0 DEF TiledIn, Block
    <2>5. CoalescedIn(g)
        BY <2>2, <1>0 DEF TiledIn, CoalescedIn, Block, Null
    <2>6. Taken(h, g, b, need)
        BY <2>2, <1>0 DEF Taken, Block
    <2>7. QED
        BY <2>1, <2>2, <2>3, <2>4, <2>5, <2>6 DEF Block
<1>2. CASE Splits(h, b, need)
    <2> DEFINE c == b + need
               s == Split(h, b, need)
    <2>0. h[b].size - need \in Nat /\ h[b].size - need >= Header + Align
          /\ c \in Nat /\ c > b /\ c < b + h[b].size /\ c + (h[b].size - need) = b + h[b].size
        BY <1>0, <1>2 DEF Splits
    <2>1. /\ s = [x \in DOMAIN h \cup {c} |->
                     IF x = b THEN Block(need, h[b].free, c)
                     ELSE IF x = c THEN Block(h[b].size - need, TRUE, h[b].next)
                     ELSE h[x]]
        BY <1>2, Zenon DEF Split, Put
    <2>2. /\ DOMAIN g = DOMAIN h \cup {c}
          /\ g = [x \in DOMAIN h \cup {c} |-> g[x]]
          /\ g[b] = Block(need, FALSE, c)
          /\ g[c] = Block(h[b].size - need, TRUE, h[b].next)
          /\ \A x \in DOMAIN h : x # b /\ x # c => g[x] = h[x]
          /\ s[b].size = need /\ DOMAIN s = DOMAIN g
        <3> HIDE DEF c, s
        <3>1. s[b] = Block(need, h[b].free, c) /\ s[b].size = need /\ s[b].next = c
            BY <2>1 DEF Block
        <3>2. DOMAIN s = DOMAIN h \cup {c}
            BY <2>1
        <3>3. g = [x \in DOMAIN s |-> IF x = b THEN Block(need, FALSE, c) ELSE s[x]]
            BY <3>1, <3>2, Zenon DEF SetFree, Put, s
        <3> HIDE DEF g
        <3>4. DOMAIN g = DOMAIN h \cup {c} /\ g = [x \in DOMAIN h \cup {c} |-> g[x]]
            BY <3>2, <3>3, Zenon
        <3>5. g[b] = Block(need, FALSE, c)
            BY <3>2, <3>3
        <3>6. b # c
            BY <2>0, <1>0
        <3>7. g[c] = s[c] /\ s[c] = Block(h[b].size - need, TRUE, h[b].next)
            BY <3>2, <3>3, <3>6, <2>1, Zenon
        <3>8. \A x \in DOMAIN h : x # b /\ x # c => g[x] = h[x]
            BY <3>2, <3>3, <2>1
        <3>9. QED
            BY <3>1, <3>2, <3>4, <3>5, <3>7, <3>8, Zenon
    <2> HIDE DEF g, s
    <2>3. c \notin DOMAIN h
        BY <1>0, <2>0 DEF TiledIn
    <2>4. Typed(g)
        <3>1. ASSUME NEW x \in DOMAIN g PROVE x \in Nat /\ g[x] \in Headers
            <4>1. CASE x = b
                <5>1. Block(need, FALSE, c) \in Headers
                    BY <2>0 DEF Block, Headers
                <5>2. QED
                    BY <4>1, <5>1, <2>2, <1>0, Zenon
            <4>2. CASE x = c
                <5>1. Block(h[b].size - need, TRUE, h[b].next) \in Headers
                    BY <2>0, <1>0 DEF Block, Headers
                <5>2. QED
                    BY <4>2, <5>1, <2>0, <2>2, Zenon
            <4>3. QED
                BY <4>1, <4>2, <2>2, <1>0
        <3>2. QED
            BY <2>2, <3>1, Zenon DEF Typed
    <2> HIDE DEF c
    <2>5. TiledIn(g, end)
        <3>1. Base \in DOMAIN g
            BY <2>2 DEF TiledIn
        <3>2. ASSUME NEW x \in DOMAIN g
              PROVE  /\ x >= Base /\ g[x].size >= Header + Align /\ x + g[x].size <= end
                     /\ IF x + g[x].size = end THEN g[x].next = Null
                        ELSE g[x].next = x + g[x].size /\ x + g[x].size \in DOMAIN g
            BY <2>0, <2>2, <2>3, <1>0 DEF TiledIn, Block, c
        <3>3. ASSUME NEW x \in DOMAIN g, NEW y \in DOMAIN g, x < y
              PROVE  x + g[x].size <= y
            <4>1. CASE x \in DOMAIN h /\ y \in DOMAIN h
                BY <4>1, <3>3, <2>0, <2>2, <2>3, <1>0 DEF TiledIn, Block, c
            <4>2. CASE x = c
                BY <4>2, <3>3, <2>0, <2>2, <2>3, <1>0 DEF TiledIn, Block
            <4>3. CASE y = c
                BY <4>3, <3>3, <2>0, <2>2, <2>3, <1>0 DEF TiledIn, Block, c
            <4>4. QED
                BY <4>1, <4>2, <4>3, <2>2
        <3>4. \E t \in DOMAIN g : t + g[t].size = end
            <4>1. PICK t \in DOMAIN h : t + h[t].size = end
                BY DEF TiledIn
            <4>2. CASE t = b
                BY <4>1, <4>2, <2>0, <2>2 DEF Block
            <4>3. CASE t # b
                BY <4>1, <4>3, <2>2, <2>3
            <4>4. QED
                BY <4>2, <4>3
        <3>5. QED
            BY <3>1, <3>2, <3>3, <3>4 DEF TiledIn
    <2>6. CoalescedIn(g)
        BY <2>0, <2>2, <2>3, <1>0 DEF TiledIn, CoalescedIn, Block, Null
    <2>7. Taken(h, g, b, need)
        BY <2>0, <2>2, <2>3, <1>0 DEF Taken, Block, c
    <2>8. QED
        BY <2>2, <2>4, <2>5, <2>6, <2>7 DEF Block, s
<1>3. QED
    BY <1>1, <1>2, Zenon

\* append_free_region(): the new pages become a free block at the end, or
\* extend a free last block; either way there is a free block of their size.
LEMMA AppendList ==
    ASSUME NEW h, NEW end \in Nat, Typed(h), TiledIn(h, end), CoalescedIn(h),
           NEW size \in Nat, size >= Header + Align
    PROVE  LET g == AppendFreeRegion(h, end, size)
           IN /\ Typed(g) /\ TiledIn(g, end + size) /\ CoalescedIn(g)
              /\ DOMAIN h \subseteq DOMAIN g /\ DOMAIN g \subseteq DOMAIN h \cup {end}
              /\ \A x \in DOMAIN h : /\ g[x].free = h[x].free
                                     /\ ~h[x].free => g[x].size = h[x].size
              /\ \A x \in DOMAIN g : x \notin DOMAIN h => g[x].free
              /\ \E x \in DOMAIN g : g[x].free /\ g[x].size >= size
PROOF
<1> DEFINE t == LastBlock(h)
           g == AppendFreeRegion(h, end, size)
<1>0. /\ Header \in Nat \ {0} /\ Align \in Nat \ {0} /\ Base \in Nat \ {0}
      /\ \A x \in DOMAIN h : x \in Nat /\ h[x] \in Headers
    BY HeapAssumption DEF Typed
<1>1. t \in DOMAIN h /\ h[t].next = Null
    <2>1. \E x \in DOMAIN h : h[x].next = Null
        BY DEF TiledIn
    <2>2. QED
        BY <2>1 DEF LastBlock
<1>2. /\ t + h[t].size = end /\ t \in Nat /\ h[t].size \in Nat /\ h[t] \in Headers
      /\ h[t].size >= Header + Align /\ h[t].free \in BOOLEAN
    BY <1>0, <1>1 DEF TiledIn, Null, Headers
<1>3. end \notin DOMAIN h
    BY <1>0 DEF TiledIn, Headers
<1>4. \A x \in DOMAIN h : x # t => x < t /\ h[x].next \in DOMAIN h /\ h[x].next # Null
                                   /\ h[x].next = x + h[x].size
    BY <1>0, <1>1, <1>2 DEF TiledIn, Headers, Null
<1> SUFFICES /\ Typed(g) /\ TiledIn(g, end + size) /\ CoalescedIn(g)
             /\ DOMAIN h \subseteq DOMAIN g /\ DOMAIN g \subseteq DOMAIN h \cup {end}
             /\ \A x \in DOMAIN h : /\ g[x].free = h[x].free
                                    /\ ~h[x].free => g[x].size = h[x].size
             /\ \A x \in DOMAIN g : x \notin DOMAIN h => g[x].free
             /\ \E x \in DOMAIN g : g[x].free /\ g[x].size >= size
    OBVIOUS
<1>5. CASE h[t].free
    <2>1. g = [x \in DOMAIN h |-> IF x = t THEN Block(h[t].size + size, TRUE, Null) ELSE h[x]]
        BY <1>1, <1>2, <1>5, Zenon DEF AppendFreeRegion, Put
    <2> HIDE DEF g, t
    <2>2. /\ DOMAIN g = DOMAIN h /\ g = [x \in DOMAIN g |-> g[x]]
          /\ g[t] \in Headers /\ g[t].size = h[t].size + size /\ g[t].free = TRUE
          /\ g[t].next = Null
          /\ \A x \in DOMAIN h : x # t => g[x] = h[x]
        <3>1. h[t].size + size \in Nat /\ Null \in Nat /\ TRUE \in BOOLEAN
            BY <1>2 DEF Null
        <3>2. g[t] = Block(h[t].size + size, TRUE, Null)
            BY <2>1, <1>1
        <3>3. /\ g[t] \in Headers /\ g[t].size = h[t].size + size /\ g[t].free = TRUE
              /\ g[t].next = Null
            BY <3>1, <3>2 DEF Block, Headers
        <3>4. QED
            BY <2>1, <3>3, Zenon
    <2>3. Typed(g)
        BY <2>2, <1>0 DEF Typed
    <2>4. TiledIn(g, end + size)
        <3>1. ASSUME NEW x \in DOMAIN g
              PROVE  /\ x >= Base /\ g[x].size >= Header + Align /\ x + g[x].size <= end + size
                     /\ IF x + g[x].size = end + size THEN g[x].next = Null
                        ELSE g[x].next = x + g[x].size /\ x + g[x].size \in DOMAIN g
            <4>1. CASE x = t
                BY <4>1, <2>2, <1>0, <1>1, <1>2 DEF TiledIn
            <4>2. CASE x # t
                BY <4>2, <2>2, <1>0, <1>1, <1>2, <1>4 DEF TiledIn, Headers
            <4>3. QED
                BY <4>1, <4>2
        <3>2. ASSUME NEW x \in DOMAIN g, NEW y \in DOMAIN g, x < y
              PROVE  x + g[x].size <= y
            BY <3>2, <2>2, <1>0, <1>1, <1>4 DEF TiledIn
        <3>3. t \in DOMAIN g /\ t + g[t].size = end + size
            BY <2>2, <1>1, <1>2
        <3>4. QED
            BY <3>1, <3>2, <3>3, <2>2 DEF TiledIn
    <2>5. CoalescedIn(g)
        BY <2>2, <1>1, <1>4, <1>5 DEF CoalescedIn, TiledIn
    <2>6. \A x \in DOMAIN h : g[x].free = h[x].free /\ (~h[x].free => g[x].size = h[x].size)
        BY <2>2, <1>2, <1>5, Zenon
    <2>7. t \in DOMAIN g /\ g[t].free /\ g[t].size >= size
        BY <2>2, <1>1, <1>2
    <2>8. QED
        BY <2>2, <2>3, <2>4, <2>5, <2>6, <2>7
<1>6. CASE ~h[t].free
    <2>1. g = [x \in DOMAIN h \cup {end} |->
                 IF x = t THEN Block(h[t].size, h[t].free, end)
                 ELSE IF x = end THEN Block(size, TRUE, Null) ELSE h[x]]
        BY <1>1, <1>2, <1>6, Zenon DEF AppendFreeRegion, Put
    <2> HIDE DEF g, t
    <2>2. /\ DOMAIN g = DOMAIN h \cup {end} /\ g = [x \in DOMAIN g |-> g[x]]
          /\ g[t] \in Headers /\ g[t].size = h[t].size /\ g[t].free = FALSE
          /\ g[t].next = end
          /\ g[end] \in Headers /\ g[end].size = size /\ g[end].free = TRUE
          /\ g[end].next = Null
          /\ \A x \in DOMAIN h : x # t => g[x] = h[x]
        <3>1. g[t] = Block(h[t].size, FALSE, end) /\ g[end] = Block(size, TRUE, Null)
            BY <2>1, <1>1, <1>2, <1>3, <1>6, Zenon
        <3>2. \A x \in DOMAIN h : x # t => g[x] = h[x]
            BY <2>1, <1>3, Zenon
        <3>3. DOMAIN g = DOMAIN h \cup {end} /\ g = [x \in DOMAIN g |-> g[x]]
            BY <2>1, Zenon
        <3>4. Null \in Nat
            BY DEF Null
        <3>5. /\ g[t] \in Headers /\ g[t].size = h[t].size /\ g[t].free = FALSE
              /\ g[t].next = end
            BY <3>1, <1>2 DEF Block, Headers
        <3>6. /\ g[end] \in Headers /\ g[end].size = size /\ g[end].free = TRUE
              /\ g[end].next = Null
            BY <3>1, <3>4 DEF Block, Headers
        <3>7. QED
            BY <3>2, <3>3, <3>5, <3>6
    <2>3. Typed(g)
        BY <2>2, <1>0 DEF Typed
    <2>4. TiledIn(g, end + size)
        <3>1. ASSUME NEW x \in DOMAIN g
              PROVE  /\ x >= Base /\ g[x].size >= Header + Align /\ x + g[x].size <= end + size
                     /\ IF x + g[x].size = end + size THEN g[x].next = Null
                        ELSE g[x].next = x + g[x].size /\ x + g[x].size \in DOMAIN g
            <4>1. CASE x = t
                BY <4>1, <2>2, <1>0, <1>1, <1>2 DEF TiledIn
            <4>2. CASE x = end
                BY <4>2, <2>2, <1>0, <1>1, <1>2 DEF TiledIn
            <4>3. CASE x # t /\ x # end
                BY <4>3, <2>2, <1>0, <1>1, <1>2, <1>4 DEF TiledIn, Headers
            <4>4. QED
                BY <4>1, <4>2, <4>3
        <3>2. ASSUME NEW x \in DOMAIN g, NEW y \in DOMAIN g, x < y
              PROVE  x + g[x].size <= y
            BY <3>2, <2>2, <1>0, <1>1, <1>2, <1>4 DEF TiledIn
        <3>3. end \in DOMAIN g /\ end + g[end].size = end + size
            BY <2>2
        <3>4. QED
            BY <3>1, <3>2, <3>3, <2>2 DEF TiledIn
    <2>5. CoalescedIn(g)
        BY <2>2, <1>1, <1>3, <1>4, <1>6 DEF CoalescedIn, TiledIn
    <2>6. \A x \in DOMAIN h : g[x].free = h[x].free /\ (~h[x].free => g[x].size = h[x].size)
        BY <2>2, <1>2, <1>6, Zenon
    <2>7. end \in DOMAIN g /\ g[end].free /\ g[end].size >= size
        BY <2>2
    <2>8. QED
        BY <2>2, <2>3, <2>4, <2>5, <2>6, <2>7
<1>7. QED
    BY <1>2, <1>5, <1>6

\* The blocks in use.
Used(h) == {x \in DOMAIN h : ~h[x].free}

\* Merging a block with its neighbour keeps the tiling.
LEMMA MergeList ==
    ASSUME NEW h, NEW end \in Nat, Typed(h), TiledIn(h, end),
           NEW b \in DOMAIN h, NEW n \in DOMAIN h, h[b].next = n
    PROVE  LET g == Merge(h, b, n)
           IN /\ Typed(g) /\ TiledIn(g, end)
              /\ b # n /\ DOMAIN g = DOMAIN h \ {n}
              /\ g[b].size = h[b].size + h[n].size
              /\ g[b].free = h[b].free /\ g[b].next = h[n].next
              /\ \A x \in DOMAIN g : x # b => g[x] = h[x]
PROOF
<1> DEFINE g == Merge(h, b, n)
<1>0. /\ Header \in Nat \ {0} /\ Align \in Nat \ {0} /\ Base \in Nat \ {0}
      /\ \A x \in DOMAIN h : x \in Nat /\ h[x] \in Headers
      /\ \A x \in DOMAIN h : h[x].size \in Nat /\ h[x].next \in Nat /\ h[x].free \in BOOLEAN
    BY HeapAssumption DEF Typed, Headers
<1>1. n # Null /\ n = b + h[b].size /\ b < n
    BY <1>0 DEF TiledIn, Null
<1>2. g = [x \in DOMAIN h \ {n} |->
             IF x = b THEN Block(h[b].size + h[n].size, h[b].free, h[n].next) ELSE h[x]]
    BY DEF Merge
<1> SUFFICES /\ Typed(g) /\ TiledIn(g, end)
             /\ b # n /\ DOMAIN g = DOMAIN h \ {n}
             /\ g[b].size = h[b].size + h[n].size
             /\ g[b].free = h[b].free /\ g[b].next = h[n].next
             /\ \A x \in DOMAIN g : x # b => g[x] = h[x]
    OBVIOUS
<1> HIDE DEF g
<1>3. /\ b # n /\ DOMAIN g = DOMAIN h \ {n} /\ g = [x \in DOMAIN g |-> g[x]]
      /\ g[b] = Block(h[b].size + h[n].size, h[b].free, h[n].next)
      /\ \A x \in DOMAIN g : x # b => g[x] = h[x]
    BY <1>0, <1>1, <1>2
<1>4. /\ g[b].size = h[b].size + h[n].size
      /\ g[b].free = h[b].free /\ g[b].next = h[n].next /\ g[b] \in Headers
    BY <1>0, <1>3 DEF Block, Headers
<1>5. Typed(g)
    BY <1>0, <1>3, <1>4 DEF Typed
<1>6. \A x \in DOMAIN h : x # b => x + h[x].size # n
    BY <1>0, <1>1 DEF TiledIn
<1>7. TiledIn(g, end)
    <2>1. ASSUME NEW x \in DOMAIN g
          PROVE  /\ x >= Base /\ g[x].size >= Header + Align /\ x + g[x].size <= end
                 /\ IF x + g[x].size = end THEN g[x].next = Null
                    ELSE g[x].next = x + g[x].size /\ x + g[x].size \in DOMAIN g
        <3>1. CASE x = b
            BY <3>1, <1>0, <1>1, <1>3, <1>4 DEF TiledIn
        <3>2. CASE x # b
            BY <3>2, <1>0, <1>3, <1>6 DEF TiledIn
        <3>3. QED
            BY <3>1, <3>2
    <2>2. ASSUME NEW x \in DOMAIN g, NEW y \in DOMAIN g, x < y
          PROVE  x + g[x].size <= y
        <3>1. CASE x = b
            <4>1. n <= y /\ n # y
                BY <2>2, <3>1, <1>0, <1>1, <1>3 DEF TiledIn
            <4>a. y \in DOMAIN h /\ n < y
                BY <4>1, <1>0, <1>3
            <4>2. n + h[n].size <= y
                BY <4>a DEF TiledIn
            <4>3. QED
                BY <3>1, <4>2, <1>0, <1>1, <1>4
        <3>2. CASE x # b
            BY <2>2, <3>2, <1>3 DEF TiledIn
        <3>3. QED
            BY <3>1, <3>2
    <2>3. \E t \in DOMAIN g : t + g[t].size = end
        <3>1. PICK t \in DOMAIN h : t + h[t].size = end
            BY DEF TiledIn
        <3>2. CASE t = n
            BY <3>1, <3>2, <1>0, <1>1, <1>3, <1>4
        <3>3. CASE t # n
            <4>1. t # b
                BY <3>1, <1>0, <1>1 DEF TiledIn
            <4>2. QED
                BY <3>1, <3>3, <4>1, <1>3
        <3>4. QED
            BY <3>2, <3>3
    <2>4. Base \in DOMAIN g
        BY <1>0, <1>1, <1>3 DEF TiledIn
    <2>5. QED
        BY <2>1, <2>2, <2>3, <2>4 DEF TiledIn
<1>8. QED
    BY <1>3, <1>4, <1>5, <1>7

\* kfree(): the block is free, its free neighbours are merged, every other
\* block in use is untouched.
LEMMA FreeList ==
    ASSUME NEW h, NEW end \in Nat, Typed(h), TiledIn(h, end), CoalescedIn(h),
           NEW b \in DOMAIN h, ~h[b].free
    PROVE  LET g == CoalesceBackward(CoalesceForward(SetFree(h, b, TRUE), b), b)
           IN /\ Typed(g) /\ TiledIn(g, end) /\ CoalescedIn(g)
              /\ DOMAIN g \subseteq DOMAIN h
              /\ Used(g) = Used(h) \ {b}
              /\ \A x \in Used(g) : g[x].size = h[x].size
PROOF
<1> DEFINE f == SetFree(h, b, TRUE)
           m == CoalesceForward(f, b)
           g == CoalesceBackward(m, b)
<1>0. /\ Base \in Nat \ {0} /\ Header \in Nat \ {0} /\ Align \in Nat \ {0}
      /\ \A x \in DOMAIN h : x \in Nat /\ h[x] \in Headers
      /\ \A x \in DOMAIN h : h[x].size \in Nat /\ h[x].next \in Nat /\ h[x].free \in BOOLEAN
    BY HeapAssumption DEF Typed, Headers
<1> SUFFICES /\ Typed(g) /\ TiledIn(g, end) /\ CoalescedIn(g)
             /\ DOMAIN g \subseteq DOMAIN h
             /\ Used(g) = Used(h) \ {b}
             /\ \A x \in Used(g) : g[x].size = h[x].size
    BY Zenon
<1> HIDE DEF g, m, f
<1>1. /\ DOMAIN f = DOMAIN h /\ f = [x \in DOMAIN f |-> f[x]]
      /\ f[b] \in Headers /\ f[b].free = TRUE /\ f[b].size = h[b].size /\ f[b].next = h[b].next
      /\ \A x \in DOMAIN h : x # b => f[x] = h[x]
    <2>1. f = [x \in DOMAIN h |-> IF x = b THEN Block(h[b].size, TRUE, h[b].next) ELSE h[x]]
        BY SMTT(30) DEF f, SetFree, Put
    <2>2. f[b] = Block(h[b].size, TRUE, h[b].next)
        BY <2>1
    <2>3. f[b] \in Headers /\ f[b].free = TRUE /\ f[b].size = h[b].size /\ f[b].next = h[b].next
        BY <2>2, <1>0 DEF Block, Headers
    <2>4. QED
        BY <2>1, <2>3, Zenon
<1>2. Typed(f) /\ TiledIn(f, end)
    <2>1. Typed(f)
        BY <1>0, <1>1 DEF Typed
    <2>2. \A x \in DOMAIN h : f[x].size = h[x].size /\ f[x].next = h[x].next
        BY <1>1
    <2>3. QED
        BY <1>1, <2>1, <2>2 DEF TiledIn
<1>3. /\ Used(f) = Used(h) \ {b}
      /\ \A x \in DOMAIN f : f[x].size = h[x].size
    BY <1>1 DEF Used
\* After the forward merge only the pair (predecessor, b) may be free twice.
<1>4. /\ Typed(m) /\ TiledIn(m, end) /\ b \in DOMAIN m /\ DOMAIN m \subseteq DOMAIN h
      /\ m[b].free = TRUE
      /\ Used(m) = Used(h) \ {b} /\ \A x \in Used(m) : m[x].size = h[x].size
      /\ \A x \in DOMAIN m : m[x].free /\ m[x].next # Null /\ m[m[x].next].free
                             => m[x].next = b
    <2> DEFINE n == f[b].next
    <2>1. \A x \in DOMAIN f : f[x].free /\ f[x].next # Null /\ f[f[x].next].free
                              => x = b \/ f[x].next = b
        BY <1>1 DEF CoalescedIn, TiledIn
    <2>2. n # Null => n \in DOMAIN f /\ b + f[b].size = n
        BY <1>1, <1>2 DEF TiledIn
    <2>3. CASE ~(n # Null /\ f[n].free)
        <3>1. m = f
            BY <2>3 DEF m, CoalesceForward
        <3>2. QED
            BY <3>1, <2>1, <2>3, <1>1, <1>2, <1>3 DEF Used
    <2>4. CASE n # Null /\ f[n].free
        <3>1. m = Merge(f, b, n)
            BY <2>2, <2>4 DEF m, CoalesceForward
        <3>2. /\ Typed(m) /\ TiledIn(m, end) /\ b # n /\ DOMAIN m = DOMAIN f \ {n}
              /\ m[b].free = f[b].free /\ m[b].next = f[n].next
              /\ \A x \in DOMAIN m : x # b => m[x] = f[x]
            BY <3>1, <2>2, <2>4, <1>1, <1>2, MergeList, SMTT(30)
        <3>3. Used(m) = Used(f)
            BY <3>2, <2>4, <1>1 DEF Used
        <3>4. \A x \in Used(m) : m[x].size = h[x].size
            BY <3>2, <3>3, <1>1, <1>3 DEF Used
        <3>5. ASSUME NEW x \in DOMAIN m, m[x].free, m[x].next # Null, m[m[x].next].free
              PROVE  m[x].next = b
            <4>1. m[x].next \in DOMAIN m
                BY <3>2, <3>5 DEF TiledIn
            <4>2. CASE x = b
                <5>1. f[n].next = m[b].next /\ f[n].next # b
                    BY <3>2, <2>2, <2>4, <1>0, <1>1, <1>2, <4>2, <3>5, SMTT(30) DEF TiledIn, Typed
                <5>2. f[f[n].next].free
                    BY <5>1, <3>2, <3>5, <4>1, <4>2
                <5>3. f[n].next = b \/ n = b
                    BY <5>1, <5>2, <2>1, <2>2, <2>4, <3>5, <4>2
                <5>4. QED
                    BY <5>1, <5>3, <3>2
            <4>3. CASE x # b
                <5>1. f[x].free /\ f[x].next = m[x].next
                    BY <3>2, <3>5, <4>3
                <5>2. CASE m[x].next = b
                    BY <5>2
                <5>3. CASE m[x].next # b
                    BY <5>1, <5>3, <3>2, <3>5, <4>1, <4>3, <2>1
                <5>4. QED
                    BY <5>2, <5>3
            <4>4. QED
                BY <4>2, <4>3
        <3>6. QED
            BY <3>2, <3>3, <3>4, <3>5, <2>2, <1>1, <1>3
    <2>5. QED
        BY <2>3, <2>4, Zenon
<1>5. QED
    <2> DEFINE prev == {p \in DOMAIN m : m[p].next = b /\ m[p].free /\ p + m[p].size = b}
    <2>1. CASE prev = {}
        <3>1. g = m
            BY <2>1 DEF g, CoalesceBackward
        <3>2. CoalescedIn(m)
            <4>1. ASSUME NEW x \in DOMAIN m, m[x].free, m[x].next # Null,
                         m[m[x].next].free
                  PROVE  FALSE
                BY <4>1, <2>1, <1>4 DEF TiledIn
            <4>2. QED
                BY <4>1 DEF CoalescedIn
        <3>3. QED
            BY <3>1, <3>2, <1>4
    <2>2. CASE prev # {}
        <3> DEFINE p == Least(prev)
        <3>1. p \in prev
            <4>1. prev \in SUBSET Nat
                BY <1>4 DEF Typed
            <4>2. QED
                BY <4>1, <2>2, LeastProp
        <3>2. g = Merge(m, p, b)
            BY <2>2 DEF g, CoalesceBackward
        <3>3. p \in DOMAIN m /\ m[p].next = b /\ m[p].free
            BY <3>1
        <3> HIDE DEF p
        <3>4. /\ Typed(g) /\ TiledIn(g, end) /\ p # b /\ DOMAIN g = DOMAIN m \ {b}
              /\ g[p].free = m[p].free /\ g[p].next = m[b].next
              /\ \A x \in DOMAIN g : x # p => g[x] = m[x]
            <4>1. b \in DOMAIN m /\ Typed(m) /\ TiledIn(m, end)
                BY <1>4
            <4> DEFINE r == Merge(m, p, b)
            <4>2. /\ Typed(r) /\ TiledIn(r, end) /\ p # b /\ DOMAIN r = DOMAIN m \ {b}
                  /\ r[p].free = m[p].free /\ r[p].next = m[b].next
                  /\ \A x \in DOMAIN r : x # p => r[x] = m[x]
                <5>1. p \in DOMAIN m /\ m[p].next = b
                    BY <3>3
                <5> HIDE DEF prev
                <5>2. QED
                    BY <5>1, <4>1, MergeList
            <4>3. QED
                BY <3>2, <4>2
        <3>5. Used(g) = Used(m)
            BY <3>3, <3>4, <1>4, Zenon DEF Used
        <3>6. \A x \in Used(g) : g[x].size = h[x].size
            BY <3>3, <3>4, <3>5, <1>4 DEF Used
        <3>7. CoalescedIn(g)
            <4>1. ASSUME NEW x \in DOMAIN g, g[x].free, g[x].next # Null,
                         g[g[x].next].free
                  PROVE  FALSE
                <5>1. g[x].next \in DOMAIN g /\ g[x].next # b
                    BY <4>1, <3>4 DEF TiledIn
                <5>2. m[g[x].next].free
                    BY <5>1, <4>1, <3>3, <3>4
                <5>3. CASE x = p
                    BY <5>1, <5>2, <5>3, <4>1, <3>4, <1>4
                <5>4. CASE x # p
                    BY <5>1, <5>2, <5>4, <4>1, <3>4, <1>4
                <5>5. QED
                    BY <5>3, <5>4
            <4>2. QED
                BY <4>1 DEF CoalescedIn
        <3>8. QED
            BY <3>4, <3>5, <3>6, <3>7, <1>4
    <2>3. QED
        BY <2>1, <2>2

-----------------------------------------------------------------------------
(* The state machine. *)

\* The inductive invariant: the list is well formed and coalesced, all its
\* headers are intact, and the owners are those of the blocks in use.
IInv ==
    /\ Typed(heap) /\ heapEnd \in Nat /\ heapEnd <= MaxEnd
    /\ TiledIn(heap, heapEnd) /\ CoalescedIn(heap)
    /\ DOMAIN heap \subseteq magic /\ magic \subseteq Nat
    /\ DOMAIN asked = Used(heap) /\ \A b \in DOMAIN asked : asked[b] \in Sizes
    /\ freed \subseteq Nat /\ twice \in BOOLEAN
    /\ state \in {"run", "no physical memory"}
       \/ (state = "bad or already-freed pointer" /\ twice)

\* A rounded request holds the request, one unit at least, and a header.
LEMMA NeedBound ==
    ASSUME NEW size \in Nat \ {0}
    PROVE  Need(size) \in Nat /\ Need(size) >= Header + Align /\ Need(size) >= size + Header
PROOF
<1> DEFINE q == (size + Align - 1) \div Align
<1>1. Align \in Nat \ {0} /\ Header \in Nat
    BY HeapAssumption
<1>2. q \in Nat /\ q >= 1 /\ q * Align >= size
    BY <1>1
<1>3. q * Align \in Nat /\ q * Align >= Align
    BY <1>1, <1>2
<1> HIDE DEF q
<1>4. QED
    BY <1>1, <1>2, <1>3 DEF Need, q

\* The growth is large enough for the request and for a block.
LEMMA GrowthBound ==
    ASSUME NEW need \in Nat
    PROVE  /\ Growth(need) \in Nat /\ Growth(need) >= need
           /\ Growth(need) >= Header + Align
PROOF
<1> DEFINE q == (need + PageSize - 1) \div PageSize
           k == IF q < GrowPages THEN GrowPages ELSE q
<1>1. /\ PageSize \in Nat \ {0} /\ GrowPages \in Nat \ {0} /\ Header \in Nat
      /\ Align \in Nat /\ PageSize >= Header + Align
    BY HeapAssumption
<1>2. q \in Nat /\ q * PageSize >= need
    BY <1>1
<1> HIDE DEF q
<1>3. k \in Nat \ {0} /\ k >= q
    BY <1>1, <1>2
<1> HIDE DEF k
<1>4. k * PageSize >= q * PageSize /\ k * PageSize >= PageSize /\ k * PageSize \in Nat
    BY <1>1, <1>2, <1>3
<1>5. q * PageSize \in Nat
    BY <1>1, <1>2
<1>6. QED
    BY <1>1, <1>2, <1>4, <1>5 DEF Growth, k, q

\* The concrete end of kmalloc(): a fitting block of a well-formed list h is
\* taken.  Also states what the caller gets.
LEMMA TakeStep ==
    ASSUME IInv, state = "run",
           NEW h, NEW m, NEW end \in Nat, NEW size \in Sizes \ {0},
           end <= MaxEnd, Typed(h), TiledIn(h, end), CoalescedIn(h),
           DOMAIN h \subseteq m, m \subseteq Nat, magic \subseteq m,
           Used(h) = Used(heap), \A x \in Used(h) : h[x].size = heap[x].size,
           Fits(h, Need(size)) # {}, Take(h, m, end, size)
    PROVE  /\ IInv'
           /\ \E b \in DOMAIN heap' \ Used(heap) :
                /\ Used(heap') = Used(heap) \cup {b}
                /\ asked' = [x \in Used(heap') |-> IF x = b THEN size ELSE asked[x]]
                /\ heap'[b].size >= size + Header
                /\ \A x \in Used(heap) : heap'[x].size = heap[x].size
PROOF
<1> DEFINE need == Need(size)
           b == Least(Fits(h, need))
           s == Split(h, b, need)
<1>0. /\ size \in Nat \ {0} /\ Header \in Nat \ {0} /\ Align \in Nat \ {0}
    BY HeapAssumption
<1>1. need \in Nat /\ need >= Header + Align /\ need >= size + Header
    BY <1>0, NeedBound
<1>2. b \in DOMAIN h /\ h[b].free /\ h[b].size >= need
    <2>1. Fits(h, need) \in SUBSET Nat
        BY DEF Fits, Typed
    <2>2. b \in Fits(h, need)
        BY <2>1, LeastProp, SMTT(30)
    <2>3. QED
        BY <2>2 DEF Fits
<1>3. /\ heap' = SetFree(s, b, FALSE) /\ heapEnd' = end
      /\ magic' = ((m \cup DOMAIN s) \ (b + Header .. b + s[b].size - 1))
                  \ (IF Splits(h, b, need) THEN Overwritten(b + need) ELSE {})
      /\ asked' = [x \in DOMAIN asked \cup {b} |-> IF x = b THEN size ELSE asked[x]]
      /\ freed' = {p \in freed : p - Header < b \/ p - Header >= b + s[b].size}
      /\ state' = state /\ twice' = twice
    BY DEF Take
<1> HIDE DEF need, b, s
<1>s. Splits(h, b, need) => b + need \in DOMAIN s
    BY DEF s, Split, Put
<1>4. /\ Typed(heap') /\ TiledIn(heap', end) /\ CoalescedIn(heap')
      /\ Taken(h, heap', b, need)
      /\ DOMAIN heap' = DOMAIN s /\ heap'[b].size = s[b].size
    <2>1. need <= h[b].size
        BY <1>1, <1>2 DEF Typed, Headers
    <2>2. /\ Typed(SetFree(s, b, FALSE)) /\ TiledIn(SetFree(s, b, FALSE), end)
          /\ CoalescedIn(SetFree(s, b, FALSE)) /\ Taken(h, SetFree(s, b, FALSE), b, need)
          /\ DOMAIN SetFree(s, b, FALSE) = DOMAIN s
          /\ SetFree(s, b, FALSE)[b].size = s[b].size
        <3>1. need \in Nat /\ need >= Header + Align
            BY <1>1
        <3>2. b \in DOMAIN h /\ h[b].free
            BY <1>2
        <3>3. QED
            BY ONLY <3>1, <3>2, <2>1, TakeList, end \in Nat, Typed(h), TiledIn(h, end),
                    CoalescedIn(h), Zenon DEF s
    <2>3. QED
        BY <1>3, <2>2, Zenon
<1>5. b \notin Used(heap) /\ b \in DOMAIN heap'
    BY <1>2, <1>4 DEF Used, Taken
<1>6. Used(heap') = Used(heap) \cup {b}
    BY <1>2, <1>4 DEF Used, Taken
<1>7. \A x \in Used(heap) : heap'[x].size = heap[x].size
    BY <1>2, <1>4 DEF Used, Taken
<1>8. DOMAIN heap' \subseteq magic'
    <2>1. ASSUME NEW x \in DOMAIN heap' PROVE x \notin b + Header .. b + s[b].size - 1
        <3>1. /\ x \in Nat /\ b \in Nat /\ heap'[b].size \in Nat
              /\ heap'[x].size \in Nat
            BY <1>4, <1>5 DEF Typed, Headers
        <3>2. CASE x > b
            <4>1. b + heap'[b].size <= x
                BY <3>1, <3>2, <1>4, <1>5, SMTT(30) DEF TiledIn
            <4>2. QED
                BY <3>1, <4>1, <1>4, <1>0, SMTT(30)
        <3>3. CASE x <= b
            BY <3>1, <3>3, <1>0, <1>4
        <3>4. QED
            BY <3>1, <3>2, <3>3
    <2>2. ASSUME NEW x \in DOMAIN heap', Splits(h, b, need) PROVE x \notin Overwritten(b + need)
        <3>1. PICK n \in DOMAIN heap' : n = b + need
            BY <1>s, <1>4, <2>2
        <3>2. /\ x \in Nat /\ n \in Nat /\ heap'[n].size \in Nat /\ heap'[n].size >= Header + Align
              /\ n < x => n + heap'[n].size <= x
            BY <1>4, Zenon DEF Typed, Headers, TiledIn
        <3>3. x \notin n + 1 .. n + Header - 1
            BY <3>2, <1>0
        <3>4. QED
            BY <3>1, <3>3 DEF Overwritten
    <2>3. QED
        BY <2>1, <2>2, <1>3, <1>4, Zenon
<1>9. magic' \subseteq Nat
    BY <1>3, <1>4, Zenon DEF Typed
<1>10. DOMAIN asked' = Used(heap') /\ \A x \in DOMAIN asked' : asked'[x] \in Sizes
    BY <1>3, <1>6, Zenon DEF IInv
<1>11. IInv'
    <2>1. freed' \subseteq Nat
        BY <1>3, Zenon DEF IInv
    <2>2. QED
        BY <2>1, <1>3, <1>4, <1>8, <1>9, <1>10, Zenon DEF IInv
<1>12. heap'[b].size >= size + Header
    BY <1>0, <1>1, <1>4, <1>5 DEF Taken, Typed, Headers
<1>13. asked' = [x \in Used(heap') |-> IF x = b THEN size ELSE asked[x]]
    BY <1>3, <1>6, Zenon DEF IInv
<1>14. QED
    BY <1>5, <1>6, <1>7, <1>11, <1>12, <1>13

\* What the caller of kmalloc(size) sees, for the invariant and the contract.
Granted(size) ==
    \E b \in DOMAIN heap' \ Used(heap) :
        /\ Used(heap') = Used(heap) \cup {b}
        /\ asked' = [x \in Used(heap') |-> IF x = b THEN size ELSE asked[x]]
        /\ heap'[b].size >= size + Header
        /\ \A x \in Used(heap) : heap'[x].size = heap[x].size

\* kmalloc() either takes a block of the list or of the grown list, or stops
\* because physical memory is used up; its own two panics are out of reach.
LEMMA KmallocStep ==
    ASSUME IInv, NEW size \in Sizes, Kmalloc(size)
    PROVE  IInv' /\ (Granted(size) \/ UNCHANGED <<heap, asked>>)
PROOF
<1> DEFINE need == Need(size)
           grown == AppendFreeRegion(heap, heapEnd, Growth(need))
           end == heapEnd + Growth(need)
<1>1. state = "run" /\ size \in Sizes \ {0} /\ size \in Nat \ {0}
    BY HeapAssumption, Zenon DEF Kmalloc
<1>2. DOMAIN heap \subseteq magic
    BY Zenon DEF IInv
<1>3. need \in Nat
    BY <1>1, NeedBound
<1>4. /\ Growth(need) \in Nat /\ Growth(need) >= need /\ Growth(need) >= Header + Align
    BY <1>3, GrowthBound
<1>5. CASE Fits(heap, need) # {}
    <2>1. Take(heap, magic, heapEnd, size)
        BY <1>1, <1>2, <1>5 DEF Kmalloc
    <2>2. QED
        BY <2>1, <1>1, <1>2, <1>5, TakeStep, Zenon DEF IInv, Granted
<1>6. CASE Fits(heap, need) = {} /\ end > MaxEnd
    <2>1. Panic("no physical memory")
        BY <1>1, <1>2, <1>6, Zenon DEF Kmalloc
    <2>2. QED
        BY <2>1, Zenon DEF Panic, IInv, Used
<1>7. CASE Fits(heap, need) = {} /\ ~(end > MaxEnd)
    <2>1. /\ Typed(grown) /\ TiledIn(grown, end) /\ CoalescedIn(grown)
          /\ DOMAIN heap \subseteq DOMAIN grown
          /\ DOMAIN grown \subseteq DOMAIN heap \cup {heapEnd}
          /\ \A x \in DOMAIN heap : /\ grown[x].free = heap[x].free
                                    /\ ~heap[x].free => grown[x].size = heap[x].size
          /\ \A x \in DOMAIN grown : x \notin DOMAIN heap => grown[x].free
          /\ \E x \in DOMAIN grown : grown[x].free /\ grown[x].size >= Growth(need)
        BY <1>4, AppendList, ZenonT(30) DEF IInv
    <2> HIDE DEF grown
    <2>2. Fits(grown, need) # {}
        <3>1. PICK x \in DOMAIN grown : grown[x].free /\ grown[x].size >= Growth(need)
            BY <2>1
        <3>2. grown[x].size \in Nat
            BY <2>1 DEF Typed, Headers
        <3>3. grown[x].size >= need
            BY <3>1, <3>2, <1>3, <1>4
        <3>4. QED
            BY <3>1, <3>3 DEF Fits
    <2>3. Take(grown, magic \cup {heapEnd}, end, size)
        BY <1>1, <1>2, <1>7, <2>2, Zenon DEF Kmalloc, grown
    <2>4. Used(grown) = Used(heap)
        BY <2>1 DEF Used
    <2>5. \A x \in Used(grown) : grown[x].size = heap[x].size
        BY <2>1, <2>4 DEF Used
    <2>6. end \in Nat /\ end <= MaxEnd
        <3>1. MaxEnd \in Nat /\ heapEnd \in Nat
            BY HeapAssumption, Zenon DEF IInv
        <3>2. QED
            BY <3>1, <1>4, <1>7
    <2>7. /\ DOMAIN grown \subseteq magic \cup {heapEnd}
          /\ magic \cup {heapEnd} \subseteq Nat /\ magic \subseteq magic \cup {heapEnd}
        BY <2>1, Zenon DEF IInv
    <2> HIDE DEF end, need
    <2>8. Fits(grown, Need(size)) # {}
        BY <2>2 DEF need
    <2>9. IInv' /\ Granted(size)
        BY <1>1, <2>1, <2>3, <2>4, <2>5, <2>6, <2>7, <2>8, TakeStep, Zenon DEF Granted
    <2>10. QED
        BY <2>9
<1>8. QED
    BY <1>5, <1>6, <1>7

\* kfree() of an owner releases its block and no other; its check passes.
LEMMA KfreeStep ==
    ASSUME IInv, NEW b \in DOMAIN heap, Kfree(b)
    PROVE  /\ IInv'
           /\ b \in Used(heap) /\ Used(heap') = Used(heap) \ {b}
           /\ asked' = [x \in Used(heap') |-> asked[x]]
           /\ \A x \in Used(heap') : heap'[x].size = heap[x].size
PROOF
<1>1. /\ b \in magic /\ state = "run" /\ ~heap[b].free
      /\ heap' = CoalesceBackward(CoalesceForward(SetFree(heap, b, TRUE), b), b)
      /\ asked' = [x \in DOMAIN asked \ {b} |-> asked[x]]
      /\ freed' \subseteq freed \cup {b + Header}
      /\ heapEnd' = heapEnd /\ magic' = magic /\ state' = state /\ twice' = twice
    BY Zenon DEF Kfree, IInv
<1>2. /\ Typed(heap') /\ TiledIn(heap', heapEnd) /\ CoalescedIn(heap')
      /\ DOMAIN heap' \subseteq DOMAIN heap
      /\ Used(heap') = Used(heap) \ {b}
      /\ \A x \in Used(heap') : heap'[x].size = heap[x].size
    <2>1. Typed(heap) /\ TiledIn(heap, heapEnd) /\ CoalescedIn(heap) /\ heapEnd \in Nat
        BY Zenon DEF IInv
    <2> DEFINE g == CoalesceBackward(CoalesceForward(SetFree(heap, b, TRUE), b), b)
    <2>2. ~heap[b].free /\ heap' = g
        BY <1>1, Zenon
    <2>3. /\ Typed(g) /\ TiledIn(g, heapEnd) /\ CoalescedIn(g)
          /\ DOMAIN g \subseteq DOMAIN heap
          /\ Used(g) = Used(heap) \ {b}
          /\ \A x \in Used(g) : g[x].size = heap[x].size
        BY ONLY b \in DOMAIN heap, <2>1, <2>2, FreeList, Zenon
    <2> HIDE DEF g
    <2>4. QED
        BY <2>2, <2>3, Zenon
<1>3. b \in Used(heap)
    BY <1>1 DEF Used
<1>4. asked' = [x \in Used(heap') |-> asked[x]]
    BY <1>1, <1>2, Zenon DEF IInv
<1>5. b + Header \in Nat
    <2>1. b \in Nat /\ Header \in Nat
        BY HeapAssumption, Zenon DEF IInv, Typed
    <2>2. QED
        BY <2>1
<1>6. IInv'
    BY <1>1, <1>2, <1>4, <1>5, Zenon DEF IInv
<1>7. QED
    BY <1>2, <1>3, <1>4, <1>6

\* The second kfree() of a pointer changes no list.
LEMMA KfreeAgainStep ==
    ASSUME IInv, NEW p \in freed, KfreeAgain(p)
    PROVE  IInv' /\ UNCHANGED <<heap, asked>>
PROOF
<1>1. /\ twice' = TRUE /\ UNCHANGED <<heap, heapEnd, magic, asked, freed>>
      /\ state' = state \/ state' = "bad or already-freed pointer"
    BY Zenon DEF KfreeAgain
<1>2. state = "run"
    BY Zenon DEF KfreeAgain
<1>3. IInv'
    BY <1>1, <1>2, Zenon DEF IInv, Used
<1>4. QED
    BY <1>1, <1>3

-----------------------------------------------------------------------------
\* heap_init() establishes the invariant.
LEMMA InvInit == Init => IInv
PROOF
<1> SUFFICES ASSUME Init PROVE IInv
    OBVIOUS
<1> DEFINE first == FirstPages * PageSize
<1>1. /\ first \in Nat /\ Base \in Nat \ {0} /\ first >= Header + Align
      /\ Base + first <= MaxEnd /\ Header \in Nat \ {0} /\ Align \in Nat \ {0}
    BY HeapAssumption
<1>2. /\ heap = [x \in {Base} |-> Block(first, TRUE, Null)] /\ heapEnd = Base + first
      /\ magic = {Base} /\ state = "run" /\ asked = [b \in {} |-> 0]
      /\ freed = {} /\ twice = FALSE
    BY DEF Init
<1> HIDE DEF first
<1>3. /\ DOMAIN heap = {Base} /\ heap[Base].size = first /\ heap[Base].free = TRUE
      /\ heap[Base].next = Null /\ heap[Base] \in Headers
    BY <1>1, <1>2 DEF Block, Headers, Null
<1>4. Typed(heap)
    BY <1>1, <1>2, <1>3, Zenon DEF Typed
<1>5. CoalescedIn(heap)
    BY <1>3 DEF CoalescedIn
<1>6. TiledIn(heap, heapEnd)
    <2>1. /\ Base >= Base /\ ~(Base < Base) /\ first >= Header + Align
          /\ Base + first <= Base + first /\ heapEnd = Base + first
        <3>1. heapEnd = Base + first
            BY <1>2
        <3>2. QED
            BY <1>1, <3>1
    <2>2. QED
        BY <2>1, <1>3 DEF TiledIn
<1>7. DOMAIN asked = {} /\ Used(heap) = {}
    BY <1>2, <1>3, Zenon DEF Used
<1>8. heapEnd \in Nat /\ heapEnd <= MaxEnd
    BY <1>1, <1>2
<1>9. DOMAIN heap \subseteq magic /\ magic \subseteq Nat
    BY <1>1, <1>2, <1>3
<1>10. QED
    BY <1>2, <1>4, <1>5, <1>6, <1>7, <1>8, <1>9, Zenon DEF IInv

\* Every call keeps the invariant.
LEMMA InvStep == IInv /\ [Next]_vars => IInv'
PROOF
<1> SUFFICES ASSUME IInv, [Next]_vars PROVE IInv'
    OBVIOUS
<1>1. CASE UNCHANGED vars
    BY <1>1, Zenon DEF vars, IInv, Used
<1>2. CASE Next
    BY <1>2, KmallocStep, KfreeStep, KfreeAgainStep DEF Next
<1>3. QED
    BY <1>1, <1>2

\* For every heap geometry and every order of kmalloc() and kfree() calls the
\* list tiles the heap window in address order, no two neighbours are free, no header
\* of the list is overwritten, and no consistency panic of heap.c fires but the one
\* that refuses a pointer freed before.
THEOREM HeapSafety == Spec => [](TypeOK /\ HeapSound)
PROOF
<1>1. IInv => TypeOK /\ HeapSound
    <2> SUFFICES ASSUME IInv PROVE TypeOK /\ HeapSound
        OBVIOUS
    <2>1. HeapSound
        BY Zenon DEF IInv, HeapSound, Tiled, Coalesced, CoalescedIn, NeverCorrupt
    <2>2. MaxEnd \in Nat /\ Header \in Nat /\ Align \in Nat /\ Base \in Nat
        BY HeapAssumption
    <2>3. ASSUME NEW b \in DOMAIN heap
          PROVE  heap[b] \in [size : Header .. MaxEnd, free : BOOLEAN, next : 0 .. MaxEnd]
        <3>1. b \in Nat /\ heap[b] \in Headers /\ heapEnd \in Nat /\ heapEnd <= MaxEnd
            BY Zenon DEF IInv, Typed
        <3>2. /\ heap[b].size >= Header + Align /\ b + heap[b].size <= heapEnd
              /\ heap[b].next = Null \/ heap[b].next = b + heap[b].size
            BY Zenon DEF IInv, TiledIn
        <3>3. heap[b].size \in Header .. MaxEnd /\ heap[b].next \in 0 .. MaxEnd
            BY <2>2, <3>1, <3>2 DEF Headers, Null
        <3>4. QED
            BY <3>1, <3>3 DEF Headers
    <2>4. DOMAIN heap \subseteq Nat /\ heapEnd \in 0 .. MaxEnd
        <3>1. DOMAIN heap \subseteq Nat /\ heapEnd \in Nat /\ heapEnd <= MaxEnd
            BY Zenon DEF IInv, Typed
        <3>2. QED
            BY <2>2, <3>1
    <2>5. TypeOK
        BY <2>3, <2>4, Zenon DEF IInv, TypeOK, Used
    <2>6. QED
        BY <2>1, <2>5
<1>2. QED
    BY <1>1, InvInit, InvStep, PTL DEF Spec

-----------------------------------------------------------------------------
Live == {Region(b) : b \in {x \in DOMAIN heap : ~heap[x].free}}

\* A granted block is a new region, apart from the live ones.
LEMMA GrantMaps ==
    ASSUME IInv, IInv', NEW size \in Sizes \ {0}, Granted(size)
    PROVE  Contract!Grant(size)
PROOF
<1>0. Header \in Nat \ {0} /\ Align \in Nat /\ MaxEnd \in Nat /\ size \in Nat
    BY HeapAssumption
<1>1. PICK b \in DOMAIN heap' \ Used(heap) :
        /\ Used(heap') = Used(heap) \cup {b}
        /\ asked' = [x \in Used(heap') |-> IF x = b THEN size ELSE asked[x]]
        /\ heap'[b].size >= size + Header
        /\ \A x \in Used(heap) : heap'[x].size = heap[x].size
    BY DEF Granted
<1>2. /\ \A x \in DOMAIN heap' : x \in Nat /\ heap'[x].size \in Nat
      /\ \A x \in DOMAIN heap' : heap'[x].size >= Header + Align /\ x + heap'[x].size <= heapEnd'
      /\ heapEnd' \in Nat /\ heapEnd' <= MaxEnd
    BY Zenon DEF IInv, Typed, Headers, TiledIn
<1>3. Used(heap') \subseteq DOMAIN heap' /\ Used(heap) \subseteq DOMAIN heap
      /\ b \in Used(heap')
    BY <1>1 DEF Used
<1> DEFINE r == Region(b)'
<1>4. r = [at |-> b + Header, len |-> heap'[b].size - Header, asked |-> size]
    BY <1>1, <1>3 DEF Region
<1>5. \A x \in Used(heap) : Region(x)' = Region(x)
    BY <1>1, <1>3 DEF Region
<1>6. Live = {Region(x) : x \in Used(heap)} /\ Live' = {Region(x)' : x \in Used(heap')}
    BY DEF Live, Used
<1>7. Live' = Live \cup {r}
    BY <1>1, <1>5, <1>6
<1>8. ASSUME NEW x \in Used(heap)
      PROVE  Region(x) # r /\ Contract!Apart(r, Region(x))
    <2>1. x \in DOMAIN heap' /\ x # b /\ x \in Nat /\ b \in Nat /\ heap'[x].size = heap[x].size
        BY <1>1, <1>2, <1>3
    <2>2. x < b => x + heap'[x].size <= b
        BY <2>1, Zenon DEF IInv, TiledIn
    <2>3. b < x => b + heap'[b].size <= x
        BY <2>1, Zenon DEF IInv, TiledIn
    <2>4. Region(x).at = x + Header /\ Region(x).len = heap'[x].size - Header
        BY <2>1 DEF Region
    <2>5. r.at = b + Header /\ r.len = heap'[b].size - Header
        BY <1>4
    <2> HIDE DEF r
    <2>6. r.at # Region(x).at
        BY <2>1, <2>4, <2>5, <1>0
    <2>7. Contract!Apart(r, Region(x))
        BY <2>1, <2>2, <2>3, <2>4, <2>5, <1>0, <1>2 DEF Contract!Apart
    <2>8. QED
        BY <2>6, <2>7
<1>9. r \in Live' \ Live
    BY <1>6, <1>7, <1>8
<1>10. /\ r.asked = size /\ r.len >= size /\ r.at \in 0 .. MaxEnd
       /\ r.at + r.len \in 0 .. MaxEnd
    BY <1>0, <1>1, <1>2, <1>4
<1>11. \A s \in Live : Contract!Apart(r, s)
    BY <1>6, <1>8
<1> HIDE DEF r
<1>12. QED
    BY <1>7, <1>9, <1>10, <1>11, Zenon DEF Contract!Grant, Live

\* A freed block is one live region less.
LEMMA ReleaseMaps ==
    ASSUME IInv, IInv', NEW b \in Used(heap), Used(heap') = Used(heap) \ {b},
           asked' = [x \in Used(heap') |-> asked[x]],
           \A x \in Used(heap') : heap'[x].size = heap[x].size
    PROVE  Region(b) \in Live /\ Contract!Release(Region(b))
PROOF
<1>1. Live = {Region(x) : x \in Used(heap)} /\ Live' = {Region(x)' : x \in Used(heap')}
    BY DEF Live, Used
<1>2. \A x \in Used(heap') : Region(x)' = Region(x)
    BY DEF Region
<1>3. \A x \in Used(heap) : x # b => Region(x) # Region(b)
    <2>1. Header \in Nat /\ \A x \in Used(heap) : x \in Nat
        BY HeapAssumption, Zenon DEF Used, IInv, Typed
    <2>2. \A x \in Used(heap) : Region(x).at = x + Header
        BY DEF Region
    <2>3. QED
        BY <2>1, <2>2
<1>4. Live' = Live \ {Region(b)}
    BY <1>1, <1>2, <1>3
<1>5. QED
    BY <1>1, <1>4 DEF Contract!Release, Live

\* kmalloc() and kfree() implement the allocator contract: every region granted
\* is large enough and apart from all live ones, and kfree() ends exactly one.
THEOREM HeapRefinement == Spec => GrantsApart
PROOF
<1>1. Init => Contract!AllocatorInit
    <2> SUFFICES ASSUME Init PROVE Live = {}
        BY DEF Contract!AllocatorInit, Live
    <2>1. \A x \in DOMAIN heap : heap[x].free
        BY DEF Init, Block
    <2>2. QED
        BY <2>1 DEF Live
<1>2. IInv /\ IInv' /\ [Next]_vars => [Contract!AllocatorNext]_Live
    <2> SUFFICES ASSUME IInv, IInv', [Next]_vars
                 PROVE  Contract!AllocatorNext \/ Live' = Live
        OBVIOUS
    <2>1. UNCHANGED <<heap, asked>> => Live' = Live
        BY DEF Live, Region
    <2>2. CASE UNCHANGED vars
        BY <2>1, <2>2 DEF vars
    <2>3. ASSUME NEW size \in Sizes, Kmalloc(size)
          PROVE  Contract!AllocatorNext \/ Live' = Live
        <3>1. size \in Sizes \ {0}
            BY <2>3, Zenon DEF Kmalloc
        <3>2. CASE Granted(size)
            BY <3>1, <3>2, GrantMaps DEF Contract!AllocatorNext
        <3>3. QED
            BY <2>1, <2>3, <3>2, KmallocStep
    <2>4. ASSUME NEW b \in DOMAIN heap, Kfree(b) PROVE Contract!AllocatorNext
        <3>1. Region(b) \in Live /\ Contract!Release(Region(b))
            BY <2>4, KfreeStep, ReleaseMaps
        <3>2. \E r \in Live : Contract!Release(r)
            BY <3>1 DEF Contract!Release
        <3>3. QED
            BY <3>2, Zenon DEF Contract!AllocatorNext, Live
    <2>5. ASSUME NEW p \in freed, KfreeAgain(p) PROVE Live' = Live
        BY <2>1, <2>5, KfreeAgainStep
    <2>6. QED
        BY <2>2, <2>3, <2>4, <2>5 DEF Next
<1>3. [Contract!AllocatorNext]_Live => [Contract!AllocatorNext]_(
            {Region(b) : b \in {x \in DOMAIN heap : ~heap[x].free}})
    BY DEF Live
<1>4. QED
    BY <1>1, <1>2, <1>3, InvInit, InvStep, PTL
       DEF Spec, GrantsApart, Contract!AllocatorSpec

-----------------------------------------------------------------------------
(* Remainders: the slots of a ring. *)

\* A multiple below another one has a smaller factor.
LEMMA SmallerFactor ==
    ASSUME NEW n \in Nat, NEW q \in Int, NEW r \in Int, n * q < n * r
    PROVE  q < r
PROOF
<1>1. ASSUME r <= q PROVE FALSE
    <2>1. PICK d \in Nat : q = r + d
        BY <1>1
    <2>2. n * q = n * r + n * d /\ n * d \in Nat /\ n * r \in Int
        BY <2>1
    <2> QED
        BY <2>2
<1> QED
    BY <1>1

\* A quotient is the number of whole divisors.
LEMMA QuotientIs ==
    ASSUME NEW n \in Nat, n > 0, NEW q \in Int, NEW r \in 0 .. n - 1
    PROVE  (n * q + r) \div n = q /\ (n * q + r) % n = r
PROOF
<1>1. n * q \in Int
    OBVIOUS
<1>2. PICK m \in Int : m = n * q + r
    BY <1>1
<1>3. PICK k \in Int, s \in Int : k = m \div n /\ s = m % n
    OBVIOUS
<1>4. m = n * k + s /\ 0 <= s /\ s < n /\ n * k \in Int
    BY <1>3
<1>5. n * (q + 1) = n * q + n /\ n * (k + 1) = n * k + n
    OBVIOUS
<1>6. n * q < n * (k + 1) /\ n * k < n * (q + 1)
    BY <1>1, <1>2, <1>4, <1>5
<1>7. q < k + 1 /\ k < q + 1
    BY <1>6, SmallerFactor
<1>8. k = q
    BY <1>7
<1>9. s = r
    BY <1>1, <1>2, <1>4, <1>8
<1> QED
    BY <1>2, <1>3, <1>8, <1>9

\* A remainder is below the divisor, and the rest is a multiple of it.
LEMMA ModProp ==
    ASSUME NEW a \in Int, NEW n \in Nat, n > 0
    PROVE  /\ a % n \in 0 .. n - 1
           /\ \E q \in Int : a = n * q + (a % n)
PROOF
<1>1. a % n \in 0 .. n - 1
    OBVIOUS
<1>2. PICK q \in Int : q = a \div n
    OBVIOUS
<1>3. a = n * q + (a % n)
    BY <1>2
<1> QED
    BY <1>1, <1>3

\* Counting on from a remainder or from the number itself leads to the same slot.
LEMMA ModAdd ==
    ASSUME NEW a \in Int, NEW k \in Int, NEW n \in Nat, n > 0
    PROVE  ((a % n) + k) % n = (a + k) % n
PROOF
<1>1. PICK r \in 0 .. n - 1, q \in Int : r = a % n /\ a = n * q + r
    BY ModProp
<1>2. r + k \in Int /\ a + k \in Int
    OBVIOUS
<1>3. PICK s \in 0 .. n - 1, t \in Int : s = (r + k) % n /\ r + k = n * t + s
    BY <1>2, ModProp
<1>4. a + k = n * (q + t) + s
    <2>1. n * (q + t) = n * q + n * t /\ n * q \in Int /\ n * t \in Int
        OBVIOUS
    <2> QED
        BY <1>1, <1>3, <2>1
<1>5. q + t \in Int
    OBVIOUS
<1>6. (n * (q + t) + s) % n = s
    BY <1>5, QuotientIs
<1> QED
    BY <1>1, <1>3, <1>4, <1>6

\* Fewer than n consecutive numbers have different slots.
LEMMA ModInjective ==
    ASSUME NEW a \in Int, NEW b \in Int, NEW n \in Nat, n > 0,
           a % n = b % n, a < b + n, b < a + n
    PROVE  a = b
PROOF
<1>1. PICK r \in 0 .. n - 1, q \in Int : r = a % n /\ a = n * q + r
    BY ModProp
<1>2. PICK t \in Int : b = n * t + r
    BY <1>1, ModProp
<1>3. n * (q + 1) = n * q + n /\ n * (t + 1) = n * t + n /\ n * q \in Int /\ n * t \in Int
    OBVIOUS
<1>4. n * q < n * (t + 1) /\ n * t < n * (q + 1)
    BY <1>1, <1>2, <1>3
<1>5. q < t + 1 /\ t < q + 1
    BY <1>4, SmallerFactor
<1> QED
    BY <1>1, <1>2, <1>5

\* The difference of two slots is the distance of their numbers.
LEMMA ModDiff ==
    ASSUME NEW a \in Int, NEW b \in Int, NEW n \in Nat, n > 0, b <= a, a < b + n
    PROVE  ((a % n) - (b % n)) % n = a - b
PROOF
<1>1. PICK r \in 0 .. n - 1, q \in Int : r = a % n /\ a = n * q + r
    BY ModProp
<1>2. PICK s \in 0 .. n - 1, t \in Int : s = b % n /\ b = n * t + s
    BY ModProp
<1>3. r - s = n * (t - q) + (a - b)
    <2>1. n * (t - q) = n * t - n * q /\ n * q \in Int /\ n * t \in Int
        OBVIOUS
    <2> QED
        BY <1>1, <1>2, <2>1
<1>4. t - q \in Int /\ a - b \in 0 .. n - 1
    OBVIOUS
<1>5. (n * (t - q) + (a - b)) % n = a - b
    BY <1>4, QuotientIs
<1> QED
    BY <1>1, <1>2, <1>3, <1>5

\* One turn further is the same slot.
LEMMA ModTurn ==
    ASSUME NEW a \in Int, NEW n \in Nat, n > 0
    PROVE  (a + n) % n = a % n
PROOF
<1>1. PICK r \in 0 .. n - 1, q \in Int : r = a % n /\ a = n * q + r
    BY ModProp
<1>2. a + n = n * (q + 1) + r /\ q + 1 \in Int
    BY <1>1
<1>3. (n * (q + 1) + r) % n = r
    BY <1>2, QuotientIs
<1> QED
    BY <1>1, <1>2, <1>3

-----------------------------------------------------------------------------

Byte == 0 .. 255
Chars == Byte \X BOOLEAN
Slots == 0 .. RingSize - 1

\* Characters whose slot has been given back: the one just copied still has its slot.
ReadOut == IF reader.pc = "store" THEN Len(reader.got) - 1 ELSE Len(reader.got)

RingTypes ==
    /\ ring \in [buf : [Slots -> Chars], head : Slots, tail : Slots]
    /\ pushed \in Seq(Chars)
    /\ reader \in [pc : {"wait", "copy", "store"}, n : Nat, got : Seq(Chars)]

RingInv ==
    /\ ReadOut \in Nat /\ ReadOut <= Len(pushed) /\ Len(pushed) < ReadOut + RingSize
    /\ ring.head = Len(pushed) % RingSize /\ ring.tail = ReadOut % RingSize
    /\ \A j \in ReadOut .. Len(pushed) - 1 : ring.buf[j % RingSize] = pushed[j + 1]
    /\ Len(reader.got) <= Len(pushed)
    /\ \A i \in 1 .. Len(reader.got) : reader.got[i] = pushed[i]

\* With another driver for the pointer no thread ever gets past the entry of mouse_poll().
PortInv ==
    /\ kq \in Seq(Byte) /\ aq = <<>> /\ (ob # NoByte => ob \in [aux : BOOLEAN, val : Byte])
    /\ keys \in [shift : BOOLEAN, caps : BOOLEAN]
    /\ \A p \in Pollers : poll[p].pc = "idle"

KeyInv == backend = "other" => RingTypes /\ RingInv /\ PortInv

-----------------------------------------------------------------------------
(* Ring arithmetic. *)

\* A push that does not find the ring full takes a slot in which nobody waits.
LEMMA PushSlot ==
    ASSUME NEW n \in Nat \ {0}, NEW p \in Nat, NEW t \in Nat, t <= p, p < t + n,
           ((p % n) + 1) % n # t % n
    PROVE  /\ ((p % n) + 1) % n = (p + 1) % n
           /\ p + 1 < t + n
           /\ \A j \in t .. p - 1 : j % n # p % n
PROOF
<1>1. ((p % n) + 1) % n = (p + 1) % n
    BY ModAdd
<1>2. p + 1 # t + n
    <2> SUFFICES ASSUME p + 1 = t + n PROVE FALSE
        OBVIOUS
    <2>1. t \in Int /\ n \in Nat /\ n > 0
        OBVIOUS
    <2>2. (t + n) % n = t % n
        BY <2>1, ModTurn, SMTT(30)
    <2> QED
        BY <1>1, <2>2
<1>3. ASSUME NEW j \in t .. p - 1, j % n = p % n PROVE FALSE
    <2>1. j \in Int /\ j < p + n /\ p < j + n /\ j # p
        OBVIOUS
    <2> QED
        BY <1>3, <2>1, ModInjective
<1> QED
    BY <1>1, <1>2, <1>3

\* A sequence in two pieces.
LEMMA TwoPieces ==
    ASSUME NEW S, NEW s \in Seq(S), NEW w \in Seq(S), NEW p \in Seq(S),
           Len(s) + Len(w) = Len(p),
           \A i \in 1 .. Len(s) : s[i] = p[i],
           \A i \in 1 .. Len(w) : w[i] = p[Len(s) + i]
    PROVE  s \o w = p
PROOF
<1>1. Len(s) \in Nat /\ Len(w) \in Nat /\ Len(p) \in Nat
    OBVIOUS
<1>2. s \o w \in Seq(S) /\ Len(s \o w) = Len(p)
    OBVIOUS
<1>3. ASSUME NEW i \in 1 .. Len(p) PROVE (s \o w)[i] = p[i]
    <2>1. (s \o w)[i] = IF i <= Len(s) THEN s[i] ELSE w[i - Len(s)]
        OBVIOUS
    <2>2. CASE i <= Len(s)
        BY <1>1, <2>1, <2>2
    <2>3. CASE ~(i <= Len(s))
        <3>1. i - Len(s) \in 1 .. Len(w) /\ Len(s) + (i - Len(s)) = i
            BY <1>1, <2>3
        <3> QED
            BY <2>1, <2>3, <3>1
    <2> QED
        BY <2>2, <2>3
<1>4. \A q \in Seq(S) : q = [i \in 1 .. Len(q) |-> q[i]]
    OBVIOUS
<1>5. [i \in 1 .. Len(p) |-> (s \o w)[i]] = [i \in 1 .. Len(p) |-> p[i]]
    BY <1>3, Zenon
<1> QED
    BY <1>2, <1>4, <1>5, Zenon

\* What the invariant says of the sequences is KeysInOrder.
LEMMA RingIsOrdered == ASSUME RingTypes, RingInv PROVE Copied \o Waiting = pushed
PROOF
<1>0. RingSize \in Nat /\ RingSize > 0
    BY InputAssumption
<1>1. PICK t \in Nat, p \in Nat : t = ReadOut /\ p = Len(pushed)
    <2>1. ReadOut \in Nat /\ Len(pushed) \in Nat
        BY DEF RingInv, RingTypes
    <2> QED
        BY <2>1, SMTT(30)
<1>2. t <= p /\ p < t + RingSize /\ ring.head = p % RingSize /\ ring.tail = t % RingSize
    BY <1>1 DEF RingInv
<1>3. Copied \in Seq(Chars) /\ Len(Copied) = t /\ \A i \in 1 .. t : Copied[i] = pushed[i]
    BY <1>1 DEF Copied, ReadOut, RingInv, RingTypes
<1>4. (ring.head - ring.tail) % RingSize = p - t
    <2>1. t \in Int /\ p \in Int
        OBVIOUS
    <2>2. ((p % RingSize) - (t % RingSize)) % RingSize = p - t
        BY <1>0, <1>2, <2>1, ModDiff, Zenon
    <2> QED
        BY <1>2, <2>2
<1>5. ASSUME NEW i \in 1 .. p - t
      PROVE  /\ ring.buf[(ring.tail + i - 1) % RingSize] = pushed[t + i]
             /\ pushed[t + i] \in Chars
    <2>1. PICK j \in t .. p - 1 : j = t + (i - 1)
        OBVIOUS
    <2>2. ((t % RingSize) + (i - 1)) % RingSize = j % RingSize
        <3>1. t \in Int /\ i - 1 \in Int
            OBVIOUS
        <3> QED
            BY <1>0, <2>1, <3>1, ModAdd, Zenon
    <2>3. ring.tail + i - 1 = (t % RingSize) + (i - 1)
        BY <1>0, <1>2
    <2>4. ring.buf[j % RingSize] = pushed[j + 1]
        BY <1>1 DEF RingInv
    <2>5. j + 1 = t + i /\ t + i \in 1 .. Len(pushed)
        BY <1>1, <2>1
    <2> QED
        BY <2>2, <2>3, <2>4, <2>5 DEF RingTypes
<1>6. /\ Waiting \in Seq(Chars) /\ Len(Waiting) = p - t
      /\ \A i \in 1 .. p - t : Waiting[i] = pushed[t + i]
    <2>1. Waiting = [i \in 1 .. p - t |-> ring.buf[(ring.tail + i - 1) % RingSize]]
        BY <1>4 DEF Waiting
    <2>2. p - t \in Nat
        BY <1>2
    <2>3. DEFINE w == [i \in 1 .. p - t |-> pushed[t + i]]
    <2>4. Waiting = w
        BY <1>5, <2>1
    <2>5. \A i \in 1 .. p - t : pushed[t + i] \in Chars
        BY <1>5, Zenon
    <2>6. w \in Seq(Chars) /\ Len(w) = p - t /\ \A i \in 1 .. p - t : w[i] = pushed[t + i]
        BY <2>2, <2>5
    <2> QED
        BY <2>4, <2>6, Zenon
<1>7. Len(Copied) + Len(Waiting) = Len(pushed)
    BY <1>1, <1>2, <1>3, <1>6
<1>8. /\ \A i \in 1 .. Len(Copied) : Copied[i] = pushed[i]
      /\ \A i \in 1 .. Len(Waiting) : Waiting[i] = pushed[Len(Copied) + i]
    BY <1>3, <1>6
<1> QED
    BY <1>3, <1>6, <1>7, <1>8, TwoPieces, Zenon DEF RingTypes

-----------------------------------------------------------------------------
(* The steps of the keyboard and of the reader. *)

\* ring_push() of a character while the ring is not full.
LEMMA PushKeeps ==
    ASSUME RingTypes, RingInv, NEW c \in Chars, ~RingFull(ring.head, ring.tail),
           ring' = Push(ring, ring.head, c), pushed' = Append(pushed, c), reader' = reader
    PROVE  RingTypes' /\ RingInv'
PROOF
<1>0. RingSize \in Nat /\ RingSize > 0
    BY InputAssumption
<1>1. PICK t \in Nat, p \in Nat : t = ReadOut /\ p = Len(pushed)
    <2>1. ReadOut \in Nat /\ Len(pushed) \in Nat
        BY SMTT(30) DEF RingInv, RingTypes
    <2> QED
        BY <2>1
<1>2. t <= p /\ p < t + RingSize /\ ring.head = p % RingSize /\ ring.tail = t % RingSize
    BY <1>1 DEF RingInv
<1>3. ((p % RingSize) + 1) % RingSize # t % RingSize
    BY <1>2 DEF RingFull, NextSlot
<1>4. /\ ((p % RingSize) + 1) % RingSize = (p + 1) % RingSize
      /\ p + 1 < t + RingSize
      /\ \A j \in t .. p - 1 : j % RingSize # p % RingSize
    <2>1. RingSize \in Nat \ {0}
        BY <1>0
    <2> QED
        BY <1>2, <1>3, <2>1, PushSlot, Zenon
<1>5. /\ pushed' \in Seq(Chars) /\ Len(pushed') = p + 1 /\ pushed'[p + 1] = c
      /\ \A i \in 1 .. p : pushed'[i] = pushed[i]
    BY <1>1 DEF RingTypes
<1>6. /\ ring'.head = (p + 1) % RingSize /\ ring'.tail = t % RingSize
      /\ ring'.buf = [ring.buf EXCEPT ![p % RingSize] = c]
    BY <1>2, <1>4 DEF Push, NextSlot, RingTypes
<1>7. p % RingSize \in Slots /\ (p + 1) % RingSize \in Slots
    BY <1>0 DEF Slots
<1>8. RingTypes'
    <2>1. ring' \in [buf : [Slots -> Chars], head : Slots, tail : Slots]
        <3>1. PICK r \in [buf : [Slots -> Chars], head : Slots, tail : Slots] : r = ring
            BY DEF RingTypes
        <3>2. NextSlot(r.head) \in Slots
            BY <1>2, <1>4, <1>7, <3>1 DEF NextSlot
        <3>3. [r EXCEPT !.buf[r.head] = c, !.head = NextSlot(r.head)]
                  \in [buf : [Slots -> Chars], head : Slots, tail : Slots]
            BY <3>2, Zenon
        <3> QED
            BY <3>1, <3>3 DEF Push
    <2> QED
        BY <1>5, <2>1 DEF RingTypes
<1>9. ReadOut' = t
    BY <1>1 DEF ReadOut
<1>10. \A j \in t .. p : ring'.buf[j % RingSize] = pushed'[j + 1]
    <2>1. ASSUME NEW j \in t .. p - 1 PROVE ring'.buf[j % RingSize] = pushed'[j + 1]
        <3>1. j % RingSize \in Slots /\ j % RingSize # p % RingSize
            BY <1>0, <1>4 DEF Slots
        <3>2. ring'.buf[j % RingSize] = ring.buf[j % RingSize]
            BY <1>6, <3>1 DEF RingTypes
        <3>3. ring.buf[j % RingSize] = pushed[j + 1]
            BY <1>1 DEF RingInv
        <3>4. pushed'[j + 1] = pushed[j + 1]
            BY <1>5
        <3> QED
            BY <3>2, <3>3, <3>4
    <2>2. ring'.buf[p % RingSize] = c
        BY <1>6, <1>7 DEF RingTypes
    <2> QED
        BY <1>2, <1>5, <2>1, <2>2
<1>11. Len(reader.got) \in Nat /\ Len(reader.got) <= p
       /\ \A i \in 1 .. Len(reader.got) : reader.got[i] = pushed[i]
    <2>1. Len(reader.got) \in Nat
        BY DEF RingTypes
    <2> QED
        BY <1>1, <2>1 DEF RingInv
<1>12. \A i \in 1 .. Len(reader.got) : reader.got[i] = pushed'[i]
    BY <1>5, <1>11
<1>13. ReadOut' \in Nat /\ ReadOut' <= Len(pushed)' /\ Len(pushed)' < ReadOut' + RingSize
    BY <1>0, <1>2, <1>4, <1>5, <1>9
<1>14. ring'.head = Len(pushed)' % RingSize /\ ring'.tail = ReadOut' % RingSize
    BY <1>5, <1>6, <1>9
<1>15. \A j \in ReadOut' .. Len(pushed)' - 1 : ring'.buf[j % RingSize] = pushed'[j + 1]
    <2>1. ReadOut' .. Len(pushed)' - 1 = t .. p
        BY <1>5, <1>9
    <2> QED
        BY <1>10, <2>1, Zenon
<1>16. Len(reader.got)' <= Len(pushed)' /\ Len(reader.got)' = Len(reader.got)
    BY <1>5, <1>11
<1>17. \A i \in 1 .. Len(reader.got)' : reader.got'[i] = pushed'[i]
    BY <1>12, Zenon
<1> QED
    BY <1>8, <1>13, <1>14, <1>15, <1>16, <1>17 DEF RingInv

\* keyboard_ps2_handle_byte(): the modifiers, and the character if there is one.
LEMMA HandleKeyKeeps ==
    ASSUME RingTypes, RingInv, keys \in [shift : BOOLEAN, caps : BOOLEAN],
           NEW sc \in Byte, HandleKey(sc), reader' = reader
    PROVE  RingTypes' /\ RingInv' /\ keys' \in [shift : BOOLEAN, caps : BOOLEAN]
PROOF
<1>1. keys' \in [shift : BOOLEAN, caps : BOOLEAN]
    <2>1. Modifiers(keys, sc) \in [shift : BOOLEAN, caps : BOOLEAN]
        BY Zenon DEF Modifiers, Bit
    <2> QED
        BY <2>1 DEF HandleKey
<1>2. Char(keys, sc) \in Chars
    BY Zenon DEF Char, Chars
<1>3. CASE MakesChar(sc) /\ ~RingFull(ring.head, ring.tail)
    BY <1>1, <1>2, <1>3, PushKeeps DEF HandleKey
<1>4. CASE ~(MakesChar(sc) /\ ~RingFull(ring.head, ring.tail))
    <2>1. ring' = ring /\ pushed' = pushed
        BY <1>4 DEF HandleKey
    <2> QED
        BY <1>1, <2>1, Zenon DEF RingTypes, RingInv, ReadOut
<1> QED
    BY <1>3, <1>4

\* The reader copies the character at the tail ...
LEMMA ReadCopyKeeps == ASSUME RingTypes, RingInv, ReadCopy PROVE RingTypes' /\ RingInv'
PROOF
<1>0. RingSize \in Nat /\ RingSize > 0
    BY InputAssumption
<1>1. /\ reader.pc = "copy" /\ ring.head # ring.tail /\ ring' = ring /\ pushed' = pushed
      /\ reader' = [reader EXCEPT !.pc = "store", !.n = @ + 1,
                                  !.got = Append(@, ring.buf[ring.tail])]
    BY DEF ReadCopy, keyVars
<1>2. PICK t \in Nat, p \in Nat : t = Len(reader.got) /\ p = Len(pushed)
    <2>1. Len(reader.got) \in Nat /\ Len(pushed) \in Nat
        BY DEF RingTypes
    <2> QED
        BY <2>1
<1>3. ReadOut = t
    BY <1>1, <1>2 DEF ReadOut
<1>4. t < p
    BY <1>1, <1>2, <1>3 DEF RingInv
<1>5. ring.buf[ring.tail] = pushed[t + 1] /\ ring.buf[ring.tail] \in Chars
    <2>1. t \in ReadOut .. Len(pushed) - 1
        BY <1>2, <1>3, <1>4
    <2>2. ring.buf[t % RingSize] = pushed[t + 1] /\ ring.tail = t % RingSize
        BY <1>3, <2>1 DEF RingInv
    <2> QED
        BY <2>2 DEF RingTypes
<1>6. PICK r \in [pc : {"wait", "copy", "store"}, n : Nat, got : Seq(Chars)] : r = reader
    BY DEF RingTypes
<1>7. reader' \in [pc : {"wait", "copy", "store"}, n : Nat, got : Seq(Chars)]
    <2>1. PICK c \in Chars : c = ring.buf[ring.tail]
        BY <1>5
    <2>2. PICK g \in Seq(Chars), m \in Nat : g = Append(r.got, c) /\ m = r.n + 1
        <3>1. Append(r.got, c) \in Seq(Chars) /\ r.n + 1 \in Nat
            OBVIOUS
        <3> QED
            BY <3>1, Zenon
    <2>3. [r EXCEPT !.pc = "store", !.n = m, !.got = g]
              \in [pc : {"wait", "copy", "store"}, n : Nat, got : Seq(Chars)]
        BY Zenon
    <2> QED
        BY <1>1, <1>6, <2>1, <2>2, <2>3
<1>8. reader'.pc = "store" /\ reader'.got = Append(r.got, pushed[t + 1])
    BY <1>1, <1>5, <1>6
<1>9. /\ Len(reader'.got) = t + 1 /\ reader'.got[t + 1] = pushed[t + 1]
      /\ \A i \in 1 .. t : reader'.got[i] = reader.got[i]
    BY <1>2, <1>5, <1>6, <1>8
<1>10. ReadOut' = t
    BY <1>8, <1>9 DEF ReadOut
<1>11. \A i \in 1 .. t + 1 : reader'.got[i] = pushed'[i]
    BY <1>1, <1>2, <1>9 DEF RingInv
<1>12. Len(reader'.got) <= Len(pushed')
    BY <1>1, <1>2, <1>4, <1>9
<1>13. RingTypes'
    BY <1>1, <1>7 DEF RingTypes
<1>14. ReadOut' = ReadOut /\ ring' = ring /\ pushed' = pushed
    BY <1>1, <1>3, <1>10
<1> QED
    BY <1>9, <1>11, <1>12, <1>13, <1>14 DEF RingInv

\* ... and then gives its slot back.
LEMMA ReadStoreKeeps == ASSUME RingTypes, RingInv, ReadStore PROVE RingTypes' /\ RingInv'
PROOF
<1>0. RingSize \in Nat /\ RingSize > 0
    BY InputAssumption
<1>1. /\ reader.pc = "store" /\ pushed' = pushed /\ reader' = [reader EXCEPT !.pc = "copy"]
      /\ ring' = [ring EXCEPT !.tail = NextSlot(@)]
    BY DEF ReadStore
<1>2. PICK t \in Nat, p \in Nat : t = ReadOut /\ p = Len(pushed)
    <2>1. ReadOut \in Nat /\ Len(pushed) \in Nat
        BY DEF RingInv, RingTypes
    <2> QED
        BY <2>1
<1>3. Len(reader.got) \in Nat /\ Len(reader.got) = t + 1 /\ t + 1 <= p /\ p < t + RingSize
    <2>1. Len(reader.got) \in Nat
        BY DEF RingTypes
    <2> QED
        BY <1>1, <1>2, <2>1 DEF ReadOut, RingInv
<1>4. /\ reader'.pc = "copy" /\ reader'.got = reader.got
      /\ reader' \in [pc : {"wait", "copy", "store"}, n : Nat, got : Seq(Chars)]
    BY <1>1 DEF RingTypes
<1>5. ReadOut' = t + 1
    BY <1>3, <1>4 DEF ReadOut
<1>6. NextSlot(ring.tail) = (t + 1) % RingSize /\ (t + 1) % RingSize \in Slots
    <2>1. t \in Int /\ 1 \in Int
        OBVIOUS
    <2>2. ((t % RingSize) + 1) % RingSize = (t + 1) % RingSize
        BY <1>0, <2>1, ModAdd
    <2>3. (t + 1) % RingSize \in Slots
        BY <1>0 DEF Slots
    <2> QED
        BY <1>2, <2>2, <2>3 DEF NextSlot, RingInv
<1>7. /\ ring'.tail = (t + 1) % RingSize /\ ring'.head = ring.head /\ ring'.buf = ring.buf
      /\ ring' \in [buf : [Slots -> Chars], head : Slots, tail : Slots]
    BY <1>1, <1>6 DEF RingTypes
<1>8. \A j \in t + 1 .. p - 1 : ring.buf[j % RingSize] = pushed[j + 1]
    BY <1>2 DEF RingInv
<1>9. RingTypes'
    BY <1>1, <1>4, <1>7, Zenon DEF RingTypes
<1>10. ReadOut' \in Nat /\ ReadOut' <= Len(pushed') /\ Len(pushed') < ReadOut' + RingSize
    BY <1>0, <1>1, <1>2, <1>3, <1>5
<1>11. ring'.head = Len(pushed') % RingSize /\ ring'.tail = ReadOut' % RingSize
    BY <1>1, <1>5, <1>7 DEF RingInv
<1>12. \A j \in ReadOut' .. Len(pushed') - 1 : ring'.buf[j % RingSize] = pushed'[j + 1]
    BY <1>1, <1>2, <1>5, <1>7, <1>8
<1>13. Len(reader'.got) <= Len(pushed') /\ \A i \in 1 .. Len(reader'.got) : reader'.got[i] = pushed'[i]
    BY <1>1, <1>4 DEF RingInv
<1> QED
    BY <1>9, <1>10, <1>11, <1>12, <1>13 DEF RingInv

-----------------------------------------------------------------------------
(* The system. *)

LEMMA KeyInit == InputInit => KeyInv
PROOF
<1> SUFFICES ASSUME InputInit, backend = "other" PROVE RingTypes /\ RingInv /\ PortInv
    BY DEF KeyInv
<1>0. RingSize \in Nat /\ RingSize > 0
    BY InputAssumption, SMTT(30)
<1>1. /\ ring = [buf |-> [i \in 0 .. RingSize - 1 |-> <<0, FALSE>>], head |-> 0, tail |-> 0]
      /\ pushed = <<>> /\ reader = [pc |-> "wait", n |-> 0, got |-> <<>>]
    BY DEF InputInit
<1>2. RingTypes
    <2>1. <<0, FALSE>> \in Chars /\ 0 \in Slots
        <3>1. 0 \in Byte /\ 0 \in Slots
            BY <1>0 DEF Byte, Slots
        <3> QED
            BY <3>1, Zenon DEF Chars
    <2>2. [i \in 0 .. RingSize - 1 |-> <<0, FALSE>>] \in [Slots -> Chars]
        BY <2>1 DEF Slots
    <2>3. <<>> \in Seq(Chars)
        OBVIOUS
    <2> QED
        BY <1>1, <2>1, <2>2, <2>3 DEF RingTypes
<1>3. ReadOut = 0 /\ Len(pushed) = 0 /\ Len(reader.got) = 0
    BY <1>1 DEF ReadOut
<1>4. 0 % RingSize = 0
    BY <1>0
<1>5. RingInv
    BY <1>0, <1>1, <1>3, <1>4 DEF RingInv
<1>6. PortInv
    <2>1. kq \in Seq(Byte)
        BY InputAssumption DEF InputInit, Byte
    <2>2. \A p \in Pollers : poll[p].pc = "idle"
        BY Zenon DEF InputInit, Idle
    <2>3. aq = <<>>
        BY InputAssumption, Zenon DEF InputInit
    <2>4. keys \in [shift : BOOLEAN, caps : BOOLEAN] /\ ob = NoByte
        BY DEF InputInit
    <2> QED
        BY <2>1, <2>2, <2>3, <2>4, SMTT(30) DEF PortInv
<1> QED
    BY <1>2, <1>5, <1>6

LEMMA KeyStep == KeyInv /\ [InputNext]_inputVars => KeyInv'
PROOF
<1> SUFFICES ASSUME KeyInv, [InputNext]_inputVars, backend' = "other"
             PROVE  RingTypes' /\ RingInv' /\ PortInv'
    BY DEF KeyInv
<1>0. backend = "other" /\ RingTypes /\ RingInv /\ PortInv
    <2>1. backend' = backend
        BY Zenon DEF InputNext, inputVars, Refill, KeyboardIrq, MouseIrq, ReadStep, ReadStart, ReadCopy,
           ReadStore, ReadDone, MouseSetScreen, PollStep, PollStart, PollCheck, PollStatus,
           PollData, PollAux, PollKey, PollPush, PollOther
    <2> QED
        BY <2>1 DEF KeyInv
<1>a. ASSUME UNCHANGED <<ring, pushed, reader>> PROVE RingTypes' /\ RingInv'
    BY <1>0, <1>a, Zenon DEF RingTypes, RingInv, ReadOut
<1>b. ASSUME UNCHANGED <<kq, aq, ob, keys, poll>> PROVE PortInv'
    BY <1>0, <1>b, SMTT(30) DEF PortInv
<1>1. CASE Refill
    <2>1. UNCHANGED <<ring, pushed, reader, keys, poll>>
        BY <1>1 DEF Refill, keyVars
    <2>2. /\ aq' = <<>> /\ kq # <<>> /\ kq' = Tail(kq)
          /\ ob' = [aux |-> FALSE, val |-> Head(kq)]
        BY <1>0, <1>1, SMTT(30) DEF Refill, PortInv
    <2>3. kq' \in Seq(Byte) /\ Head(kq) \in Byte
        BY <1>0, <2>2, SMTT(30) DEF PortInv
    <2>4. ob' \in [aux : BOOLEAN, val : Byte]
        BY <2>2, <2>3
    <2> QED
        BY <1>0, <1>a, <2>1, <2>2, <2>3, <2>4, SMTT(30) DEF PortInv
<1>2. CASE KeyboardIrq
    <2>1. UNCHANGED <<kq, aq, reader, poll>>
        BY <1>2 DEF KeyboardIrq
    <2>2. CASE ~OutputFull
        BY <1>2, <1>a, <1>b, <2>1, <2>2 DEF KeyboardIrq, keyVars
    <2>3. CASE OutputFull
        <3>1. ob' = NoByte /\ ob.val \in Byte
            BY <1>0, <1>2, <2>3 DEF KeyboardIrq, TakeByte, OutputFull, PortInv
        <3>2. CASE HandleKey(ob.val)
            <4>1. RingTypes' /\ RingInv' /\ keys' \in [shift : BOOLEAN, caps : BOOLEAN]
                BY <1>0, <2>1, <3>1, <3>2, HandleKeyKeeps DEF PortInv
            <4> QED
                BY <1>0, <2>1, <3>1, <4>1 DEF PortInv
        <3>3. CASE UNCHANGED <<keys, ring, pushed>>
            BY <1>0, <1>a, <2>1, <3>1, <3>3 DEF PortInv
        <3> QED
            BY <1>2, <2>3, <3>2, <3>3 DEF KeyboardIrq
    <2> QED
        BY <2>2, <2>3
<1>3. CASE MouseIrq
    BY <1>0, <1>3, <1>a, <1>b, SMTT(30) DEF MouseIrq, keyVars
<1>4. CASE ReadStart \/ ReadDone
    <2>1. UNCHANGED <<ring, pushed, kq, aq, ob, keys, poll>>
        BY <1>4 DEF ReadStart, ReadDone, keyVars, portVars
    <2>2. /\ reader'.got = reader.got /\ reader'.pc # "store" /\ reader.pc # "store"
          /\ reader' \in [pc : {"wait", "copy", "store"}, n : Nat, got : Seq(Chars)]
        <3>1. PICK r \in [pc : {"wait", "copy", "store"}, n : Nat, got : Seq(Chars)] : r = reader
            BY <1>0 DEF RingTypes
        <3>2. PICK place \in {"wait", "copy"} : reader' = [r EXCEPT !.pc = place, !.n = 0]
            BY <1>4, <3>1 DEF ReadStart, ReadDone
        <3>3. reader.pc # "store"
            BY <1>4 DEF ReadStart, ReadDone
        <3> QED
            BY <3>1, <3>2, <3>3, Zenon
    <2> QED
        BY <1>0, <1>b, <2>1, <2>2 DEF RingTypes, RingInv, ReadOut
<1>5. CASE ReadCopy
    BY <1>0, <1>5, <1>b, ReadCopyKeeps DEF ReadCopy, keyVars, portVars
<1>6. CASE ReadStore
    BY <1>0, <1>6, <1>b, ReadStoreKeeps DEF ReadStore, portVars
<1>7. CASE MouseSetScreen
    BY <1>7, <1>a, <1>b DEF MouseSetScreen, keyVars, portVars
<1>8. ASSUME NEW p \in Pollers, PollStep(p) PROVE FALSE
    BY <1>0, <1>8, SMTT(30) DEF PortInv, PollStep, PollStart, PollCheck, PollStatus, PollData, PollAux,
       PollKey, PollPush
<1>9. ASSUME NEW p \in Pollers, PollOther(p) PROVE RingTypes' /\ RingInv' /\ PortInv'
    BY <1>9, <1>a, <1>b DEF PollOther, keyVars, portVars
<1>10. CASE UNCHANGED inputVars
    BY <1>10, <1>a, <1>b DEF inputVars, keyVars, portVars
<1> QED
    BY <1>1, <1>2, <1>3, <1>4, <1>5, <1>6, <1>7, <1>8, <1>9, <1>10 DEF InputNext, ReadStep

\* Typing is reliable while another driver has the pointer, for every size of the ring:
\* the interrupt handler and sys_read() may interleave as they like, and the reader gets
\* the accepted characters in order, none twice.
THEOREM TypingInOrder == InputSpec => []KeysInOrder
PROOF
<1>1. KeyInv => KeysInOrder
    BY RingIsOrdered DEF KeyInv, KeysInOrder
<1> QED
    BY <1>1, KeyInit, KeyStep, PTL DEF InputSpec

=============================================================================
