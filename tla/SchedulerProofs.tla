-------------------------- MODULE SchedulerProofs --------------------------
(***************************************************************************)
(* Safety of the thread scheduler, for any number of threads in any order  *)
(* of creation that has the ring-3 program last, up to the first timer IRQ *)
(* between two steps of a switch.  The invariant says where every thread   *)
(* is: one of them is running, and where in a switch it is; all other live *)
(* ones wait, with their saved rsp on top of their own stack.              *)
(***************************************************************************)
EXTENDS Scheduler, SequenceTheorems, TLAPS

\* kmain() creates the ring-3 program last, so nothing but the bootstrap thread comes
\* before it in the ring.
UserLast == \A i \in DOMAIN Order : Order[i] \in User => i = Len(Order)

-----------------------------------------------------------------------------
(* The invariant. *)

Saved == [s : Thread, d : Nat]
BaseKinds == {"body", "seed", "irq3", "read", "quit"}
Leaving == {"yield", "exit"}
Frames == [kind : BaseKinds \cup Leaving \cup {"irq"}, thr : Thread,
           at : {"run", "start", "tss", "current", "load", "switch", "return", "unlink"},
           prev : Thread \cup {None}, next : Thread \cup {None}, arg : Saved \cup {None}]

\* thread_yield() and thread_exit() where an interrupt does no harm: before their first
\* access to the queue and after the switch back.
Resting(f) ==
    \/ f.kind = "yield" /\ f.at \in {"start", "return"}
    \/ f.kind = "exit" /\ f.at = "start"

\* One frame of s, at place i of n: what is at the bottom of a stack and nowhere else, and
\* what is at its top and nowhere else.
FrameOK(s, f, i, n) ==
    /\ f \in Frames /\ f.thr = s
    /\ i = 1 <=> f.kind \in BaseKinds
    /\ f.kind \in Leaving => i = n \/ Resting(f)
    /\ f.kind = "body" => s \notin User
    /\ f.kind \in {"irq3", "read", "quit"} => s \in User
    /\ f.kind \in {"seed", "exit"} => s # Idle
StackOK(s, q) == q \in Seq(Frames) /\ \A i \in 1 .. Len(q) : FrameOK(s, q[i], i, Len(q))

Types ==
    /\ current \in Thread /\ sp \in Thread
    /\ ring3 \in Thread \cup {None} /\ tss \in Thread \cup {None} /\ sysrsp \in Thread \cup {None}
    /\ next \in [Thread -> Thread \cup {None}]
    /\ rsp \in [Thread -> Saved \cup {None}]
    /\ stk \in [Thread -> Seq(Frames)]
    /\ spawned \in 0 .. Len(Order) /\ exited \in SUBSET Thread
    /\ intr \in BOOLEAN /\ wild = FALSE
    /\ Idle \notin exited

Stacks == \A s \in Thread : StackOK(s, stk[s])

\* A thread that is not running can be resumed where it left.
Waits(t) ==
    /\ Len(stk[t]) > 0
    /\ rsp[t] = [s |-> t, d |-> Len(stk[t])]
    /\ LET f == stk[t][Len(stk[t])]
       IN  f.kind = "seed" \/ (f.kind = "yield" /\ f.at = "return")
OthersWait == \A t \in Live : t # sp => Waits(t)

\* Where the running thread is in its switch.
Yielding(f) ==
    /\ sp \in Live
    /\ f.at \in {"start", "return", "tss", "current", "load", "switch"}
    /\ f.at \in {"start", "return", "tss", "current"} => current = sp
    /\ f.at \in {"tss", "current", "load", "switch"} => f.prev = sp /\ f.next = next[sp] /\ f.next # sp
    /\ f.at \in {"load", "switch"} => current = f.next
    /\ f.at = "switch" => f.arg = rsp[f.next]
    /\ (f.at \in {"current", "load", "switch"} /\ f.next \in User) => tss = f.next /\ sysrsp = f.next
Leave(f) ==
    /\ f.at \in {"start", "unlink", "current", "load", "switch"}
    /\ f.at \in {"start", "unlink", "current"} => current = sp
    /\ f.at \in {"start", "unlink"} => sp \in Live
    /\ f.at = "unlink" => f.next = sp /\ f.prev \in Live /\ next[f.prev] = sp
    /\ f.at \in {"current", "load", "switch"} => f.next \in Live \ User /\ sp \in exited
    /\ f.at \in {"load", "switch"} => current = f.next
    /\ f.at = "switch" => f.arg = rsp[f.next]

Running ==
    /\ ring3 # None => ring3 = sp /\ current = sp /\ stk[sp] = << >> /\ sp \in User /\ sp \in Live
    /\ ring3 = None =>
         /\ Len(stk[sp]) > 0
         /\ Top.kind \notin Leaving => current = sp /\ sp \in Live
         /\ Top.kind = "yield" => Yielding(Top)
         /\ Top.kind = "exit" => Leave(Top)

\* The stacks for entries from ring 3 are those of the ring-3 thread while it runs.
HandsOver == ring3 = None /\ Top.kind = "yield" /\ Top.at \in {"current", "load", "switch"}
EntryStacks == (sp \in User /\ ~HandsOver) => tss = sp /\ sysrsp = sp

\* Nothing runs before kmain() has created all threads.
Boot == spawned < Len(Order) =>
            /\ sp = Idle /\ ring3 = None /\ ~intr /\ exited = {}
            /\ Len(stk[Idle]) = 1 /\ stk[Idle][1].kind = "body"

\* nx is one cycle through L.
RingOn(L, nx) ==
    /\ \A t \in L : nx[t] \in L
    /\ \A t, u \in L : nx[t] = nx[u] => t = u
    /\ \A S \in SUBSET L : S \notin {{}, L} => \E t \in S : nx[t] \notin S

Ring == RingOn(Live, next) /\ \A t \in Live : next[t] \in User => t = Idle

SInv == Types /\ Stacks /\ OthersWait /\ Running /\ EntryStacks /\ Boot /\ Ring

-----------------------------------------------------------------------------
(* Stacks. *)

LEMMA PushOK ==
    ASSUME NEW s \in Thread, NEW q, StackOK(s, q), Len(q) > 0,
           q[Len(q)].kind \in Leaving => Resting(q[Len(q)]),
           NEW f \in Frames, f.thr = s, f.kind \in Leaving \cup {"irq"}, f.kind = "exit" => s # Idle
    PROVE  /\ StackOK(s, Append(q, f))
           /\ Len(Append(q, f)) = Len(q) + 1
           /\ Append(q, f)[Len(q) + 1] = f
<1> DEFINE n == Len(q)
           a == Append(q, f)
<1>1. q \in Seq(Frames) /\ n \in Nat
    BY DEF StackOK
<1>2. a \in Seq(Frames) /\ Len(a) = n + 1 /\ a[n + 1] = f /\ \A i \in 1 .. n : a[i] = q[i]
    BY <1>1, AppendProperties
<1>3. \A i \in 1 .. n : FrameOK(s, q[i], i, n)
    BY DEF StackOK
<1> HIDE DEF n, a
<1>4. ASSUME NEW i \in 1 .. n PROVE FrameOK(s, a[i], i, n + 1)
    <2>1. FrameOK(s, q[i], i, n) /\ a[i] = q[i]
        BY <1>2, <1>3
    <2>2. q[i].kind \in Leaving => Resting(q[i])
        BY <2>1 DEF FrameOK, n
    <2> QED
        BY <2>1, <2>2 DEF FrameOK
<1>5. FrameOK(s, f, n + 1, n + 1)
    <2>1. n + 1 # 1 /\ f.kind \notin BaseKinds
        BY <1>1 DEF n, Leaving, BaseKinds
    <2> QED
        BY <2>1 DEF FrameOK, Leaving
<1>6. \A i \in 1 .. n + 1 : FrameOK(s, a[i], i, n + 1)
    BY <1>1, <1>2, <1>4, <1>5
<1> QED
    BY <1>2, <1>6 DEF StackOK, n, a

LEMMA PopOK ==
    ASSUME NEW s \in Thread, NEW q, StackOK(s, q), Len(q) > 0
    PROVE  LET p == SubSeq(q, 1, Len(q) - 1)
           IN  /\ StackOK(s, p) /\ Len(p) = Len(q) - 1
               /\ \A i \in 1 .. Len(q) - 1 : p[i] = q[i] /\ (q[i].kind \in Leaving => Resting(q[i]))
<1> DEFINE n == Len(q)
           p == SubSeq(q, 1, n - 1)
<1>1. q \in Seq(Frames) /\ n \in Nat /\ n > 0
    BY DEF StackOK
<1>2. p \in Seq(Frames) /\ Len(p) = n - 1 /\ \A i \in 1 .. n - 1 : p[i] = q[i]
    <2>1. \A i \in 1 .. n - 1 : q[i] \in Frames
        BY <1>1
    <2>2. PICK m \in Int : m = n - 1
        BY <1>1
    <2>3. /\ SubSeq(q, 1, m) \in Seq(Frames)
          /\ Len(SubSeq(q, 1, m)) = IF 1 <= m THEN m - 1 + 1 ELSE 0
          /\ \A i \in 1 .. m - 1 + 1 : SubSeq(q, 1, m)[i] = q[1 + i - 1]
        <3>1. 1 \in Int /\ \A i \in 1 .. m : q[i] \in Frames
            BY <2>1, <2>2
        <3>2. SubSeq(q, 1, m) \in Seq(Frames)
            BY <3>1, SubSeqProperties, Zenon
        <3>3. Len(SubSeq(q, 1, m)) = IF 1 <= m THEN m - 1 + 1 ELSE 0
            BY <3>1, SubSeqProperties
        <3>4. \A i \in 1 .. m - 1 + 1 : SubSeq(q, 1, m)[i] = q[1 + i - 1]
            BY <3>1, SubSeqProperties, SMT
        <3> QED
            BY <3>2, <3>3, <3>4
    <2>4. p = SubSeq(q, 1, m)
        BY <2>2
    <2>5. Len(p) = n - 1
        BY <1>1, <2>2, <2>3, <2>4
    <2>6. ASSUME NEW i \in 1 .. n - 1 PROVE p[i] = q[i]
        <3>1. i \in 1 .. m - 1 + 1 /\ 1 + i - 1 = i
            BY <1>1, <2>2
        <3> QED
            BY <2>3, <2>4, <3>1
    <2> QED
        BY <2>3, <2>4, <2>5, <2>6
<1>3. \A i \in 1 .. n : FrameOK(s, q[i], i, n)
    BY DEF StackOK
<1> HIDE DEF n, p
<1>4. \A i \in 1 .. n - 1 : q[i].kind \in Leaving => Resting(q[i])
    BY <1>1, <1>3 DEF FrameOK
<1>5. \A i \in 1 .. n - 1 : FrameOK(s, p[i], i, n - 1)
    <2> SUFFICES ASSUME NEW i \in 1 .. n - 1 PROVE FrameOK(s, p[i], i, n - 1)
        OBVIOUS
    <2>1. FrameOK(s, q[i], i, n) /\ p[i] = q[i]
        BY <1>1, <1>2, <1>3
    <2> QED
        BY <1>4, <2>1 DEF FrameOK
<1> QED
    BY <1>1, <1>2, <1>4, <1>5 DEF StackOK, n, p

\* A frame replaced by one of the same kind.
LEMMA SetOK ==
    ASSUME NEW s \in Thread, NEW q, StackOK(s, q), Len(q) > 0,
           NEW f \in Frames, FrameOK(s, f, Len(q), Len(q))
    PROVE  LET p == [q EXCEPT ![Len(q)] = f]
           IN  StackOK(s, p) /\ Len(p) = Len(q) /\ p[Len(q)] = f
<1> DEFINE n == Len(q)
           p == [q EXCEPT ![n] = f]
<1>1. q \in Seq(Frames) /\ n \in Nat /\ n > 0
    BY DEF StackOK
<1>2. p \in Seq(Frames) /\ Len(p) = n /\ p[n] = f /\ \A i \in 1 .. n : i # n => p[i] = q[i]
    BY <1>1
<1>3. \A i \in 1 .. n : FrameOK(s, q[i], i, n)
    BY DEF StackOK
<1>4. FrameOK(s, f, n, n)
    OBVIOUS
<1> HIDE DEF n, p
<1>5. \A i \in 1 .. n : FrameOK(s, p[i], i, n)
    BY <1>2, <1>3, <1>4
<1> QED
    BY <1>1, <1>2, <1>5, Zenon DEF StackOK, n, p

-----------------------------------------------------------------------------
(* Steps of one thread on its own stack. *)

\* What is known of the frame the CPU executes.
LEMMA Here ==
    ASSUME SInv, InKernel
    PROVE  /\ Len(stk[sp]) \in Nat /\ Len(stk[sp]) > 0 /\ StackOK(sp, stk[sp])
           /\ Top = stk[sp][Len(stk[sp])] /\ FrameOK(sp, Top, Len(stk[sp]), Len(stk[sp]))
           /\ Top \in Frames /\ Top.thr = sp /\ ring3 = None
<1>1. ring3 = None /\ Len(stk[sp]) > 0 /\ StackOK(sp, stk[sp]) /\ Top = stk[sp][Len(stk[sp])]
    BY DEF SInv, InKernel, Depth, Top, Stacks, Types
<1>2. Len(stk[sp]) \in Nat
    BY <1>1 DEF StackOK
<1>3. FrameOK(sp, Top, Len(stk[sp]), Len(stk[sp]))
    BY <1>1, <1>2 DEF StackOK
<1> QED
    BY <1>1, <1>2, <1>3 DEF FrameOK

\* Until all threads are there, the CPU is in the body of the bootstrap thread.
LEMMA Booted ==
    ASSUME SInv, spawned # Len(Order)
    PROVE  ~intr /\ ring3 = None /\ sp = Idle /\ Top.kind = "body" /\ exited = {}
<1>1. spawned < Len(Order)
    BY ThreadAssumption DEF SInv, Types
<1> QED
    BY <1>1 DEF SInv, Boot, Top, Depth

\* The thread changes its own stack, and perhaps what it enters the kernel on.
LEMMA OwnStack ==
    ASSUME SInv, NEW q, StackOK(sp, q), stk' = [stk EXCEPT ![sp] = q],
           UNCHANGED <<sp, next, rsp, spawned, exited, wild>>,
           current' \in Thread, ring3' \in Thread \cup {None}, tss' \in Thread \cup {None},
           sysrsp' \in Thread \cup {None}, intr' \in BOOLEAN
    PROVE  /\ Types' /\ Stacks' /\ OthersWait' /\ Ring' /\ Live' = Live
           /\ stk'[sp] = q
<1>1. Types /\ Stacks /\ OthersWait /\ Ring
    BY DEF SInv
<1>2. sp \in Thread /\ stk \in [Thread -> Seq(Frames)] /\ q \in Seq(Frames)
    BY <1>1 DEF Types, StackOK
<1>3. stk' \in [Thread -> Seq(Frames)] /\ stk'[sp] = q /\ \A t \in Thread : t # sp => stk'[t] = stk[t]
    BY <1>2
<1>4. Types'
    BY <1>1, <1>3 DEF Types
<1>5. Stacks'
    BY <1>1, <1>3 DEF Stacks
<1>6. Live' = Live
    BY DEF Live
<1>7. OthersWait'
    <2> SUFFICES ASSUME NEW t \in Live, t # sp PROVE Waits(t)'
        BY <1>6 DEF OthersWait
    <2>1. Waits(t) /\ stk'[t] = stk[t] /\ rsp'[t] = rsp[t]
        BY <1>1, <1>3 DEF OthersWait, Live
    <2> QED
        BY <2>1 DEF Waits
<1>8. Ring'
    BY <1>1, <1>6 DEF Ring, RingOn
<1> QED
    BY <1>3, <1>4, <1>5, <1>6, <1>7, <1>8

\* What Push, Pop and SetTop make of the stack.
LEMMA AfterPush ==
    ASSUME SInv, InKernel, Top.kind \notin Leaving, NEW f \in Frames, f.thr = sp,
           f.kind \in Leaving \cup {"irq"}, f.kind = "exit" => sp # Idle, Push(f)
    PROVE  \E q : /\ StackOK(sp, q) /\ Len(q) > 1 /\ q[Len(q)] = f /\ Len(q) = Len(stk[sp]) + 1
                  /\ stk' = [stk EXCEPT ![sp] = q]
<1> DEFINE q == Append(stk[sp], f)
<1>1. stk' = [stk EXCEPT ![sp] = q]
    BY DEF Push
<1>2. StackOK(sp, q) /\ Len(q) = Len(stk[sp]) + 1 /\ q[Len(stk[sp]) + 1] = f
    <2>1. /\ sp \in Thread /\ StackOK(sp, stk[sp]) /\ Len(stk[sp]) > 0
          /\ stk[sp][Len(stk[sp])].kind \notin Leaving
        BY Here, Zenon DEF SInv, Types
    <2>2. PICK s \in Thread, p \in Seq(Frames) : s = sp /\ p = stk[sp]
        BY <2>1 DEF StackOK
    <2>3. /\ StackOK(s, p) /\ Len(p) > 0 /\ (p[Len(p)].kind \in Leaving => Resting(p[Len(p)]))
          /\ f.thr = s /\ (f.kind = "exit" => s # Idle)
        BY <2>1, <2>2
    <2>4. StackOK(s, Append(p, f)) /\ Len(Append(p, f)) = Len(p) + 1 /\ Append(p, f)[Len(p) + 1] = f
        BY <2>3, PushOK, Zenon
    <2> QED
        BY <2>2, <2>4
<1>3. Len(q) > 1
    BY <1>2, Here
<1> HIDE DEF q
<1> QED
    BY <1>1, <1>2, <1>3, Zenon

LEMMA AfterPop ==
    ASSUME SInv, InKernel, Pop
    PROVE  \E q : /\ StackOK(sp, q) /\ Len(q) = Len(stk[sp]) - 1
                  /\ stk' = [stk EXCEPT ![sp] = q]
                  /\ (Len(q) > 0 /\ q[Len(q)].kind \in Leaving) => Resting(q[Len(q)])
                  /\ Len(q) = 0 => q = << >>
<1> DEFINE n == Len(stk[sp])
           q == SubSeq(stk[sp], 1, n - 1)
<1>1. stk' = [stk EXCEPT ![sp] = q]
    BY DEF Pop
<1>2. /\ StackOK(sp, q) /\ Len(q) = n - 1
      /\ \A i \in 1 .. n - 1 : q[i] = stk[sp][i] /\ (stk[sp][i].kind \in Leaving => Resting(stk[sp][i]))
    BY Here, PopOK, Zenon DEF SInv, Types
<1>3. n \in Nat
    BY Here
<1>4. q \in Seq(Frames)
    BY <1>2 DEF StackOK
<1> HIDE DEF q, n
<1>5. (Len(q) > 0 /\ q[Len(q)].kind \in Leaving) => Resting(q[Len(q)])
    BY <1>2, <1>3
<1>6. Len(q) = 0 => q = << >>
    BY <1>4, EmptySeq
<1> QED
    BY <1>1, <1>2, <1>5, <1>6, Zenon DEF n

LEMMA AfterSet ==
    ASSUME SInv, InKernel, NEW f \in Frames, SetTop(f), f.thr = sp,
           f.kind = Top.kind \/ (Top.kind = "seed" /\ f.kind = "body" /\ sp \notin User)
    PROVE  \E q : /\ StackOK(sp, q) /\ Len(q) = Len(stk[sp]) /\ Len(q) > 0 /\ q[Len(q)] = f
                  /\ stk' = [stk EXCEPT ![sp] = q]
<1> DEFINE n == Len(stk[sp])
           q == [stk[sp] EXCEPT ![n] = f]
<1>1. stk' = [stk EXCEPT ![sp] = q]
    BY DEF SetTop, Depth
<1>2. FrameOK(sp, f, n, n)
    <2>1. FrameOK(sp, Top, n, n)
        BY Here
    <2> HIDE DEF n
    <2>2. CASE f.kind = Top.kind
        BY <2>1, <2>2 DEF FrameOK
    <2>3. CASE Top.kind = "seed" /\ f.kind = "body" /\ sp \notin User
        BY <2>1, <2>3 DEF FrameOK, BaseKinds, Leaving
    <2> QED
        BY <2>2, <2>3
<1>3. StackOK(sp, q) /\ Len(q) = n /\ q[n] = f
    <2>1. PICK s \in Thread, p \in Seq(Frames) : s = sp /\ p = stk[sp]
        BY Here DEF StackOK, SInv, Types
    <2>2. StackOK(s, p) /\ Len(p) > 0 /\ FrameOK(s, f, Len(p), Len(p))
        BY <1>2, <2>1, Here
    <2>3. LET e == [p EXCEPT ![Len(p)] = f] IN StackOK(s, e) /\ Len(e) = Len(p) /\ e[Len(p)] = f
        BY <2>2, SetOK, Zenon
    <2> QED
        BY <2>1, <2>3
<1>4. n > 0
    BY Here
<1> HIDE DEF q
<1> QED
    BY <1>1, <1>3, <1>4, Zenon

\* A step of the kernel on the stack of sp that leaves f on top of it.
LEMMA OwnStep ==
    ASSUME SInv, spawned = Len(Order), NEW q, NEW f, StackOK(sp, q), Len(q) > 0, f = q[Len(q)],
           stk' = [stk EXCEPT ![sp] = q], UNCHANGED <<sp, next, rsp, spawned, exited, wild>>,
           current' \in Thread, ring3' = None, tss' \in Thread \cup {None},
           sysrsp' \in Thread \cup {None}, intr' \in BOOLEAN,
           f.kind \notin Leaving => current' = sp /\ sp \in Live,
           f.kind = "yield" => Yielding(f)',
           f.kind = "exit" => Leave(f)',
           (sp \in User /\ ~(f.kind = "yield" /\ f.at \in {"current", "load", "switch"}))
               => tss' = sp /\ sysrsp' = sp
    PROVE  SInv'
<1>1. Types' /\ Stacks' /\ OthersWait' /\ Ring' /\ Live' = Live /\ stk'[sp] = q
    BY OwnStack, Zenon
<1>2. Top' = f /\ Len(stk'[sp']) > 0
    BY <1>1 DEF Top, Depth
<1>3. Running'
    BY <1>1, <1>2 DEF Running
<1>4. EntryStacks'
    BY <1>2 DEF EntryStacks, HandsOver
<1>5. Boot'
    BY DEF Boot
<1> QED
    BY <1>1, <1>3, <1>4, <1>5 DEF SInv

\* A step back to ring 3.
LEMMA ToRing3 ==
    ASSUME SInv, spawned = Len(Order), stk' = [stk EXCEPT ![sp] = << >>],
           UNCHANGED <<sp, next, rsp, spawned, exited, wild, current>>,
           ring3' = sp, sp \in User, sp \in Live, current = sp, tss' = sp, sysrsp' = sp, intr' \in BOOLEAN
    PROVE  SInv'
<1>1. sp \in Thread /\ current \in Thread
    BY DEF SInv, Types
<1>2. StackOK(sp, << >>)
    BY DEF StackOK
<1>3. Types' /\ Stacks' /\ OthersWait' /\ Ring' /\ Live' = Live /\ stk'[sp] = << >>
    BY <1>1, <1>2, OwnStack, Zenon
<1>4. ring3' # None
    BY <1>1, ThreadAssumption
<1>5. Running'
    BY <1>3, <1>4 DEF Running
<1>6. EntryStacks'
    BY DEF EntryStacks
<1>7. Boot'
    BY DEF Boot
<1> QED
    BY <1>3, <1>5, <1>6, <1>7 DEF SInv

\* A step that touches neither stacks nor queue.
LEMMA Same ==
    ASSUME SInv, UNCHANGED <<current, next, rsp, tss, sysrsp, stk, sp, ring3, spawned, exited, wild>>,
           intr' \in BOOLEAN, spawned = Len(Order) \/ intr' = intr
    PROVE  SInv'
<1>1. Types'
    BY DEF SInv, Types
<1>2. Live' = Live /\ Top' = Top
    BY DEF Live, Top, Depth
<1>3. Stacks' /\ OthersWait'
    BY <1>2 DEF SInv, Stacks, OthersWait, Waits
<1>4. Running'
    BY <1>2 DEF SInv, Running, Yielding, Leave
<1>5. EntryStacks'
    BY <1>2 DEF SInv, EntryStacks, HandsOver
<1>6. Boot'
    BY DEF SInv, Boot
<1>7. Ring'
    BY <1>2 DEF SInv, Ring, RingOn
<1> QED
    BY <1>1, <1>3, <1>4, <1>5, <1>6, <1>7 DEF SInv

\* The running thread, outside of a switch.
LEMMA Inside ==
    ASSUME SInv, InKernel, Top.kind \notin Leaving
    PROVE  current = sp /\ sp \in Live /\ (sp \in User => tss = sp /\ sysrsp = sp)
<1>1. ring3 = None
    BY DEF InKernel
<1>2. Top.kind # "yield"
    BY DEF Leaving
<1> QED
    BY <1>1, <1>2 DEF SInv, Running, EntryStacks, HandsOver

-----------------------------------------------------------------------------
(* The actions. *)

LEMMA NewFrame ==
    ASSUME NEW k \in BaseKinds \cup Leaving \cup {"irq"}, NEW t \in Thread
    PROVE  /\ Frame(k, t) \in Frames /\ Frame(k, t).kind = k /\ Frame(k, t).thr = t
           /\ LET f == [Frame(k, t) EXCEPT !.at = "start"]
              IN  f \in Frames /\ f.kind = k /\ f.thr = t /\ f.at = "start"
BY DEF Frame, Frames

\* A body or a system call enters thread_yield() or thread_exit().
LEMMA StartsLeaving ==
    ASSUME SInv, InKernel, spawned = Len(Order), Top.kind \notin Leaving,
           NEW k \in Leaving, k = "exit" => sp # Idle,
           Push([Frame(k, sp) EXCEPT !.at = "start"]),
           UNCHANGED <<current, next, rsp, tss, sysrsp, sp, ring3, intr, spawned, exited, wild>>
    PROVE  SInv'
<1> DEFINE f == [Frame(k, sp) EXCEPT !.at = "start"]
<1>1. Types
    BY DEF SInv
<1>2. f \in Frames /\ f.kind = k /\ f.thr = sp /\ f.at = "start"
    BY <1>1, NewFrame DEF Types
<1> HIDE DEF f
<1>3. PICK q : /\ StackOK(sp, q) /\ Len(q) > 1 /\ q[Len(q)] = f
               /\ stk' = [stk EXCEPT ![sp] = q]
    <2>1. PICK g \in Frames : g = f
        BY <1>2
    <2>2. Push(g) /\ g.kind \in Leaving \cup {"irq"} /\ (g.kind = "exit" => sp # Idle) /\ g.thr = sp
        BY <1>2, <2>1 DEF f
    <2>3. \E q : StackOK(sp, q) /\ Len(q) > 1 /\ q[Len(q)] = g /\ stk' = [stk EXCEPT ![sp] = q]
        BY <2>2, AfterPush
    <2> QED
        BY <2>1, <2>3, Zenon
<1>4. PICK g \in Frames : g = f
    BY <1>2
<1>5. current = sp /\ sp \in Live /\ (sp \in User => tss = sp /\ sysrsp = sp)
    BY Inside
<1>6. Live' = Live
    BY DEF Live
<1>7. g.kind = "yield" => Yielding(g)'
    BY <1>2, <1>4, <1>5, <1>6 DEF Yielding
<1>8. g.kind = "exit" => Leave(g)'
    BY <1>2, <1>4, <1>5, <1>6 DEF Leave
<1>9. ring3' = None /\ Len(q) > 0 /\ g.kind \in Leaving
    BY <1>2, <1>3, <1>4 DEF InKernel, StackOK
<1> QED
    BY <1>1, <1>3, <1>4, <1>5, <1>7, <1>8, <1>9, OwnStep, Zenon DEF Types

LEMMA StartKernelKeeps == ASSUME SInv, StartKernel PROVE SInv'
<1>1. InKernel /\ Top.kind = "seed" /\ Top.thr \in Kernel /\ SetTop(Frame("body", Top.thr)) /\ intr' = TRUE
      /\ UNCHANGED <<current, next, rsp, tss, sysrsp, sp, ring3, spawned, exited, wild>>
    BY DEF StartKernel
<1>2. Top.thr = sp /\ ring3 = None /\ sp \in Thread /\ Types
    BY <1>1, Here, Zenon DEF SInv, Types
<1>3. spawned = Len(Order)
    BY <1>1, Booted
<1>4. sp \notin User
    BY <1>1, <1>2, ThreadAssumption
<1>5. PICK g \in Frames : g = Frame("body", sp) /\ g.kind = "body" /\ g.thr = sp
    <2>1. "body" \in BaseKinds \cup Leaving \cup {"irq"}
        BY DEF BaseKinds
    <2>2. PICK t \in Thread : t = sp
        BY <1>2
    <2>3. Frame("body", t) \in Frames /\ Frame("body", t).kind = "body" /\ Frame("body", t).thr = t
        BY <2>1, NewFrame, Zenon
    <2> QED
        BY <2>2, <2>3
<1>6. PICK q : StackOK(sp, q) /\ Len(q) > 0 /\ q[Len(q)] = g /\ stk' = [stk EXCEPT ![sp] = q]
    BY <1>1, <1>2, <1>4, <1>5, AfterSet
<1>7. current = sp /\ sp \in Live
    BY <1>1, Inside DEF Leaving
<1> QED
    BY <1>1, <1>2, <1>3, <1>4, <1>5, <1>6, <1>7, OwnStep, Zenon DEF Types

LEMMA BodyKeeps == ASSUME SInv, BodyYield \/ BodyReturn PROVE SInv'
<1>1. InKernel /\ Top.kind = "body" /\ Top.thr \in Kernel
    BY ThreadAssumption DEF BodyYield, BodyReturn
<1>2. Top.thr = sp
    BY <1>1, Here
<1>3. sp # Idle
    BY <1>1, <1>2, ThreadAssumption
<1>4. spawned = Len(Order)
    BY <1>3, Booted
<1>5. "yield" \in Leaving /\ "exit" \in Leaving /\ Top.kind \notin Leaving
    BY <1>1 DEF Leaving
<1>6. CASE BodyYield
    BY <1>1, <1>2, <1>3, <1>4, <1>5, <1>6, StartsLeaving DEF BodyYield
<1>7. CASE BodyReturn
    BY <1>1, <1>2, <1>3, <1>4, <1>5, <1>7, StartsLeaving DEF BodyReturn
<1> QED
    BY <1>6, <1>7

LEMMA SysPushKeeps == ASSUME SInv, SysReadPoll \/ SysExit PROVE SInv'
<1>1. InKernel /\ Top.kind \in {"read", "quit"}
    BY DEF SysReadPoll, SysExit
<1>2. Top.thr = sp /\ sp \in User
    BY <1>1, Here DEF FrameOK
<1>3. sp # Idle
    BY <1>2, ThreadAssumption
<1>4. spawned = Len(Order)
    BY <1>3, Booted
<1>5. "yield" \in Leaving /\ "exit" \in Leaving /\ Top.kind \notin Leaving
    BY <1>1 DEF Leaving
<1>6. CASE SysReadPoll
    BY <1>1, <1>2, <1>3, <1>4, <1>5, <1>6, StartsLeaving DEF SysReadPoll, YieldForStdin, io
<1>7. CASE SysExit
    BY <1>1, <1>2, <1>3, <1>4, <1>5, <1>7, StartsLeaving DEF SysExit
<1> QED
    BY <1>6, <1>7

\* The last frame of a ring-3 thread goes.
LEMMA BackToRing3 ==
    ASSUME SInv, InKernel, Pop, spawned = Len(Order), Top.kind \in BaseKinds, sp \in User, current = sp,
           UNCHANGED <<sp, next, rsp, spawned, exited, wild, current>>,
           ring3' = sp, tss' = sp, sysrsp' = sp, intr' \in BOOLEAN
    PROVE  SInv'
<1>1. Len(stk[sp]) = 1
    BY Here DEF FrameOK
<1>2. PICK q : Len(q) = Len(stk[sp]) - 1 /\ stk' = [stk EXCEPT ![sp] = q] /\ (Len(q) = 0 => q = << >>)
    BY AfterPop
<1>3. q = << >>
    BY <1>1, <1>2
<1>4. Top.kind \notin Leaving
    BY DEF BaseKinds, Leaving
<1>5. sp \in Live
    BY <1>4, Inside
<1> QED
    BY <1>2, <1>3, <1>5, ToRing3

LEMMA ToUserKeeps == ASSUME SInv, StartUser \/ SysReadDone \/ (IrqReturn /\ Top.kind = "irq3") PROVE SInv'
<1>1. InKernel /\ Pop /\ Top.kind \in {"seed", "read", "irq3"} /\ intr' = TRUE
      /\ UNCHANGED <<sp, next, rsp, spawned, exited, wild, current, sysrsp>>
    BY DEF StartUser, SysReadDone, IrqReturn
<1>2. Top.kind \in BaseKinds /\ Top.kind \notin Leaving /\ Top.kind # "body"
    BY <1>1 DEF BaseKinds, Leaving
<1>3. Top.thr = sp /\ FrameOK(sp, Top, Len(stk[sp]), Len(stk[sp]))
    BY <1>1, Here
<1>4. current = sp /\ (sp \in User => tss = sp /\ sysrsp = sp)
    BY <1>1, <1>2, Inside
<1>5. spawned = Len(Order)
    BY <1>2, Booted
<1>6. CASE StartUser
    BY <1>1, <1>2, <1>3, <1>4, <1>5, <1>6, BackToRing3 DEF StartUser
<1>7. CASE SysReadDone
    BY <1>1, <1>2, <1>3, <1>4, <1>5, <1>7, BackToRing3 DEF SysReadDone, FrameOK
<1>8. CASE IrqReturn /\ Top.kind = "irq3"
    BY <1>1, <1>2, <1>3, <1>4, <1>5, <1>8, BackToRing3 DEF IrqReturn, FrameOK
<1> QED
    BY <1>6, <1>7, <1>8

\* A frame above another one goes.
LEMMA PopKeeps ==
    ASSUME SInv, InKernel, Pop, Top.kind \notin BaseKinds, current = sp, sp \in Live,
           ~HandsOver, UNCHANGED <<sp, next, rsp, spawned, exited, wild, current, tss, sysrsp>>,
           ring3' = None, intr' \in BOOLEAN
    PROVE  SInv'
<1>1. Len(stk[sp]) > 1
    <2>1. PICK n : n = Len(stk[sp])
        BY Zenon
    <2>2. n \in Nat /\ n > 0 /\ FrameOK(sp, Top, n, n)
        BY <2>1, Here
    <2>3. n # 1
        BY <2>2 DEF FrameOK
    <2>4. n > 1
        BY <2>2, <2>3
    <2> QED
        BY <2>1, <2>4
<1>2. PICK q : /\ StackOK(sp, q) /\ Len(q) = Len(stk[sp]) - 1 /\ stk' = [stk EXCEPT ![sp] = q]
               /\ (Len(q) > 0 /\ q[Len(q)].kind \in Leaving) => Resting(q[Len(q)])
    BY AfterPop
<1>3. Len(q) > 0
    BY <1>1, <1>2, Here
<1>4. PICK g : g = q[Len(q)]
    OBVIOUS
<1>5. g.kind \in Leaving => Resting(g)
    BY <1>2, <1>3, <1>4
<1>6. spawned = Len(Order)
    BY Booted DEF BaseKinds
<1>7. sp \in User => tss = sp /\ sysrsp = sp
    BY DEF SInv, EntryStacks
<1>8. Types /\ Live' = Live
    BY DEF SInv, Live
<1>9. g.kind = "yield" => Yielding(g)'
    BY <1>5, <1>8 DEF Resting, Leaving, Yielding
<1>10. g.kind = "exit" => Leave(g)'
    BY <1>5, <1>8 DEF Resting, Leaving, Leave
<1> QED
    BY <1>2, <1>3, <1>4, <1>6, <1>7, <1>8, <1>9, <1>10, OwnStep, Zenon DEF Types

LEMMA PopsKeep == ASSUME SInv, YieldReturn \/ (IrqReturn /\ Top.kind # "irq3") \/ (YieldRead /\ next[current] = current)
                  PROVE  SInv'
<1>1. /\ InKernel /\ Pop /\ intr' \in BOOLEAN /\ ring3' = None
      /\ Top.kind = "irq" \/ (Top.kind = "yield" /\ Top.at \in {"start", "return"})
      /\ UNCHANGED <<sp, next, rsp, spawned, exited, wild, current, tss, sysrsp>>
    BY Zenon DEF YieldReturn, IrqReturn, YieldRead, InKernel, SInv, Types
<1>2. Top.kind \notin BaseKinds
    BY <1>1 DEF BaseKinds
<1>3. current = sp /\ sp \in Live
    <2>1. CASE Top.kind = "irq"
        BY <1>1, <2>1, Inside DEF Leaving
    <2>2. CASE Top.kind = "yield"
        BY <1>1, <2>2 DEF SInv, Running, Yielding, InKernel
    <2> QED
        BY <1>1, <2>1, <2>2
<1>4. ~HandsOver
    BY <1>1 DEF HandsOver
<1> QED
    BY <1>1, <1>2, <1>3, <1>4, PopKeeps

\* A switching frame moves on.
LEMMA MovesOn ==
    ASSUME SInv, InKernel, Top.kind \in Leaving, NEW f \in Frames, SetTop(f), f.thr = sp, f.kind = Top.kind,
           UNCHANGED <<sp, next, rsp, ring3, intr, spawned, exited, wild>>,
           current' \in Thread, tss' \in Thread \cup {None}, sysrsp' \in Thread \cup {None},
           f.kind = "yield" => Yielding(f)', f.kind = "exit" => Leave(f)',
           (sp \in User /\ ~(f.kind = "yield" /\ f.at \in {"current", "load", "switch"}))
               => tss' = sp /\ sysrsp' = sp
    PROVE  SInv'
<1>1. PICK q : /\ StackOK(sp, q) /\ Len(q) > 0 /\ q[Len(q)] = f
               /\ stk' = [stk EXCEPT ![sp] = q]
    BY AfterSet
<1>2. spawned = Len(Order)
    BY Booted DEF Leaving
<1>3. ring3' = None /\ intr' \in BOOLEAN
    BY DEF InKernel, SInv, Types
<1> QED
    BY <1>1, <1>2, <1>3, OwnStep, Zenon

\* Before it hands over, a thread has its own entry stacks.
LEMMA OwnEntry ==
    ASSUME SInv, InKernel, sp \in User, ~(Top.kind = "yield" /\ Top.at \in {"current", "load", "switch"})
    PROVE  tss = sp /\ sysrsp = sp
BY DEF SInv, EntryStacks, HandsOver

LEMMA TopFields ==
    ASSUME SInv, InKernel
    PROVE  /\ Top.next \in Thread \cup {None} /\ Top.prev \in Thread \cup {None}
           /\ Top.arg \in Saved \cup {None}
<1>1. PICK g \in Frames : g = Top
    BY Here
<1>2. g.next \in Thread \cup {None} /\ g.prev \in Thread \cup {None} /\ g.arg \in Saved \cup {None}
    BY DEF Frames
<1> QED
    BY <1>1, <1>2

LEMMA YieldReadKeeps == ASSUME SInv, YieldRead, next[current] # current PROVE SInv'
<1>1. /\ InKernel /\ Top.kind = "yield" /\ Top.at = "start"
      /\ SetTop([Top EXCEPT !.at = "tss", !.prev = current, !.next = next[current]])
      /\ UNCHANGED <<current, next, rsp, tss, sysrsp, sp, ring3, intr, spawned, exited, wild>>
    BY DEF YieldRead
<1>2. Types /\ Yielding(Top) /\ Ring
    BY <1>1 DEF SInv, Running, InKernel
<1>3. current = sp /\ sp \in Live /\ sp \in Thread
    BY <1>1, <1>2 DEF Yielding, Types
<1>4. next[sp] \in Live /\ next[sp] \in Thread
    BY <1>2, <1>3 DEF Ring, RingOn, Live
<1>5. PICK f \in Frames : /\ f = [Top EXCEPT !.at = "tss", !.prev = current, !.next = next[current]]
                          /\ f.kind = "yield" /\ f.thr = sp /\ f.at = "tss" /\ f.prev = sp /\ f.next = next[sp]
    <2>1. PICK g \in Frames : g = Top /\ g.thr = sp /\ g.kind = "yield"
        BY <1>1, Here
    <2>2. PICK c \in Thread, n \in Thread : c = current /\ n = next[current]
        BY <1>3, <1>4
    <2>3. LET f == [g EXCEPT !.at = "tss", !.prev = c, !.next = n]
          IN  f \in Frames /\ f.kind = "yield" /\ f.thr = sp /\ f.at = "tss" /\ f.prev = c /\ f.next = n
        BY <2>1, Zenon DEF Frames
    <2> QED
        BY <1>3, <2>1, <2>2, <2>3, Zenon
<1>6. Live' = Live
    BY <1>1 DEF Live
<1>7. Yielding(f)'
    BY <1>1, <1>3, <1>4, <1>5, <1>6 DEF Yielding
<1>8. Top.kind \in Leaving
    BY <1>1 DEF Leaving
<1>9. sp \in User => tss' = sp /\ sysrsp' = sp
    BY <1>1, OwnEntry
<1>10. current' \in Thread /\ tss' \in Thread \cup {None} /\ sysrsp' \in Thread \cup {None}
    BY <1>1, <1>2 DEF Types
<1> QED
    BY <1>1, <1>5, <1>7, <1>8, <1>9, <1>10, MovesOn, Zenon

LEMMA YieldTssKeeps == ASSUME SInv, YieldTss PROVE SInv'
<1>1. /\ InKernel /\ Top.kind = "yield" /\ Top.at = "tss" /\ SetTop([Top EXCEPT !.at = "current"])
      /\ Top.next # Idle => tss' = Top.next /\ sysrsp' = Top.next
      /\ Top.next = Idle => tss' = tss /\ sysrsp' = sysrsp
      /\ UNCHANGED <<current, next, rsp, sp, ring3, intr, spawned, exited, wild>>
    BY DEF YieldTss, HasEntryStack
<1>2. Types /\ Yielding(Top) /\ Ring
    BY <1>1 DEF SInv, Running, InKernel
<1>3. PICK f \in Frames : /\ f = [Top EXCEPT !.at = "current"] /\ f.kind = "yield" /\ f.thr = sp
                          /\ f.at = "current" /\ f.prev = Top.prev /\ f.next = Top.next
    <2>1. PICK g \in Frames : g = Top /\ g.thr = sp /\ g.kind = "yield"
        BY <1>1, Here
    <2>2. LET f == [g EXCEPT !.at = "current"]
          IN  f \in Frames /\ f.kind = "yield" /\ f.thr = sp /\ f.at = "current" /\ f.prev = g.prev /\ f.next = g.next
        BY <2>1 DEF Frames
    <2> QED
        BY <2>1, <2>2, Zenon
<1>4. Live' = Live
    BY <1>1 DEF Live
<1>5. Top.next \in User => tss' = Top.next /\ sysrsp' = Top.next
    BY <1>1, ThreadAssumption
<1>6. Yielding(f)'
    BY <1>1, <1>2, <1>3, <1>4, <1>5 DEF Yielding
<1>7. Top.kind \in Leaving
    BY <1>1 DEF Leaving
<1>8. current' \in Thread /\ tss' \in Thread \cup {None} /\ sysrsp' \in Thread \cup {None}
    <2>1. Top.next \in Thread \cup {None}
        BY <1>1, TopFields
    <2> QED
        BY <1>1, <1>2, <2>1 DEF Types
<1> QED
    BY <1>1, <1>3, <1>6, <1>7, <1>8, MovesOn, Zenon

LEMMA SetCurrentKeeps == ASSUME SInv, SetCurrent PROVE SInv'
<1>1. /\ InKernel /\ Top.kind \in Leaving /\ Top.at = "current" /\ SetTop([Top EXCEPT !.at = "load"])
      /\ current' = Top.next
      /\ UNCHANGED <<next, rsp, tss, sysrsp, sp, ring3, intr, spawned, exited, wild>>
    BY DEF SetCurrent, Leaving
<1>2. Types /\ Ring /\ (Top.kind = "yield" => Yielding(Top)) /\ (Top.kind = "exit" => Leave(Top))
    BY <1>1 DEF SInv, Running, InKernel
<1>3. PICK f \in Frames : /\ f = [Top EXCEPT !.at = "load"] /\ f.kind = Top.kind /\ f.thr = sp
                          /\ f.at = "load" /\ f.prev = Top.prev /\ f.next = Top.next
    <2>1. PICK g \in Frames : g = Top /\ g.thr = sp
        BY <1>1, Here
    <2>2. LET f == [g EXCEPT !.at = "load"]
          IN  f \in Frames /\ f.kind = g.kind /\ f.thr = sp /\ f.at = "load" /\ f.prev = g.prev /\ f.next = g.next
        BY <2>1 DEF Frames
    <2> QED
        BY <2>1, <2>2, Zenon
<1>4. Live' = Live
    BY <1>1 DEF Live
<1>5. Top.kind = "yield" => Yielding(f)'
    BY <1>1, <1>2, <1>3, <1>4 DEF Yielding
<1>6. Top.kind = "exit" => Leave(f)'
    BY <1>1, <1>2, <1>3, <1>4 DEF Leave
<1>7. Top.next \in Thread
    <2>1. CASE Top.kind = "yield"
        BY <1>1, <1>2, <2>1 DEF Yielding, Ring, RingOn, Live
    <2>2. CASE Top.kind = "exit"
        BY <1>1, <1>2, <2>2 DEF Leave, Live
    <2> QED
        BY <1>1, <2>1, <2>2 DEF Leaving
<1>8. current' \in Thread /\ tss' \in Thread \cup {None} /\ sysrsp' \in Thread \cup {None}
    BY <1>1, <1>2, <1>7 DEF Types
<1>9. (sp \in User /\ ~(f.kind = "yield" /\ f.at \in {"current", "load", "switch"})) => tss' = sp /\ sysrsp' = sp
    BY <1>1, <1>3, OwnEntry
<1> QED
    BY <1>1, <1>3, <1>5, <1>6, <1>8, <1>9, MovesOn, Zenon

LEMMA LoadRspKeeps == ASSUME SInv, LoadRsp PROVE SInv'
<1>1. /\ InKernel /\ Top.kind \in Leaving /\ Top.at = "load"
      /\ SetTop([Top EXCEPT !.at = "switch", !.arg = rsp[Top.next]])
      /\ UNCHANGED <<current, next, rsp, tss, sysrsp, sp, ring3, intr, spawned, exited, wild>>
    BY DEF LoadRsp, Leaving
<1>2. Types /\ Ring /\ (Top.kind = "yield" => Yielding(Top)) /\ (Top.kind = "exit" => Leave(Top))
    BY <1>1 DEF SInv, Running, InKernel
<1>3. Top.next \in Thread
    <2>1. CASE Top.kind = "yield"
        BY <1>1, <1>2, <2>1 DEF Yielding, Ring, RingOn, Live
    <2>2. CASE Top.kind = "exit"
        BY <1>1, <1>2, <2>2 DEF Leave, Live
    <2> QED
        BY <1>1, <2>1, <2>2 DEF Leaving
<1>4. PICK f \in Frames : /\ f = [Top EXCEPT !.at = "switch", !.arg = rsp[Top.next]] /\ f.kind = Top.kind /\ f.thr = sp
                          /\ f.at = "switch" /\ f.prev = Top.prev /\ f.next = Top.next /\ f.arg = rsp[Top.next]
    <2>1. PICK g \in Frames : g = Top /\ g.thr = sp
        BY <1>1, Here
    <2>2. PICK a \in Saved \cup {None} : a = rsp[Top.next]
        BY <1>2, <1>3 DEF Types
    <2>3. LET f == [g EXCEPT !.at = "switch", !.arg = a]
          IN  /\ f \in Frames /\ f.kind = g.kind /\ f.thr = sp /\ f.at = "switch" /\ f.prev = g.prev
              /\ f.next = g.next /\ f.arg = a
        BY <2>1, <2>2, Zenon DEF Frames
    <2> QED
        BY <2>1, <2>2, <2>3, Zenon
<1>5. Live' = Live
    BY <1>1 DEF Live
<1>6. Top.kind = "yield" => Yielding(f)'
    BY <1>1, <1>2, <1>4, <1>5 DEF Yielding
<1>7. Top.kind = "exit" => Leave(f)'
    BY <1>1, <1>2, <1>4, <1>5 DEF Leave
<1>8. current' \in Thread /\ tss' \in Thread \cup {None} /\ sysrsp' \in Thread \cup {None}
    BY <1>1, <1>2 DEF Types
<1>9. (sp \in User /\ ~(f.kind = "yield" /\ f.at \in {"current", "load", "switch"})) => tss' = sp /\ sysrsp' = sp
    BY <1>1, <1>4, OwnEntry
<1> QED
    BY <1>1, <1>4, <1>6, <1>7, <1>8, <1>9, MovesOn, Zenon

-----------------------------------------------------------------------------
(* The run queue. *)

LEMMA HasPredecessor ==
    ASSUME NEW L, NEW nx, RingOn(L, nx), NEW me \in L, NEW other \in L, other # me
    PROVE  (\E t \in L : nx[t] = me) /\ nx[me] # me
<1>1. L \ {me} \in SUBSET L /\ L \ {me} \notin {{}, L}
    OBVIOUS
<1>2. PICK t \in L \ {me} : nx[t] \notin L \ {me}
    BY <1>1, Zenon DEF RingOn
<1>3. nx[t] = me
    BY <1>2 DEF RingOn
<1>4. nx[me] # me
    BY <1>2, <1>3 DEF RingOn
<1> QED
    BY <1>3, <1>4

\* thread_exit()'s unlink takes one thread out of the cycle.
LEMMA RingRemove ==
    ASSUME NEW D, NEW L \in SUBSET D, NEW nx \in [D -> D \cup {None}], RingOn(L, nx),
           NEW me \in L, NEW prev \in L, nx[prev] = me, nx[me] # me
    PROVE  RingOn(L \ {me}, [nx EXCEPT ![prev] = nx[me]])
<1> DEFINE M == L \ {me}
           mx == [nx EXCEPT ![prev] = nx[me]]
<1>1. prev # me /\ mx[prev] = nx[me] /\ \A t \in L : t # prev => mx[t] = nx[t]
    OBVIOUS
<1> HIDE DEF mx
<1>2. \A t \in M : mx[t] \in M
    BY <1>1 DEF RingOn
<1>3. \A t, u \in M : mx[t] = mx[u] => t = u
    BY <1>1 DEF RingOn
<1>4. ASSUME NEW S \in SUBSET M, S \notin {{}, M} PROVE \E t \in S : mx[t] \notin S
    <2>1. CASE prev \notin S
        <3>1. S \in SUBSET L /\ S \notin {{}, L}
            BY <1>4
        <3>2. PICK t \in S : nx[t] \notin S
            BY <3>1 DEF RingOn
        <3> QED
            BY <1>1, <2>1, <3>2
    <2>2. CASE prev \in S
        <3>1. S \cup {me} \in SUBSET L /\ S \cup {me} \notin {{}, L}
            BY <1>4
        <3>2. PICK t \in S \cup {me} : nx[t] \notin S \cup {me}
            BY <3>1, Zenon DEF RingOn
        <3> QED
            BY <1>1, <2>2, <3>2
    <2> QED
        BY <2>1, <2>2
<1> QED
    BY <1>2, <1>3, <1>4 DEF RingOn, mx

\* insert_queue() puts one thread into it.
LEMMA RingInsert ==
    ASSUME NEW D, NEW L \in SUBSET D, NEW nx \in [D -> D \cup {None}], RingOn(L, nx),
           NEW at \in L, NEW new \in D \ L
    PROVE  RingOn(L \cup {new}, [nx EXCEPT ![new] = nx[at], ![at] = new])
<1> DEFINE M == L \cup {new}
           mx == [nx EXCEPT ![new] = nx[at], ![at] = new]
<1>1. mx[new] = nx[at] /\ mx[at] = new /\ \A t \in L : t # at => mx[t] = nx[t]
    OBVIOUS
<1> HIDE DEF mx
<1>2. \A t \in M : mx[t] \in M
    BY <1>1 DEF RingOn
<1>3. \A t, u \in M : mx[t] = mx[u] => t = u
    BY <1>1 DEF RingOn
<1>4. ASSUME NEW S \in SUBSET M, S \notin {{}, M} PROVE \E t \in S : mx[t] \notin S
    <2>1. CASE new \notin S /\ at \in S
        BY <1>1, <2>1
    <2>2. CASE new \notin S /\ at \notin S
        <3>1. S \in SUBSET L /\ S \notin {{}, L}
            BY <1>4, <2>2
        <3>2. PICK t \in S : nx[t] \notin S
            BY <3>1 DEF RingOn
        <3> QED
            BY <1>1, <2>2, <3>1, <3>2
    <2>3. CASE new \in S /\ S = {new}
        BY <1>1, <2>3 DEF RingOn
    <2>4. CASE new \in S /\ S # {new}
        <3>1. S \ {new} \in SUBSET L /\ S \ {new} \notin {{}, L}
            BY <1>4, <2>4
        <3>2. PICK t \in S \ {new} : nx[t] \notin S \ {new}
            BY <3>1, Zenon DEF RingOn
        <3>3. nx[t] \notin S
            BY <3>1, <3>2 DEF RingOn
        <3> QED
            BY <1>1, <2>4, <3>1, <3>2, <3>3
    <2> QED
        BY <2>1, <2>2, <2>3, <2>4
<1> QED
    BY <1>2, <1>3, <1>4 DEF RingOn, mx

LEMMA ExitWalkKeeps == ASSUME SInv, ExitWalk PROVE SInv'
<1>1. /\ InKernel /\ Top.kind = "exit" /\ Top.at = "start"
      /\ SetTop([Top EXCEPT !.at = "unlink", !.next = current, !.prev = Predecessor])
      /\ UNCHANGED <<current, next, rsp, tss, sysrsp, sp, ring3, intr, spawned, exited, wild>>
    BY DEF ExitWalk
<1>2. Types /\ Leave(Top) /\ Ring
    BY <1>1 DEF SInv, Running, InKernel
<1>3. current = sp /\ sp \in Live /\ sp \in Thread
    BY <1>1, <1>2 DEF Leave, Types
<1>4. sp # Idle
    BY <1>1, Here DEF FrameOK
<1>5. Idle \in Live
    BY <1>2 DEF Types, Live, Thread
<1>6. Predecessor \in Live /\ next[Predecessor] = sp
    <2>1. RingOn(Live, next)
        BY <1>2 DEF Ring, RingOn
    <2>2. \E t \in Live : next[t] = sp
        BY <1>3, <1>4, <1>5, <2>1, HasPredecessor
    <2> QED
        BY <1>3, <2>2 DEF Predecessor
<1>7. PICK f \in Frames : /\ f = [Top EXCEPT !.at = "unlink", !.next = current, !.prev = Predecessor]
                          /\ f.kind = "exit" /\ f.thr = sp /\ f.at = "unlink" /\ f.prev = Predecessor /\ f.next = sp
    <2>1. PICK g \in Frames : g = Top /\ g.thr = sp /\ g.kind = "exit"
        BY <1>1, Here
    <2>2. PICK c \in Thread, p \in Thread : c = current /\ p = Predecessor
        BY <1>3, <1>6 DEF Live
    <2>3. LET f == [g EXCEPT !.at = "unlink", !.next = c, !.prev = p]
          IN  f \in Frames /\ f.kind = "exit" /\ f.thr = sp /\ f.at = "unlink" /\ f.prev = p /\ f.next = c
        BY <2>1, Zenon DEF Frames
    <2> QED
        BY <1>3, <2>1, <2>2, <2>3, Zenon
<1>8. Live' = Live
    BY <1>1 DEF Live
<1>9. Leave(f)'
    BY <1>1, <1>3, <1>6, <1>7, <1>8 DEF Leave
<1>10. Top.kind \in Leaving
    BY <1>1 DEF Leaving
<1>11. sp \in User => tss' = sp /\ sysrsp' = sp
    BY <1>1, OwnEntry
<1>12. current' \in Thread /\ tss' \in Thread \cup {None} /\ sysrsp' \in Thread \cup {None}
    BY <1>1, <1>2 DEF Types
<1> QED
    BY <1>1, <1>7, <1>9, <1>10, <1>11, <1>12, MovesOn, Zenon

LEMMA ExitUnlinkKeeps == ASSUME SInv, ExitUnlink PROVE SInv'
<1> DEFINE prev == Top.prev
<1>1. /\ InKernel /\ Top.kind = "exit" /\ Top.at = "unlink"
      /\ next' = Unlinked(Top.prev, Top.next) /\ exited' = exited \cup {Top.next}
      /\ SetTop([Top EXCEPT !.at = "current", !.next = next[Top.next], !.prev = None])
      /\ UNCHANGED <<current, rsp, tss, sysrsp, sp, ring3, intr, spawned, wild>>
    BY DEF ExitUnlink
<1>2. Types /\ Stacks /\ OthersWait /\ Leave(Top) /\ Ring /\ RingOn(Live, next)
    BY <1>1 DEF SInv, Running, InKernel, Ring, RingOn
<1>3. /\ current = sp /\ sp \in Live /\ sp \in Thread /\ Top.next = sp
      /\ prev \in Live /\ prev \in Thread /\ next[prev] = sp
    BY <1>1, <1>2 DEF Leave, Types, Live
<1>4. sp # Idle /\ Idle \in Live
    BY <1>1, <1>2, Here DEF FrameOK, Types, Live, Thread
<1>5. next[sp] # sp /\ next[sp] \in Live
    <2>1. PICK me \in Live, other \in Live : me = sp /\ other = Idle
        BY <1>3, <1>4
    <2>2. next[me] # me
        BY <1>2, <1>4, <2>1, HasPredecessor
    <2> QED
        BY <1>2, <2>1, <2>2 DEF RingOn
<1>6. Live' = Live \ {sp}
    BY <1>1, <1>3 DEF Live
<1>7. next' = [next EXCEPT ![prev] = next[sp]]
    BY <1>1, <1>3 DEF Unlinked
<1> HIDE DEF prev
<1>8. Ring'
    <2>1. RingOn(Live \ {sp}, [next EXCEPT ![prev] = next[sp]])
        <3>1. PICK L \in SUBSET Thread, nx \in [Thread -> Thread \cup {None}] : L = Live /\ nx = next
            BY <1>2, Zenon DEF Live, Types
        <3>2. PICK me \in L, p \in L : me = sp /\ p = prev
            BY <1>3, <3>1
        <3>3. RingOn(L, nx) /\ nx[p] = me /\ nx[me] # me
            BY <1>2, <1>3, <1>5, <3>1, <3>2
        <3>4. RingOn(L \ {me}, [nx EXCEPT ![p] = nx[me]])
            BY <3>3, RingRemove, Zenon
        <3> QED
            BY <3>1, <3>2, <3>4
    <2>2. RingOn(Live, next)'
        BY <1>6, <1>7, <2>1 DEF RingOn
    <2>3. ASSUME NEW t \in Live', next'[t] \in User PROVE t = Idle
        <3>1. CASE t = prev
            BY <1>2, <1>3, <1>4, <1>7, <2>3, <3>1 DEF Ring, Types
        <3>2. CASE t # prev
            BY <1>2, <1>3, <1>6, <1>7, <2>3, <3>2 DEF Ring, Types, Live
        <3> QED
            BY <3>1, <3>2
    <2> QED
        BY <2>2, <2>3 DEF Ring
<1>9. PICK f \in Frames : /\ f = [Top EXCEPT !.at = "current", !.next = next[Top.next], !.prev = None]
                          /\ f.kind = "exit" /\ f.thr = sp /\ f.at = "current" /\ f.next = next[sp]
    <2>1. PICK g \in Frames : g = Top /\ g.thr = sp /\ g.kind = "exit"
        BY <1>1, Here
    <2>2. PICK n \in Thread : n = next[sp]
        BY <1>5 DEF Live
    <2>3. LET f == [g EXCEPT !.at = "current", !.next = n, !.prev = None]
          IN  f \in Frames /\ f.kind = "exit" /\ f.thr = sp /\ f.at = "current" /\ f.next = n
        BY <2>1, Zenon DEF Frames
    <2> QED
        BY <1>3, <2>1, <2>2, <2>3, Zenon
<1>10. PICK q : StackOK(sp, q) /\ Len(q) > 0 /\ q[Len(q)] = f /\ stk' = [stk EXCEPT ![sp] = q]
    BY <1>1, <1>9, AfterSet, Zenon
<1>11. /\ stk' \in [Thread -> Seq(Frames)] /\ stk'[sp] = q
       /\ \A t \in Thread : t # sp => stk'[t] = stk[t]
    BY <1>2, <1>3, <1>10 DEF Types, StackOK
<1>12. Types'
    <2>1. next' \in [Thread -> Thread \cup {None}]
        BY <1>2, <1>3, <1>5, <1>7 DEF Types, Live
    <2>2. exited' \in SUBSET Thread /\ Idle \notin exited'
        BY <1>1, <1>2, <1>3, <1>4 DEF Types
    <2> QED
        BY <1>1, <1>2, <1>11, <2>1, <2>2 DEF Types
<1>13. Stacks'
    BY <1>2, <1>10, <1>11 DEF Stacks
<1>14. OthersWait'
    <2> SUFFICES ASSUME NEW t \in Live, t # sp PROVE Waits(t)'
        BY <1>1, <1>6 DEF OthersWait
    <2>1. Waits(t) /\ stk'[t] = stk[t] /\ rsp'[t] = rsp[t]
        BY <1>1, <1>2, <1>11 DEF OthersWait, Live
    <2> QED
        BY <2>1 DEF Waits
<1>15. Top' = f /\ Len(stk'[sp']) > 0 /\ ring3' = None
    BY <1>1, <1>10, <1>11 DEF Top, Depth, InKernel
<1>16. Running'
    <2>1. next[sp] \notin User
        BY <1>2, <1>3, <1>4 DEF Ring
    <2>2. Leave(f)'
        BY <1>1, <1>3, <1>5, <1>6, <1>9, <2>1 DEF Leave
    <2> QED
        BY <1>9, <1>15, <2>2 DEF Running, Leaving
<1>17. EntryStacks'
    BY <1>1, OwnEntry DEF EntryStacks
<1>18. Boot'
    BY <1>1, Booted DEF Boot
<1> QED
    BY <1>8, <1>12, <1>13, <1>14, <1>16, <1>17, <1>18 DEF SInv

\* switch_context() goes to a thread that waits, and leaves one that waits or has exited.
LEMMA SwitchKeeps == ASSUME SInv, Switch PROVE SInv'
<1> DEFINE to == Top.next
<1>1. /\ InKernel /\ Top.kind \in Leaving /\ Top.at = "switch"
      /\ rsp' = IF Top.kind = "yield" THEN [rsp EXCEPT ![Top.prev] = [s |-> sp, d |-> Len(stk[sp])]] ELSE rsp
      /\ SetTop([Top EXCEPT !.at = "return", !.prev = None, !.next = None, !.arg = None])
      /\ IF Intact(Top.arg) /\ Top.arg.s # sp
         THEN sp' = Top.arg.s /\ UNCHANGED wild
         ELSE wild' = TRUE /\ UNCHANGED sp
      /\ UNCHANGED <<current, next, tss, sysrsp, ring3, intr, spawned, exited>>
    BY DEF Switch, SaveIn, Depth, Leaving
<1>2. /\ Types /\ Stacks /\ OthersWait /\ Ring
      /\ Top.kind = "yield" => Yielding(Top)
      /\ Top.kind = "exit" => Leave(Top)
    BY <1>1 DEF SInv, Running, InKernel
<1>3. /\ to \in Live /\ to # sp /\ to \in Thread /\ current = to /\ Top.arg = rsp[to]
      /\ to \in User => tss = to /\ sysrsp = to
    <2>1. CASE Top.kind = "yield"
        BY <1>1, <1>2, <2>1 DEF Yielding, Ring, RingOn, Live
    <2>2. CASE Top.kind = "exit"
        BY <1>1, <1>2, <2>2 DEF Leave, Live
    <2> QED
        BY <1>1, <2>1, <2>2 DEF Leaving
<1> HIDE DEF to
<1>4. Waits(to)
    BY <1>2, <1>3 DEF OthersWait
<1>5. sp' = to /\ wild' = wild
    <2>1. Top.arg = [s |-> to, d |-> Len(stk[to])] /\ Len(stk[to]) > 0
        BY <1>3, <1>4 DEF Waits
    <2>2. Top.arg \in Saved
        BY <1>2, <1>3, <2>1 DEF Types, Saved
    <2>3. Top.arg # None
        BY <2>2, ThreadAssumption DEF Saved
    <2> QED
        BY <1>1, <1>3, <2>1, <2>3 DEF Intact, Depth
<1>6. PICK f \in Frames : /\ f = [Top EXCEPT !.at = "return", !.prev = None, !.next = None, !.arg = None]
                          /\ f.kind = Top.kind /\ f.thr = sp /\ f.at = "return"
    <2>1. PICK g \in Frames : g = Top /\ g.thr = sp
        BY <1>1, Here
    <2>2. LET f == [g EXCEPT !.at = "return", !.prev = None, !.next = None, !.arg = None]
          IN  f \in Frames /\ f.kind = g.kind /\ f.thr = sp /\ f.at = "return"
        BY <2>1, Zenon DEF Frames
    <2> QED
        BY <2>1, <2>2, Zenon
<1>7. PICK q : /\ StackOK(sp, q) /\ Len(q) > 0 /\ q[Len(q)] = f /\ Len(q) = Len(stk[sp])
               /\ stk' = [stk EXCEPT ![sp] = q]
    BY <1>1, <1>6, AfterSet, Zenon
<1>8. /\ sp \in Thread /\ stk' \in [Thread -> Seq(Frames)] /\ stk'[sp] = q
      /\ \A t \in Thread : t # sp => stk'[t] = stk[t]
    BY <1>2, <1>7 DEF Types, StackOK
<1>9. Live' = Live
    BY <1>1 DEF Live
<1>10. /\ rsp' \in [Thread -> Saved \cup {None}]
       /\ \A t \in Thread : t # sp => rsp'[t] = rsp[t]
       /\ Top.kind = "yield" => rsp'[sp] = [s |-> sp, d |-> Len(stk[sp])]
    <2>1. CASE Top.kind = "yield"
        <3>1. Top.prev = sp
            BY <1>1, <1>2, <2>1 DEF Yielding
        <3>2. [s |-> sp, d |-> Len(stk[sp])] \in Saved
            BY <1>1, <1>8, Here DEF Saved
        <3> QED
            BY <1>1, <1>2, <1>8, <2>1, <3>1, <3>2 DEF Types
    <2>2. CASE Top.kind # "yield"
        BY <1>1, <1>2, <2>2 DEF Types
    <2> QED
        BY <2>1, <2>2
<1>11. Types'
    BY <1>1, <1>2, <1>3, <1>5, <1>8, <1>10 DEF Types
<1>12. Stacks'
    BY <1>2, <1>7, <1>8 DEF Stacks
<1>13. OthersWait'
    <2> SUFFICES ASSUME NEW t \in Live, t # to PROVE Waits(t)'
        BY <1>5, <1>9 DEF OthersWait
    <2>1. CASE t = sp
        <3>1. Top.kind = "yield"
            BY <1>1, <1>2, <2>1 DEF Leave, Live, Leaving
        <3> QED
            BY <1>6, <1>7, <1>8, <1>10, <2>1, <3>1, Zenon DEF Waits
    <2>2. CASE t # sp
        <3>1. Waits(t) /\ stk'[t] = stk[t] /\ rsp'[t] = rsp[t]
            BY <1>2, <1>8, <1>10, <2>2 DEF OthersWait, Live
        <3> QED
            BY <3>1 DEF Waits
    <2> QED
        BY <2>1, <2>2
<1>14. Ring'
    BY <1>1, <1>2, <1>9 DEF Ring, RingOn
<1>15. ring3' = None /\ Len(stk'[sp']) > 0 /\ (Top.kind = "seed" \/ (Top.kind = "yield" /\ Top.at = "return"))'
    BY <1>1, <1>3, <1>4, <1>5, <1>8 DEF Waits, Top, Depth, InKernel
<1>16. Running'
    BY <1>1, <1>3, <1>5, <1>9, <1>15 DEF Running, Yielding
<1>17. EntryStacks'
    BY <1>1, <1>3, <1>5 DEF EntryStacks
<1>18. Boot'
    BY <1>1, Booted DEF Boot, Leaving
<1> QED
    BY <1>11, <1>12, <1>13, <1>14, <1>16, <1>17, <1>18 DEF SInv

-----------------------------------------------------------------------------
(* Boot and kernel entries. *)

LEMMA CreateKeeps == ASSUME SInv, UserLast, Create PROVE SInv'
<1> DEFINE t == Order[spawned + 1]
<1>1. /\ InKernel /\ current = Idle /\ spawned < Len(Order)
      /\ stk' = [stk EXCEPT ![t] = <<Frame("seed", t)>>]
      /\ rsp' = [rsp EXCEPT ![t] = [s |-> t, d |-> 1]]
      /\ next' = [next EXCEPT ![t] = next[Idle], ![Idle] = t]
      /\ spawned' = spawned + 1
      /\ UNCHANGED <<current, tss, sysrsp, sp, ring3, intr, exited, wild>>
    BY DEF Create, LinkAfterCurrent
<1>2. Types /\ Stacks /\ OthersWait /\ Running /\ Boot /\ RingOn(Live, next)
    BY DEF SInv, Ring, RingOn
<1>3. /\ sp = Idle /\ ring3 = None /\ ~intr /\ exited = {}
      /\ Len(stk[Idle]) = 1 /\ stk[Idle][1].kind = "body"
    BY <1>1, <1>2 DEF Boot
<1>4. /\ spawned \in Nat /\ Len(Order) \in Nat /\ spawned + 1 \in 1 .. Len(Order)
      /\ Order \in [1 .. Len(Order) -> Kernel \cup User]
      /\ \A i, j \in 1 .. Len(Order) : Order[i] = Order[j] => i = j
    BY <1>1, <1>2, ThreadAssumption DEF Types
<1>5. t \in Kernel \cup User /\ t \in Thread /\ t # Idle
    BY <1>4, ThreadAssumption DEF Thread
<1>6. t \notin Live
    BY <1>4, <1>5 DEF Live
<1>7. Live' = Live \cup {t}
    <2>1. Live = {u \in Thread : u = Idle \/ \E i \in 1 .. spawned : Order[i] = u}
        BY <1>3 DEF Live
    <2>2. Live' = {u \in Thread : u = Idle \/ \E i \in 1 .. spawned + 1 : Order[i] = u}
        BY <1>1, <1>3 DEF Live
    <2>3. 1 .. spawned + 1 = 1 .. spawned \cup {spawned + 1}
        BY <1>4
    <2> QED
        BY <1>5, <2>1, <2>2, <2>3
<1>8. \A u \in Live : u \notin User
    <2> SUFFICES ASSUME NEW u \in Live, u \in User PROVE FALSE
        OBVIOUS
    <2>1. u # Idle
        BY ThreadAssumption
    <2>2. PICK i \in 1 .. spawned : Order[i] = u
        BY <2>1 DEF Live
    <2>3. i \in 1 .. Len(Order) /\ i # Len(Order)
        BY <1>1, <1>4
    <2> QED
        BY <1>4, <2>2, <2>3, Zenon DEF UserLast
<1>9. Idle \in Live
    BY <1>3 DEF Live, Thread
<1> HIDE DEF t
<1>10. Ring'
    <2>1. RingOn(Live \cup {t}, [next EXCEPT ![t] = next[Idle], ![Idle] = t])
        <3>1. PICK L \in SUBSET Thread, nx \in [Thread -> Thread \cup {None}] : L = Live /\ nx = next
            BY <1>2, Zenon DEF Live, Types
        <3>2. PICK at \in L, new \in Thread \ L : at = Idle /\ new = t
            BY <1>5, <1>6, <1>9, <3>1
        <3>3. RingOn(L, nx)
            BY <1>2, <3>1
        <3>4. RingOn(L \cup {new}, [nx EXCEPT ![new] = nx[at], ![at] = new])
            BY <3>3, RingInsert, Zenon
        <3> QED
            BY <3>1, <3>2, <3>4
    <2>2. RingOn(Live, next)'
        <3>1. RingOn(Live', next')
            BY <1>1, <1>7, <2>1
        <3> QED
            BY <3>1 DEF RingOn
    <2>3. ASSUME NEW u \in Live', u # Idle PROVE next'[u] \notin User
        <3>1. next'[u] = IF u = t THEN next[Idle] ELSE next[u]
            BY <1>1, <1>2, <1>5, <2>3 DEF Types, Live
        <3> QED
            BY <1>2, <1>7, <1>8, <1>9, <3>1 DEF RingOn
    <2> QED
        BY <2>2, <2>3 DEF Ring
<1>11. <<Frame("seed", t)>> \in Seq(Frames) /\ StackOK(t, <<Frame("seed", t)>>)
    <2>1. PICK u \in Thread : u = t
        BY <1>5
    <2>2. PICK f \in Frames : f = Frame("seed", u) /\ f.kind = "seed" /\ f.thr = u
        <3>1. "seed" \in BaseKinds \cup Leaving \cup {"irq"}
            BY DEF BaseKinds
        <3>2. Frame("seed", u) \in Frames /\ Frame("seed", u).kind = "seed" /\ Frame("seed", u).thr = u
            BY <3>1, NewFrame, Zenon
        <3> QED
            BY <3>2
    <2>3. FrameOK(u, f, 1, 1)
        BY <1>5, <2>1, <2>2 DEF FrameOK, BaseKinds, Leaving
    <2>4. <<f>> \in Seq(Frames) /\ Len(<<f>>) = 1 /\ <<f>>[1] = f
        OBVIOUS
    <2>5. StackOK(u, <<f>>)
        BY <2>3, <2>4 DEF StackOK
    <2> QED
        BY <2>1, <2>2, <2>4, <2>5
<1>12. /\ stk' \in [Thread -> Seq(Frames)] /\ stk'[t] = <<Frame("seed", t)>>
       /\ \A u \in Thread : u # t => stk'[u] = stk[u]
    BY <1>1, <1>2, <1>5, <1>11 DEF Types
<1>13. /\ rsp' \in [Thread -> Saved \cup {None}] /\ rsp'[t] = [s |-> t, d |-> 1]
       /\ \A u \in Thread : u # t => rsp'[u] = rsp[u]
    <2>1. [s |-> t, d |-> 1] \in Saved
        BY <1>5 DEF Saved
    <2> QED
        BY <1>1, <1>2, <1>5, <2>1 DEF Types
<1>14. next' \in [Thread -> Thread \cup {None}]
    BY <1>1, <1>2, <1>5, <1>9, Zenon DEF Types, Live
<1>15. spawned' \in 0 .. Len(Order)
    BY <1>1, <1>4
<1>16. Types'
    BY <1>1, <1>2, <1>12, <1>13, <1>14, <1>15, Zenon DEF Types
<1>17. Stacks'
    BY <1>2, <1>11, <1>12 DEF Stacks
<1>18. OthersWait'
    <2> SUFFICES ASSUME NEW u \in Live \cup {t}, u # sp PROVE Waits(u)'
        BY <1>1, <1>7 DEF OthersWait
    <2>1. CASE u = t
        <3>1. PICK f : f = Frame("seed", t) /\ f.kind = "seed"
            <4>1. PICK v : v = t
                OBVIOUS
            <4>2. Frame("seed", v).kind = "seed"
                BY DEF Frame
            <4> QED
                BY <4>1, <4>2
        <3>2. stk'[u] = <<f>> /\ rsp'[u] = [s |-> u, d |-> 1]
            BY <1>12, <1>13, <2>1, <3>1
        <3>3. Len(stk'[u]) = 1 /\ stk'[u][1] = f
            BY <3>2
        <3> QED
            BY <3>1, <3>2, <3>3 DEF Waits
    <2>2. CASE u # t
        <3>1. Waits(u) /\ stk'[u] = stk[u] /\ rsp'[u] = rsp[u]
            BY <1>2, <1>12, <1>13, <2>2 DEF OthersWait, Live
        <3> QED
            BY <3>1 DEF Waits
    <2> QED
        BY <2>1, <2>2
<1>19. stk'[Idle] = stk[Idle]
    BY <1>5, <1>12 DEF Thread
<1>20. Running'
    BY <1>1, <1>3, <1>7, <1>9, <1>19 DEF Running, Top, Depth
<1>21. EntryStacks'
    BY <1>1, <1>3, ThreadAssumption DEF EntryStacks
<1>22. Boot'
    BY <1>1, <1>3, <1>19 DEF Boot
<1> QED
    BY <1>10, <1>16, <1>17, <1>18, <1>20, <1>21, <1>22 DEF SInv

\* The stack an entry from ring 3 starts.
LEMMA Entered ==
    ASSUME NEW t \in Thread, t \in User, NEW k \in {"irq3", "read", "quit"}
    PROVE  LET q == <<Frame(k, t)>>
           IN  StackOK(t, q) /\ q \in Seq(Frames) /\ Len(q) = 1 /\ q[1] = Frame(k, t)
               /\ Frame(k, t).kind = k /\ Frame(k, t).thr = t
<1>1. k \in BaseKinds \cup Leaving \cup {"irq"}
    BY DEF BaseKinds
<1>2. PICK f \in Frames : f = Frame(k, t) /\ f.kind = k /\ f.thr = t
    <2>1. Frame(k, t) \in Frames /\ Frame(k, t).kind = k /\ Frame(k, t).thr = t
        BY <1>1, NewFrame, Zenon
    <2> QED
        BY <2>1
<1>3. FrameOK(t, f, 1, 1)
    BY <1>2 DEF FrameOK, BaseKinds, Leaving
<1>4. <<f>> \in Seq(Frames) /\ Len(<<f>>) = 1 /\ <<f>>[1] = f
    OBVIOUS
<1>5. StackOK(t, <<f>>)
    BY <1>3, <1>4 DEF StackOK
<1> QED
    BY <1>2, <1>4, <1>5

LEMMA InRing3 ==
    ASSUME SInv, ring3 # None
    PROVE  /\ ring3 = sp /\ current = sp /\ stk[sp] = << >> /\ sp \in User /\ sp \in Live /\ sp \in Thread
           /\ tss = sp /\ sysrsp = sp /\ spawned = Len(Order)
<1>1. spawned = Len(Order)
    BY Booted
<1>2. ring3 = sp /\ current = sp /\ stk[sp] = << >> /\ sp \in User /\ sp \in Live
    BY DEF SInv, Running
<1>3. ~HandsOver
    BY DEF HandsOver
<1> QED
    BY <1>1, <1>2, <1>3 DEF SInv, EntryStacks, Types

LEMMA SysEnterKeeps == ASSUME SInv, NEW k \in {"read", "quit"}, SysEnter(k) PROVE SInv'
<1>1. /\ ring3 # None /\ stk' = [stk EXCEPT ![sysrsp] = <<Frame(k, ring3)>>] /\ sp' = sysrsp
      /\ ring3' = None /\ intr' = FALSE
      /\ UNCHANGED <<current, next, rsp, tss, sysrsp, spawned, exited, wild>>
    BY DEF SysEnter
<1>2. /\ ring3 = sp /\ current = sp /\ sp \in User /\ sp \in Live /\ sp \in Thread
      /\ tss = sp /\ sysrsp = sp /\ spawned = Len(Order)
    BY <1>1, InRing3
<1>3. PICK q : /\ q = <<Frame(k, sp)>> /\ StackOK(sp, q) /\ Len(q) = 1 /\ q[1].kind = k
    <2>1. PICK t \in Thread : t = sp
        BY <1>2
    <2>2. LET q == <<Frame(k, t)>>
          IN  StackOK(t, q) /\ Len(q) = 1 /\ q[1] = Frame(k, t) /\ Frame(k, t).kind = k
        <3>1. t \in User /\ k \in {"irq3", "read", "quit"}
            BY <1>2, <2>1
        <3> QED
            BY <3>1, Entered, Zenon
    <2> QED
        BY <2>1, <2>2
<1>4. stk' = [stk EXCEPT ![sp] = q] /\ sp' = sp
    BY <1>1, <1>2, <1>3
<1>5. PICK f : f = q[Len(q)] /\ f.kind = k
    BY <1>3
<1>6. f.kind \notin Leaving /\ f.kind # "yield" /\ f.kind # "exit"
    BY <1>5 DEF Leaving
<1>7. Len(q) > 0
    BY <1>3
<1> QED
    BY <1>1, <1>2, <1>3, <1>4, <1>5, <1>6, <1>7, OwnStep, Zenon

LEMMA OneMore ==
    ASSUME NEW q \in Seq(Frames), NEW f \in Frames
    PROVE  q \o <<f>> = Append(q, f) /\ q \o << >> = q /\ Append(q, f) \in Seq(Frames)
OBVIOUS

\* interrupt_dispatch() on top of q: its own frame and, outside the compose barrier, the
\* one of thread_yield().
LEMMA Interrupted ==
    ASSUME NEW s \in Thread, NEW q \in Seq(Frames), StackOK(s, q), Len(q) > 0,
           q[Len(q)].kind \notin Leaving
    PROVE  LET y == [Frame("yield", s) EXCEPT !.at = "start"]
           IN  /\ StackOK(s, Append(q, y)) /\ Len(Append(q, y)) > 0
               /\ Append(q, y)[Len(Append(q, y))] = y /\ Append(q, y) = q \o <<y>>
               /\ y.kind = "yield" /\ y.at = "start"
<1> DEFINE y == [Frame("yield", s) EXCEPT !.at = "start"]
<1>1. y \in Frames /\ y.kind = "yield" /\ y.thr = s /\ y.at = "start"
    <2>1. "yield" \in BaseKinds \cup Leaving \cup {"irq"}
        BY DEF Leaving
    <2> QED
        BY <2>1, NewFrame
<1> HIDE DEF y
<1>2. PICK f \in Frames : f = y
    BY <1>1
<1>3. f.thr = s /\ f.kind \in Leaving \cup {"irq"} /\ (f.kind = "exit" => s # Idle)
    BY <1>1, <1>2 DEF Leaving
<1>4. StackOK(s, Append(q, f)) /\ Len(Append(q, f)) = Len(q) + 1 /\ Append(q, f)[Len(q) + 1] = f
    BY <1>3, PushOK, ZenonT(30)
<1>5. Append(q, f) = q \o <<f>>
    BY OneMore
<1>6. Len(Append(q, f)) > 0
    BY <1>4
<1> QED
    BY <1>1, <1>2, <1>4, <1>5, <1>6, Zenon DEF y

\* Where the timer hits the kernel, when it does not hit between two steps of a switch.
LEMMA Undisturbed ==
    ASSUME SInv, ring3 = None, ~MidSwitch
    PROVE  /\ Top.kind \in Leaving => Resting(Top)
           /\ current = sp /\ sp \in Live /\ ~HandsOver
<1>1. /\ Top.kind \notin Leaving => current = sp /\ sp \in Live
      /\ Top.kind = "yield" => Yielding(Top)
      /\ Top.kind = "exit" => Leave(Top)
    BY DEF SInv, Running
<1>2. CASE Top.kind = "yield"
    BY <1>1, <1>2 DEF MidSwitch, Yielding, Resting, HandsOver
<1>3. CASE Top.kind = "exit"
    BY <1>1, <1>3 DEF MidSwitch, Leave, Resting, HandsOver
<1>4. CASE Top.kind \notin Leaving
    BY <1>1, <1>4 DEF HandsOver, Leaving
<1> QED
    BY <1>2, <1>3, <1>4 DEF Leaving

\* The interrupt's own frame, and the stack it makes.
LEMMA IrqStack ==
    ASSUME SInv, MayInterrupt, ~MidSwitch
    PROVE  \E p \in Seq(Frames) :
               /\ StackOK(sp, p) /\ Len(p) > 0 /\ p[Len(p)].kind \notin Leaving
               /\ ring3 # None => p = <<Frame("irq3", sp)>>
               /\ ring3 = None => p = stk[sp] \o <<Frame("irq", sp)>> /\ Top.thr = sp
<1>1. CASE ring3 # None
    <2>1. PICK t \in Thread : t = sp /\ t \in User
        BY <1>1, InRing3
    <2>2. LET q == <<Frame("irq3", t)>>
          IN  /\ StackOK(t, q) /\ q \in Seq(Frames) /\ Len(q) = 1 /\ q[1] = Frame("irq3", t)
              /\ Frame("irq3", t).kind = "irq3"
        <3>1. t \in User /\ "irq3" \in {"irq3", "read", "quit"}
            BY <2>1
        <3> QED
            BY <3>1, Entered, Zenon
    <2>3. PICK p \in Seq(Frames) : p = <<Frame("irq3", t)>>
        BY <2>2, Zenon
    <2>4. Len(p) > 0 /\ p[Len(p)].kind \notin Leaving
        BY <2>2, <2>3 DEF Leaving
    <2> QED
        BY <1>1, <2>1, <2>2, <2>3, <2>4, Zenon
<1>2. CASE ring3 = None
    <2>1. InKernel
        BY <1>2 DEF SInv, Running, InKernel, Depth, MayInterrupt
    <2>2. Top.kind \in Leaving => Resting(Top)
        BY <1>2, Undisturbed
    <2>3. PICK t \in Thread, q \in Seq(Frames) : t = sp /\ q = stk[sp]
        BY DEF SInv, Types
    <2>4. /\ StackOK(t, q) /\ Len(q) > 0 /\ Top.thr = t
          /\ q[Len(q)].kind \in Leaving => Resting(q[Len(q)])
        BY <2>1, <2>2, <2>3, Here
    <2>5. PICK f \in Frames : f = Frame("irq", t) /\ f.kind = "irq" /\ f.thr = t
        <3>1. "irq" \in BaseKinds \cup Leaving \cup {"irq"}
            OBVIOUS
        <3>2. Frame("irq", t) \in Frames /\ Frame("irq", t).kind = "irq" /\ Frame("irq", t).thr = t
            BY <3>1, NewFrame, Zenon
        <3> QED
            BY <3>2
    <2>6. f.kind \in Leaving \cup {"irq"} /\ (f.kind = "exit" => t # Idle)
        BY <2>5
    <2>7. StackOK(t, Append(q, f)) /\ Len(Append(q, f)) = Len(q) + 1 /\ Append(q, f)[Len(q) + 1] = f
        BY <2>4, <2>5, <2>6, PushOK, Zenon
    <2>8. PICK p \in Seq(Frames) : p = Append(q, f) /\ p = q \o <<f>>
        BY OneMore, Zenon
    <2>9. Len(p) > 0 /\ p[Len(p)] = f
        BY <2>7, <2>8
    <2>10. f.kind \notin Leaving
        BY <2>5 DEF Leaving
    <2> QED
        BY <1>2, <2>3, <2>4, <2>5, <2>7, <2>8, <2>9, <2>10, Zenon
<1> QED
    BY <1>1, <1>2

LEMMA TimerIrqKeeps == ASSUME SInv, ~torn', TimerIrq PROVE SInv'
<1> DEFINE y == [Frame("yield", sp) EXCEPT !.at = "start"]
<1>1. /\ MayInterrupt /\ ~MidSwitch /\ ring3' = None /\ intr' = FALSE
      /\ UNCHANGED <<current, next, rsp, tss, sysrsp, spawned, exited, wild>>
    BY Zenon DEF TimerIrq
<1>2. PICK p \in Seq(Frames) :
               /\ StackOK(sp, p) /\ Len(p) > 0 /\ p[Len(p)].kind \notin Leaving
               /\ ring3 # None => p = <<Frame("irq3", sp)>>
               /\ ring3 = None => p = stk[sp] \o <<Frame("irq", sp)>> /\ Top.thr = sp
    BY <1>1, IrqStack, Zenon
<1>3. ring3 # None => ring3 = sp /\ tss = sp
    BY InRing3
<1>4. /\ sp' = sp
      /\ active => stk' = [stk EXCEPT ![sp] = p \o << >>]
      /\ ~active => stk' = [stk EXCEPT ![sp] = p \o <<y>>]
    <2>1. CASE ring3 # None
        BY <1>2, <1>3, <2>1 DEF TimerIrq
    <2>2. CASE ring3 = None
        BY <1>2, <2>2, Zenon DEF TimerIrq
    <2> QED
        BY <2>1, <2>2, Zenon
<1>5. /\ spawned = Len(Order) /\ current = sp /\ sp \in Live /\ sp \in Thread
      /\ sp \in User => tss = sp /\ sysrsp = sp
    <2>1. spawned = Len(Order) /\ sp \in Thread
        BY <1>1, Booted, Zenon DEF MayInterrupt, SInv, Types
    <2>2. CASE ring3 # None
        BY <2>1, <2>2, InRing3
    <2>3. CASE ring3 = None
        <3>1. current = sp /\ sp \in Live /\ ~HandsOver
            BY <1>1, <2>3, Undisturbed
        <3> QED
            BY <2>1, <3>1 DEF SInv, EntryStacks
    <2> QED
        BY <2>2, <2>3
<1>6. Live' = Live /\ Types
    BY <1>1 DEF Live, SInv
<1> HIDE DEF y
<1>7. CASE active
    <2>1. p \o << >> = p
        BY <1>2
    <2>2. PICK f : f = p[Len(p)]
        OBVIOUS
    <2>3. f.kind \notin Leaving /\ f.kind # "yield" /\ f.kind # "exit"
        BY <1>2, <2>2 DEF Leaving
    <2> QED
        BY <1>1, <1>2, <1>4, <1>5, <1>6, <1>7, <2>1, <2>2, <2>3, OwnStep, Zenon DEF Types
<1>8. CASE ~active
    <2>1. PICK q : /\ StackOK(sp, q) /\ Len(q) > 0 /\ q[Len(q)] = y /\ q = p \o <<y>>
                   /\ y.kind = "yield" /\ y.at = "start"
        <3>1. PICK s \in Thread : s = sp
            BY <1>5
        <3>2. StackOK(s, p) /\ Len(p) > 0 /\ p[Len(p)].kind \notin Leaving
            BY <1>2, <3>1
        <3>3. LET z == [Frame("yield", s) EXCEPT !.at = "start"]
              IN  /\ StackOK(s, Append(p, z)) /\ Len(Append(p, z)) > 0
                  /\ Append(p, z)[Len(Append(p, z))] = z /\ Append(p, z) = p \o <<z>>
                  /\ z.kind = "yield" /\ z.at = "start"
            BY <3>2, Interrupted, Zenon
        <3> QED
            BY <3>1, <3>3, Zenon DEF y
    <2>2. PICK f : f = y
        OBVIOUS
    <2>3. Yielding(f)'
        BY <1>1, <1>4, <1>5, <1>6, <2>1, <2>2 DEF Yielding
    <2>4. f.kind \in Leaving /\ f.kind = "yield" /\ f.at = "start"
        BY <2>1, <2>2 DEF Leaving
    <2> QED
        BY <1>1, <1>4, <1>5, <1>6, <1>8, <2>1, <2>2, <2>3, <2>4, OwnStep, Zenon DEF Types
<1> QED
    BY <1>7, <1>8

-----------------------------------------------------------------------------
(* All steps. *)

LEMMA QuietKeeps ==
    ASSUME SInv, IdleLoop \/ EnterBarrier \/ LeaveBarrier \/ KeyIrq \/ KeyPress \/ UNCHANGED vars
    PROVE  SInv'
<1>1. intr \in BOOLEAN
    BY DEF SInv, Types
<1>2. CASE IdleLoop
    BY <1>2, Same DEF IdleLoop
<1>3. CASE EnterBarrier \/ LeaveBarrier \/ KeyIrq \/ KeyPress \/ UNCHANGED vars
    BY <1>1, <1>3, Same DEF EnterBarrier, LeaveBarrier, KeyIrq, KeyPress, vars
<1> QED
    BY <1>2, <1>3

LEMMA YieldReadCases == ASSUME SInv, YieldRead PROVE SInv'
BY YieldReadKeeps, PopsKeep

LEMMA IrqReturnCases == ASSUME SInv, IrqReturn PROVE SInv'
BY ToUserKeeps, PopsKeep

\* The invariant is inductive: one step per action.
LEMMA SInvStep == ASSUME SInv, ~torn', UserLast, [Next]_vars PROVE SInv'
<1>1. CASE KernelStep
    <2>1. CASE Create
        BY <2>1, CreateKeeps
    <2>2. CASE IdleLoop
        BY <2>2, QuietKeeps
    <2>3. CASE StartKernel
        BY <2>3, StartKernelKeeps
    <2>4. CASE StartUser \/ SysReadDone
        BY <2>4, ToUserKeeps
    <2>5. CASE YieldRead
        BY <2>5, YieldReadCases
    <2>6. CASE YieldTss
        BY <2>6, YieldTssKeeps
    <2>7. CASE SetCurrent
        BY <2>7, SetCurrentKeeps
    <2>8. CASE LoadRsp
        BY <2>8, LoadRspKeeps
    <2>9. CASE Switch
        BY <2>9, SwitchKeeps
    <2>10. CASE YieldReturn
        BY <2>10, PopsKeep
    <2>11. CASE ExitWalk
        BY <2>11, ExitWalkKeeps
    <2>12. CASE ExitUnlink
        BY <2>12, ExitUnlinkKeeps
    <2>13. CASE IrqReturn
        BY <2>13, IrqReturnCases
    <2>14. CASE SysReadPoll \/ SysExit
        BY <2>14, SysPushKeeps
    <2> QED
        BY <1>1, <2>1, <2>2, <2>3, <2>4, <2>5, <2>6, <2>7, <2>8, <2>9, <2>10, <2>11, <2>12, <2>13, <2>14
           DEF KernelStep
<1>2. CASE BodyYield \/ BodyReturn
    BY <1>2, BodyKeeps
<1>3. CASE EnterBarrier \/ LeaveBarrier \/ KeyIrq \/ KeyPress \/ UNCHANGED vars
    BY <1>3, QuietKeeps
<1>4. CASE TimerIrq
    BY <1>4, TimerIrqKeeps, Zenon
<1>5. CASE \E k \in {"read", "quit"} : SysEnter(k)
    BY <1>5, SysEnterKeeps
<1> QED
    BY <1>1, <1>2, <1>3, <1>4, <1>5 DEF Next

LEMMA SInvInitially == ASSUME Init PROVE SInv
<1>1. Idle \in Thread /\ Len(Order) \in Nat
    BY ThreadAssumption DEF Thread
<1>2. PICK f \in Frames : f = Frame("body", Idle) /\ f.kind = "body" /\ f.thr = Idle
    <2>1. "body" \in BaseKinds \cup Leaving \cup {"irq"}
        BY DEF BaseKinds
    <2>2. Frame("body", Idle) \in Frames /\ Frame("body", Idle).kind = "body" /\ Frame("body", Idle).thr = Idle
        BY <1>1, <2>1, NewFrame, Zenon
    <2> QED
        BY <2>2
<1>3. <<f>> \in Seq(Frames) /\ Len(<<f>>) = 1 /\ <<f>>[1] = f /\ << >> \in Seq(Frames) /\ Len(<< >>) = 0
    OBVIOUS
<1>4. /\ stk \in [Thread -> Seq(Frames)] /\ stk[Idle] = <<f>>
      /\ \A t \in Thread : t # Idle => stk[t] = << >>
    BY <1>1, <1>2, <1>3 DEF Init
<1>5. Types
    <2>1. next \in [Thread -> Thread \cup {None}]
        BY <1>1 DEF Init
    <2>2. rsp \in [Thread -> Saved \cup {None}]
        BY DEF Init
    <2>3. spawned \in 0 .. Len(Order) /\ exited \in SUBSET Thread /\ Idle \notin exited
        BY <1>1 DEF Init
    <2>4. /\ current \in Thread /\ sp \in Thread /\ ring3 = None /\ tss = None /\ sysrsp = None
          /\ intr \in BOOLEAN /\ wild = FALSE
        BY <1>1, Zenon DEF Init
    <2> QED
        BY <1>4, <2>1, <2>2, <2>3, <2>4 DEF Types
<1>6. Stacks
    <2>1. FrameOK(Idle, f, 1, 1)
        BY <1>2, ThreadAssumption DEF FrameOK, BaseKinds, Leaving
    <2>2. StackOK(Idle, stk[Idle])
        BY <1>3, <1>4, <2>1 DEF StackOK
    <2>3. \A t \in Thread : t # Idle => StackOK(t, stk[t])
        BY <1>3, <1>4 DEF StackOK
    <2> QED
        BY <2>2, <2>3 DEF Stacks
<1>7. Live = {Idle}
    BY <1>1 DEF Init, Live
<1>8. OthersWait
    BY <1>7 DEF OthersWait, Init
<1>9. Top = f /\ Len(stk[sp]) > 0
    <2>1. sp = Idle /\ Len(stk[Idle]) = 1 /\ stk[Idle][1] = f
        BY <1>3, <1>4, Zenon DEF Init
    <2> QED
        BY <2>1 DEF Top, Depth
<1>10. Running
    BY <1>2, <1>7, <1>9 DEF Running, Init
<1>11. EntryStacks
    BY ThreadAssumption DEF EntryStacks, Init
<1>12. Boot
    BY <1>2, <1>3, <1>4, Zenon DEF Boot, Init
<1>13. Ring
    <2>1. next[Idle] = Idle /\ Idle \notin User
        BY <1>1, ThreadAssumption DEF Init
    <2> QED
        BY <1>7, <2>1 DEF Ring, RingOn
<1> QED
    BY <1>5, <1>6, <1>8, <1>10, <1>11, <1>12, <1>13 DEF SInv

\* Every thread but the running one has an intact context of its own.
LEMMA ApartFromWaits == ASSUME SInv PROVE SavedContextsApart
<1> SUFFICES ASSUME ring3 # None \/ Top.kind = "body", NEW t \in Live, t # current
             PROVE  /\ Intact(rsp[t]) /\ SavedTop(t).thr = t /\ rsp[t].s = t
    BY DEF SavedContextsApart
<1>1. current = sp
    BY DEF SInv, Running, Leaving
<1>2. Waits(t) /\ t \in Thread /\ StackOK(t, stk[t]) /\ Types
    BY <1>1 DEF SInv, OthersWait, Live, Stacks
<1>3. PICK n \in Nat : n = Len(stk[t]) /\ n > 0
    BY <1>2 DEF Waits, StackOK
<1>4. rsp[t] = [s |-> t, d |-> n] /\ rsp[t] # None
    <2>1. rsp[t] = [s |-> t, d |-> n]
        BY <1>2, <1>3 DEF Waits
    <2>2. [s |-> t, d |-> n] \in [s : Thread, d : Nat]
        BY <1>2
    <2> QED
        BY <2>1, <2>2, ThreadAssumption
<1>5. Intact(rsp[t])
    BY <1>3, <1>4 DEF Intact, Depth
<1>6. stk[t][n].thr = t
    BY <1>2, <1>3 DEF StackOK, FrameOK
<1> QED
    BY <1>4, <1>5, <1>6 DEF SavedTop

LEMMA SInvImplies == ASSUME ~torn => SInv
    PROVE  ResumesSavedContext /\ RunQueueIsRing /\ SavedContextsApart /\ EntryStackIsOwn
<1>1. ResumesSavedContext
    BY Zenon DEF SInv, Types, ResumesSavedContext
<1>2. RunQueueIsRing
    BY Zenon DEF SInv, Ring, RingOn, RunQueueIsRing
<1>3. EntryStackIsOwn
    BY InRing3 DEF EntryStackIsOwn
<1>4. SavedContextsApart
    <2>1. CASE torn
        BY <2>1, Zenon DEF SavedContextsApart
    <2>2. CASE ~torn
        BY <2>2, ApartFromWaits
    <2> QED
        BY <2>1, <2>2
<1> QED
    BY <1>1, <1>2, <1>3, <1>4

\* A torn switch stays on record.
LEMMA TornStays == ASSUME [Next]_vars, torn PROVE torn'
<1>1. CASE TimerIrq
    BY <1>1, Zenon DEF TimerIrq
<1>2. CASE KernelStep
    BY <1>2, Zenon DEF KernelStep, Create, IdleLoop, StartKernel, StartUser, YieldRead, YieldTss,
        SetCurrent, LoadRsp, Switch, YieldReturn, ExitWalk, ExitUnlink, IrqReturn, SysReadPoll,
        SysReadDone, SysExit
<1>3. CASE BodyYield \/ BodyReturn \/ EnterBarrier \/ LeaveBarrier
    BY <1>3, Zenon DEF BodyYield, BodyReturn, EnterBarrier, LeaveBarrier
<1>4. CASE KeyIrq \/ KeyPress \/ UNCHANGED vars
    BY <1>4, Zenon DEF KeyIrq, KeyPress, vars
<1>5. CASE \E k \in {"read", "quit"} : SysEnter(k)
    BY <1>5, Zenon DEF SysEnter
<1> QED
    BY <1>1, <1>2, <1>3, <1>4, <1>5 DEF Next

\* The invariant holds up to the first timer IRQ between two steps of a switch.
LEMMA SInvAlways == ASSUME UserLast PROVE Spec => [](~torn => SInv)
<1>1. Init => (~torn => SInv)
    BY SInvInitially
<1>2. (~torn => SInv) /\ [Next]_vars => (~torn => SInv)'
    BY SInvStep, TornStays, Zenon
<1> QED
    BY <1>1, <1>2, PTL DEF Spec

\* For any number of threads, whatever they do and wherever the timer hits: the CPU runs
\* wild only after an IRQ between two steps of a switch; up to then every switch resumes
\* the context its thread saved (thread_yield, thread_exit, switch_context).
THEOREM SwitchResumes == ASSUME UserLast PROVE Spec => []ResumesSavedContext
<1>1. (~torn => SInv) => ResumesSavedContext
    BY SInvImplies
<1> QED
    BY <1>1, SInvAlways, PTL

\* Up to such an IRQ, creation and exit in any order leave one cycle through the live
\* threads (insert_queue, thread_exit).
THEOREM QueueStaysRing == ASSUME UserLast PROVE Spec => []RunQueueIsRing
<1>1. (~torn => SInv) => RunQueueIsRing
    BY SInvImplies
<1> QED
    BY <1>1, SInvAlways, PTL

\* Up to such an IRQ, every thread that does not run has a whole context on a stack of its
\* own (thread_yield, switch_context).
THEOREM ContextsStayApart == ASSUME UserLast PROVE Spec => []SavedContextsApart
<1>1. (~torn => SInv) => SavedContextsApart
    BY SInvImplies
<1> QED
    BY <1>1, SInvAlways, PTL

\* Up to such an IRQ, a kernel entry from ring 3 lands on the stack of the thread that
\* makes it (thread_yield's update of TSS.rsp0 and syscall_kernel_rsp).
THEOREM EntriesOnOwnStack == ASSUME UserLast PROVE Spec => []EntryStackIsOwn
<1>1. (~torn => SInv) => EntryStackIsOwn
    BY SInvImplies
<1> QED
    BY <1>1, SInvAlways, PTL
=============================================================================
