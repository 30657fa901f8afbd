------------------------------ MODULE Scheduler ------------------------------
(***************************************************************************)
(* The thread scheduler of the BSP (sched/thread.c, switch.S): the         *)
(* circular run queue, cooperative thread_yield(), preemption by the timer *)
(* IRQ (exception.c), thread_exit(), and what they share with the rest of  *)
(* the kernel: the interrupt flag, TSS.rsp0 and syscall_kernel_rsp, the    *)
(* kernel entries from ring 3 (syscall_entry.S), the blocking read of      *)
(* stdin (syscall.c) and the boot order of kmain().                        *)
(*                                                                         *)
(* A kernel stack is the sequence of the activations on it, oldest first;  *)
(* the CPU executes the last activation of the stack it is on, or ring-3   *)
(* code.  A saved rsp is a stack and a depth.  switch_context() never      *)
(* touches the interrupt flag, so a switch hands it on to the next thread. *)
(***************************************************************************)
EXTENDS Sequences, Naturals

CONSTANTS Idle,         \* the bootstrap thread ("bsp-idle")
          Kernel,       \* kernel threads
          User,         \* ring-3 threads
          Order,        \* the order in which kmain() creates them
          Exiting,      \* kernel threads whose body may return
          None

Thread == {Idle} \cup Kernel \cup User

ASSUME ThreadAssumption ==
    /\ Idle \notin Kernel \cup User /\ Kernel \cap User = {}
    /\ None \notin Thread /\ None \notin [s : Thread, d : Nat]
    /\ Exiting \subseteq Kernel
    /\ Order \in Seq(Kernel \cup User)
    /\ \A t \in Kernel \cup User : \E i \in DOMAIN Order : Order[i] = t
    /\ \A i, j \in DOMAIN Order : Order[i] = Order[j] => i = j

VARIABLES
    current,   \* the running thread, as the scheduler believes
    next,      \* run-queue links
    rsp,       \* saved stack pointers
    tss,       \* the stack TSS.rsp0 points to
    sysrsp,    \* the stack syscall_kernel_rsp points to
    stk,       \* the activations on each kernel stack
    sp,        \* the stack the CPU is on
    ring3,     \* the thread whose ring-3 code the CPU executes, or None
    intr,      \* the interrupt flag
    active,    \* parallel_compose_active()
    spawned,   \* threads created so far by kmain()
    exited,    \* threads past thread_exit()'s unlink
    keyWaits,  \* the keyboard controller holds a byte and its IRQ is pending
    stdin,     \* the stdin ring has data
    torn,      \* history: a timer IRQ has hit between two steps of a switch
    wild       \* the CPU resumed a context that is not the saved one

vars == <<current, next, rsp, tss, sysrsp, stk, sp, ring3, intr, active,
          spawned, exited, keyWaits, stdin, torn, wild>>
io == <<keyWaits, stdin>>

Frame(kind, t) == [kind |-> kind, thr |-> t, at |-> "run", prev |-> None,
                   next |-> None, arg |-> None]
Depth(s) == Len(stk[s])
Top == stk[sp][Depth(sp)]
InKernel == ring3 = None /\ Depth(sp) > 0 /\ ~wild
Push(f) == stk' = [stk EXCEPT ![sp] = Append(@, f)]
Pop == stk' = [stk EXCEPT ![sp] = SubSeq(@, 1, Len(@) - 1)]
SetTop(f) == stk' = [stk EXCEPT ![sp][Depth(sp)] = f]

\* A saved stack pointer is good while nothing was pushed or popped since.
Intact(c) == c # None /\ c.d > 0 /\ c.d = Depth(c.s)
Live == {t \in Thread : (t = Idle \/ \E i \in 1 .. spawned : Order[i] = t)
                        /\ t \notin exited}

\* sched_init() has run; kmain() still has interrupts off.
Init ==
    /\ current = Idle
    /\ next = [t \in Thread |-> IF t = Idle THEN Idle ELSE None]
    /\ rsp = [t \in Thread |-> None]
    /\ tss = None /\ sysrsp = None
    /\ stk = [t \in Thread |-> IF t = Idle THEN <<Frame("body", Idle)>> ELSE << >>]
    /\ sp = Idle /\ ring3 = None /\ intr = FALSE /\ active = FALSE
    /\ spawned = 0 /\ exited = {}
    /\ keyWaits = FALSE /\ stdin = FALSE /\ torn = FALSE /\ wild = FALSE

-----------------------------------------------------------------------------
(* Boot and thread bodies. *)

\* Variant that links the new thread only to itself.
LinkAlone(t) == [next EXCEPT ![t] = t]

\* insert_queue(t): right behind the current thread.
LinkAfterCurrent(t) == [next EXCEPT ![t] = next[current], ![current] = t]

\* thread_create() / thread_create_user(): allocate, seed the stack, link.
Create ==
    /\ InKernel /\ current = Idle /\ spawned < Len(Order)
    /\ LET t == Order[spawned + 1] IN
       /\ stk' = [stk EXCEPT ![t] = <<Frame("seed", t)>>]
       /\ rsp' = [rsp EXCEPT ![t] = [s |-> t, d |-> 1]]
       /\ next' = LinkAfterCurrent(t)
    /\ spawned' = spawned + 1
    /\ UNCHANGED <<current, tss, sysrsp, sp, ring3, intr, active, exited, io, torn, wild>>

\* idle(): sti; hlt.
IdleLoop ==
    /\ InKernel /\ Top.kind = "body" /\ Top.thr = Idle /\ spawned = Len(Order)
    /\ ~intr
    /\ intr' = TRUE
    /\ UNCHANGED <<current, next, rsp, tss, sysrsp, stk, sp, ring3, active,
                   spawned, exited, io, torn, wild>>

\* thread_trampoline(): sti, then the body.
StartKernel ==
    /\ InKernel /\ Top.kind = "seed" /\ Top.thr \in Kernel
    /\ intr' = TRUE
    /\ SetTop(Frame("body", Top.thr))
    /\ UNCHANGED <<current, next, rsp, tss, sysrsp, sp, ring3, active, spawned,
                   exited, io, torn, wild>>

\* user_trampoline(): TSS.rsp0, then iretq to ring 3 with IF set.
StartUser ==
    /\ InKernel /\ Top.kind = "seed" /\ Top.thr \in User
    /\ tss' = current
    /\ Pop
    /\ ring3' = current
    /\ intr' = TRUE
    /\ UNCHANGED <<current, next, rsp, sysrsp, sp, active, spawned, exited, io, torn, wild>>

\* A kernel thread calls thread_yield(), outside the compose barrier.
BodyYield ==
    /\ InKernel /\ Top.kind = "body" /\ Top.thr \in Kernel /\ ~active
    /\ Push([Frame("yield", Top.thr) EXCEPT !.at = "start"])
    /\ UNCHANGED <<current, next, rsp, tss, sysrsp, sp, ring3, intr, active,
                   spawned, exited, io, torn, wild>>

\* A kernel thread's body returns: thread_exit().
BodyReturn ==
    /\ InKernel /\ Top.kind = "body" /\ Top.thr \in Exiting /\ ~active
    /\ Push([Frame("exit", Top.thr) EXCEPT !.at = "start"])
    /\ UNCHANGED <<current, next, rsp, tss, sysrsp, sp, ring3, intr, active,
                   spawned, exited, io, torn, wild>>

\* The compositor enters and leaves the compose barrier.
EnterBarrier ==
    /\ InKernel /\ Top.kind = "body" /\ Top.thr \in Kernel \ Exiting /\ ~active
    /\ active' = TRUE
    /\ UNCHANGED <<current, next, rsp, tss, sysrsp, stk, sp, ring3, intr,
                   spawned, exited, io, torn, wild>>

LeaveBarrier ==
    /\ InKernel /\ Top.kind = "body" /\ Top.thr \in Kernel \ Exiting /\ active
    /\ active' = FALSE
    /\ UNCHANGED <<current, next, rsp, tss, sysrsp, stk, sp, ring3, intr,
                   spawned, exited, io, torn, wild>>

-----------------------------------------------------------------------------
(* thread_yield(), one shared access per step. *)

\* prev = current; a ring of one returns.
YieldRead ==
    /\ InKernel /\ Top.kind = "yield" /\ Top.at = "start"
    /\ IF next[current] = current
       THEN Pop
       ELSE SetTop([Top EXCEPT !.at = "tss", !.prev = current, !.next = next[current]])
    /\ UNCHANGED <<current, next, rsp, tss, sysrsp, sp, ring3, intr, active,
                   spawned, exited, io, torn, wild>>

\* Variant that leaves the ring-3 entry stacks alone.
EntryStackKept(t) == FALSE

\* The bootstrap thread has no kernel_stack_top.
HasEntryStack(t) == t # Idle

\* TSS.rsp0 and syscall_kernel_rsp.
YieldTss ==
    /\ InKernel /\ Top.kind = "yield" /\ Top.at = "tss"
    /\ tss' = IF HasEntryStack(Top.next) THEN Top.next ELSE tss
    /\ sysrsp' = IF HasEntryStack(Top.next) THEN Top.next ELSE sysrsp
    /\ SetTop([Top EXCEPT !.at = "current"])
    /\ UNCHANGED <<current, next, rsp, sp, ring3, intr, active, spawned, exited,
                   io, torn, wild>>

\* current = next (thread_exit() has the same step).
SetCurrent ==
    /\ InKernel /\ Top.kind \in {"yield", "exit"} /\ Top.at = "current"
    /\ current' = Top.next
    /\ SetTop([Top EXCEPT !.at = "load"])
    /\ UNCHANGED <<next, rsp, tss, sysrsp, sp, ring3, intr, active, spawned,
                   exited, io, torn, wild>>

\* The argument next->rsp.
LoadRsp ==
    /\ InKernel /\ Top.kind \in {"yield", "exit"} /\ Top.at = "load"
    /\ SetTop([Top EXCEPT !.at = "switch", !.arg = rsp[Top.next]])
    /\ UNCHANGED <<current, next, rsp, tss, sysrsp, sp, ring3, intr, active,
                   spawned, exited, io, torn, wild>>

\* Variant that saves through current, which is the next thread by now.
SaveInCurrent == current

SaveIn == Top.prev

\* switch_context(): thread_yield() saves rsp in prev, thread_exit() in a local;
\* then the CPU is on the other stack.
Switch ==
    /\ InKernel /\ Top.kind \in {"yield", "exit"} /\ Top.at = "switch"
    /\ rsp' = IF Top.kind = "yield"
              THEN [rsp EXCEPT ![SaveIn] = [s |-> sp, d |-> Depth(sp)]]
              ELSE rsp
    /\ SetTop([Top EXCEPT !.at = "return", !.prev = None, !.next = None, !.arg = None])
    /\ IF Intact(Top.arg) /\ Top.arg.s # sp
       THEN sp' = Top.arg.s /\ UNCHANGED wild
       ELSE wild' = TRUE /\ UNCHANGED sp
    /\ UNCHANGED <<current, next, tss, sysrsp, ring3, intr, active, spawned,
                   exited, io, torn>>

\* The thread is resumed: switch_context() and thread_yield() return.
YieldReturn ==
    /\ InKernel /\ Top.kind = "yield" /\ Top.at = "return"
    /\ Pop
    /\ UNCHANGED <<current, next, rsp, tss, sysrsp, sp, ring3, intr, active,
                   spawned, exited, io, torn, wild>>

-----------------------------------------------------------------------------
(* thread_exit(): me = current and the walk to its predecessor, the unlink,  *)
(* then SetCurrent, LoadRsp and Switch.                                      *)

\* The walk goes round the ring; a thread that has exited keeps its link but is not met.
Predecessor == CHOOSE t \in Live : next[t] = current

ExitWalk ==
    /\ InKernel /\ Top.kind = "exit" /\ Top.at = "start"
    /\ SetTop([Top EXCEPT !.at = "unlink", !.next = current, !.prev = Predecessor])
    /\ UNCHANGED <<current, next, rsp, tss, sysrsp, sp, ring3, intr, active,
                   spawned, exited, io, torn, wild>>

\* Variant that forgets to relink the predecessor.
NotUnlinked(prev, me) == next

Unlinked(prev, me) == [next EXCEPT ![prev] = next[me]]

ExitUnlink ==
    /\ InKernel /\ Top.kind = "exit" /\ Top.at = "unlink"
    /\ next' = Unlinked(Top.prev, Top.next)
    /\ exited' = exited \cup {Top.next}
    /\ SetTop([Top EXCEPT !.at = "current", !.next = next[Top.next], !.prev = None])
    /\ UNCHANGED <<current, rsp, tss, sysrsp, sp, ring3, intr, active, spawned,
                   io, torn, wild>>

-----------------------------------------------------------------------------
(* Interrupts and kernel entries from ring 3. *)

\* thread_yield() and thread_exit() leave the interrupt flag as they find it.
MayInterrupt == intr /\ ~wild

\* The CPU is past the first and before the last step of thread_yield() or thread_exit().
MidSwitch ==
    /\ ring3 = None /\ Top.kind \in {"yield", "exit"}
    /\ Top.at \notin {"start", "return"}

\* interrupt_dispatch() on the timer vector: from ring 3 the CPU starts at the
\* top of the stack in TSS.rsp0, from the kernel it stays on its stack.
TimerIrq ==
    /\ MayInterrupt
    /\ LET t == IF ring3 # None THEN ring3 ELSE Top.thr
           irq == Frame(IF ring3 # None THEN "irq3" ELSE "irq", t)
           yield == IF active THEN << >>
                    ELSE <<[Frame("yield", t) EXCEPT !.at = "start"]>>
       IN IF ring3 # None
          THEN stk' = [stk EXCEPT ![tss] = <<irq>> \o yield] /\ sp' = tss
          ELSE stk' = [stk EXCEPT ![sp] = @ \o <<irq>> \o yield] /\ sp' = sp
    /\ ring3' = None
    /\ intr' = FALSE
    /\ torn' = (torn \/ MidSwitch)
    /\ UNCHANGED <<current, next, rsp, tss, sysrsp, active, spawned, exited, io, wild>>

\* iretq from the handler: interrupts were on where it hit.
IrqReturn ==
    /\ InKernel /\ Top.kind \in {"irq", "irq3"}
    /\ intr' = TRUE
    /\ ring3' = IF Top.kind = "irq3" THEN Top.thr ELSE None
    /\ Pop
    /\ UNCHANGED <<current, next, rsp, tss, sysrsp, sp, active, spawned, exited,
                   io, torn, wild>>

\* The keyboard IRQ handler: runs with interrupts off and returns.
KeyIrq ==
    /\ MayInterrupt /\ keyWaits
    /\ keyWaits' = FALSE /\ stdin' = TRUE
    /\ UNCHANGED <<current, next, rsp, tss, sysrsp, stk, sp, ring3, intr, active,
                   spawned, exited, torn, wild>>

KeyPress ==
    /\ ~keyWaits /\ ~wild
    /\ keyWaits' = TRUE
    /\ UNCHANGED <<current, next, rsp, tss, sysrsp, stk, sp, ring3, intr, active,
                   spawned, exited, stdin, torn, wild>>

\* SYSCALL masks IF and enters on the stack in syscall_kernel_rsp; kind is
\* "read" (stdin) or "quit" (SYS_EXIT).
SysEnter(kind) ==
    /\ ring3 # None /\ ~wild
    /\ stk' = [stk EXCEPT ![sysrsp] = <<Frame(kind, ring3)>>]
    /\ sp' = sysrsp
    /\ ring3' = None
    /\ intr' = FALSE
    /\ UNCHANGED <<current, next, rsp, tss, sysrsp, active, spawned, exited, io, torn, wild>>

\* Variant that waits without letting another thread run.
SpinForStdin == UNCHANGED stk

YieldForStdin == Push([Frame("yield", Top.thr) EXCEPT !.at = "start"])

\* sys_read(0): yield until there is data, interrupts still off ...
SysReadPoll ==
    /\ InKernel /\ Top.kind = "read" /\ ~stdin
    /\ YieldForStdin
    /\ UNCHANGED <<current, next, rsp, tss, sysrsp, sp, ring3, intr, active,
                   spawned, exited, io, torn, wild>>

\* ... then drain it and return to ring 3 with the flags of the caller.
SysReadDone ==
    /\ InKernel /\ Top.kind = "read" /\ stdin
    /\ stdin' = FALSE
    /\ ring3' = Top.thr
    /\ intr' = TRUE
    /\ Pop
    /\ UNCHANGED <<current, next, rsp, tss, sysrsp, sp, active, spawned, exited,
                   keyWaits, torn, wild>>

\* sys_exit(): thread_exit() with interrupts off.
SysExit ==
    /\ InKernel /\ Top.kind = "quit"
    /\ Push([Frame("exit", Top.thr) EXCEPT !.at = "start"])
    /\ UNCHANGED <<current, next, rsp, tss, sysrsp, sp, ring3, intr, active,
                   spawned, exited, io, torn, wild>>

-----------------------------------------------------------------------------
\* Steps the CPU takes by itself, whatever the bodies do.
KernelStep ==
    \/ Create \/ IdleLoop \/ StartKernel \/ StartUser
    \/ YieldRead \/ YieldTss \/ SetCurrent \/ LoadRsp \/ Switch \/ YieldReturn
    \/ ExitWalk \/ ExitUnlink
    \/ IrqReturn \/ SysReadPoll \/ SysReadDone \/ SysExit

Next ==
    \/ KernelStep
    \/ BodyYield \/ BodyReturn \/ EnterBarrier \/ LeaveBarrier
    \/ TimerIrq \/ KeyIrq \/ KeyPress
    \/ \E kind \in {"read", "quit"} : SysEnter(kind)

Spec == Init /\ [][Next]_vars

\* The CPU executes; the timer keeps ticking, and a pending timer or keyboard
\* interrupt is held by the local APIC until it is accepted; a kernel thread executes some
\* instructions between two interrupts, so the compositor leaves its barrier
\* and comes back to the thread_yield() of its pacing loop.
Fairness ==
    /\ WF_vars(KernelStep)
    /\ SF_vars(TimerIrq)
    /\ SF_vars(KeyIrq)
    /\ SF_vars(BodyYield)
    /\ SF_vars(LeaveBarrier)

FairSpec == Spec /\ Fairness

-----------------------------------------------------------------------------
(* Properties. *)

\* The activation on top of a saved context.
SavedTop(t) == stk[rsp[t].s][rsp[t].d]

\* thread.h of thread_yield(): "Safe to call from inside a thread body [...] Also safe to
\* invoke from the timer IRQ handler": no switch ever resumes anything but a whole saved
\* context.  A timer IRQ between two steps of a switch refutes it.
YieldIsSafe == ~wild

\* The properties below hold up to the first such IRQ.

\* A switch resumes the context that the chosen thread saved, untouched since: without an
\* IRQ between two steps of a switch the CPU never runs wild (thread_yield, thread_exit).
ResumesSavedContext == wild => torn

\* The run queue is one cycle through exactly the live threads, whoever created
\* or unlinked a thread last (insert_queue, thread_exit).
RunQueueIsRing == ~torn =>
    /\ \A t \in Live : next[t] \in Live
    /\ \A t, u \in Live : next[t] = next[u] => t = u
    /\ \A S \in SUBSET Live : S \notin {{}, Live} => \E t \in S : next[t] \notin S

\* Every live thread that is not executing has an intact saved context, made of
\* its own activations, on a stack of its own (switch_context).
SavedContextsApart ==
    LET waiting == {t \in Live : t # current /\ rsp[t] # None}
    IN (~torn /\ ~wild /\ (ring3 # None \/ Top.kind = "body")) =>
       /\ \A t \in waiting : Intact(rsp[t]) /\ SavedTop(t).thr = t
       /\ \A t, u \in waiting : t # u => rsp[t].s # rsp[u].s

\* From ring 3, an interrupt and a system call both land on the current
\* thread's own kernel stack ("it always holds the current thread's kernel
\* top", syscall_entry.S).
EntryStackIsOwn == ~torn /\ ring3 # None => tss = ring3 /\ sysrsp = ring3

\* A thread inside sys_read(0), running, switched away or in its loop.
Reading(t) == \E i \in DOMAIN stk[t] : stk[t][i].kind = "read"

\* A key that is pressed while a thread waits in sys_read(0) ends the wait, although the
\* thread waits with interrupts off and the keyboard IRQ can only come in while another
\* thread runs (syscall.c: the loop of thread_yield()).
ReaderServed == \A t \in User : (keyWaits /\ Reading(t)) ~> (torn \/ ~Reading(t))

\* Round robin: every live thread is current again and again (thread_yield, TimerIrq).
EveryoneRuns == \A t \in Thread :
    []<>(torn \/ current = t \/ t \notin Live)

=============================================================================
