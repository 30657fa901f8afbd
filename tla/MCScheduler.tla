----------------------------- MODULE MCScheduler -----------------------------
(* Threads as kmain() creates them, in its order: a kernel thread that loops, like
   the compositor, and the ring-3 demo program.  A worker before them stands for
   kernel threads whose body returns, which thread_trampoline() provides for. *)
EXTENDS Scheduler

CONSTANTS idle, worker, compositor, demo

MCOrder == <<worker, compositor, demo>>

\* Nothing is claimed after an IRQ between two steps of a switch.
Untorn == ~torn

=============================================================================
