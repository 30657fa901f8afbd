--------------------------- MODULE MCParallelCompose ---------------------------
(* Instances of ParallelCompose for TLC. *)
EXTENDS ParallelCompose

=============================================================================
