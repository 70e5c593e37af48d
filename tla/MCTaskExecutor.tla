--------------------------- MODULE MCTaskExecutor ---------------------------
(* TaskExecutor on instances TLC can enumerate. *)
EXTENDS TaskExecutor

=============================================================================
