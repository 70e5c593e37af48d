-------------------------- MODULE MCTaskScheduler ---------------------------
(* TaskScheduler on instances TLC can enumerate. *)
EXTENDS TaskScheduler
=============================================================================
