----------------------------- MODULE MCExecutor -----------------------------
(* Executor for TLC. *)
EXTENDS Executor

TwoWorkers == {0, 1}
=============================================================================
