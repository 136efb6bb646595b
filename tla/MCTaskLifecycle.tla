-------------------------- MODULE MCTaskLifecycle --------------------------
(***************************************************************************)
(* A small instance of TaskLifecycle for TLC.  As Inputs its own appends   *)
(* give TLC far fewer values to try than AppendArgs.                       *)
(***************************************************************************)
EXTENDS TaskLifecycle

MCInputs == LifecycleAppends
=============================================================================
