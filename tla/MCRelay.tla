------------------------------ MODULE MCRelay ------------------------------
(***************************************************************************)
(* A small instance of Relay for TLC.                                      *)
(***************************************************************************)
EXTENDS Relay

\* The destination may record more after an outcome: see MCTerminalIsFinal.
MCDestInputs == {[kind |-> "task.running", state |-> "running"],
                 [kind |-> "task.completed", state |-> "completed"]}
=============================================================================
