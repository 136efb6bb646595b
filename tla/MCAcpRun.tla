------------------------------ MODULE MCAcpRun ------------------------------
(***************************************************************************)
(* Small instances of AcpRun for TLC.                                      *)
(***************************************************************************)
EXTENDS AcpRun, TLC

MCSymmetry == Permutations(Tasks)
=============================================================================
