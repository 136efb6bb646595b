--------------------------- MODULE MCEventStream ---------------------------
(***************************************************************************)
(* A small instance of EventStream for TLC.                                *)
(***************************************************************************)
EXTENDS EventStream

CONSTANT MaxSeq     \* bound: no event is inserted beyond this sequence number

MCInputs == {[kind |-> "task.running", state |-> "running", handle |-> "bound"],
             [kind |-> "task.completed", state |-> "completed", handle |-> None]}

Bounded == \A t \in Tasks : Len(log[t]) <= MaxSeq

MCSpec == StreamInit /\ [][StreamNext /\ Bounded']_streamVars

\* appendEvent runs on, and so do the handlers.  Clients need not arrive,
\* writers need not write.
MCFairSpec ==
  /\ MCSpec
  /\ \A w \in Writers : WF_streamVars(GoesOn(w) /\ Bounded' /\ UNCHANGED reader)
  /\ \A s \in Subscribers : WF_streamVars(ReaderStep(s))
=============================================================================
