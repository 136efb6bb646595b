------------------------------ MODULE TaskTypes ------------------------------
(***************************************************************************)
(* The task vocabulary of pkg/types/types.go that the other modules share. *)
(* Event sources, messages and payloads are left out: no property reads    *)
(* them.                                                                   *)
(***************************************************************************)
EXTENDS Naturals

\* Stands for a SQL row or column that does not exist and for a nil pointer.
None == "none"

Terminal == {"completed", "failed", "cancelled"}

\* TaskStatus
Statuses == {"created", "pending_launch", "launching", "ready", "dispatching",
             "running", "awaiting_input"} \cup Terminal

\* TaskEventKind.  artifact.created and runtime.health are declared in the
\* source and never emitted.
Kinds == {"task.created", "task.routed", "runtime.pending_launch",
          "runtime.launching", "runtime.ready", "task.dispatching",
          "task.running", "task.awaiting_input", "task.resume_requested",
          "task.resumed", "task.cancel_requested", "task.completed",
          "task.failed", "task.cancelled"}

\* The columns of a task_events row that the properties tell apart.
Event == [seq : Nat \ {0}, kind : Kinds, state : Statuses]
=============================================================================
