----------------------------- MODULE TaskHistory -----------------------------
(***************************************************************************)
(* What the task store promises to everyone who reads it: each task has a  *)
(* history that only ever grows, by one event at a time, numbered 1, 2,    *)
(* 3, ... without a gap, and the status of the task is at every moment the *)
(* state carried by the last event of that history.  Nothing is said of    *)
(* who writes, of how many writers there are, or of crashes: TaskLog shows *)
(* that the code keeps the promise in spite of them.                       *)
(***************************************************************************)
EXTENDS TaskTypes, Sequences

CONSTANT Tasks      \* task identifiers

VARIABLES current,  \* the status a reader of the task sees, None before it exists
          history   \* the events a reader of the task sees, in order

historyVars == <<current, history>>

HistoryInit ==
  /\ current = [t \in Tasks |-> None]
  /\ history = [t \in Tasks |-> <<>>]

\* A task appears, in status created and with an empty history.
Create(t) ==
  /\ current[t] = None
  /\ current' = [current EXCEPT ![t] = "created"]
  /\ UNCHANGED history

\* One event is recorded: the history and the status change together.
Record(t, kind, state) ==
  /\ current[t] # None
  /\ history' = [history EXCEPT ![t] =
                   Append(@, [seq |-> Len(@) + 1, kind |-> kind, state |-> state])]
  /\ current' = [current EXCEPT ![t] = state]

HistoryNext ==
  \E t \in Tasks :
     \/ Create(t)
     \/ \E kind \in Kinds, state \in Statuses : Record(t, kind, state)

HistorySpec == HistoryInit /\ [][HistoryNext]_historyVars
=============================================================================
