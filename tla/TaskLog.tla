------------------------------ MODULE TaskLog ------------------------------
(***************************************************************************)
(* The durable task log of one node: the tables tasks, task_events and     *)
(* thread_turns as appendEvent of internal/core/orchestrator.go drives     *)
(* them, and the in-process fan-out to live subscribers that ends it.      *)
(*                                                                         *)
(* appendEvent holds no lock.  It is four separate steps: read the largest *)
(* sequence number of the task; in one transaction insert the event and    *)
(* update the task row; update the thread turn; offer the event to every   *)
(* subscriber's channel.  The store has a single SQL connection, so each   *)
(* statement or transaction is atomic, and the four steps of different     *)
(* goroutines interleave freely.                                           *)
(*                                                                         *)
(* Here any writer may append anything at any time.  The modules that      *)
(* EXTEND this one say who appends what.                                   *)
(***************************************************************************)
EXTENDS TaskTypes, Sequences, FiniteSetsExt

CONSTANTS Tasks,        \* task identifiers
          Requests,     \* API requests; their context dies with the client
          Subscribers,  \* live event streams
          ChanCap,      \* capacity of a subscriber's channel (32 in the code)
          Inputs        \* the appends offered to the log (any, for the theorems)

\* The goroutine that runs task t is named by t itself.
Writers == Tasks \cup Requests

\* The remote handle an append carries and the binding column it leaves behind:
\* nil or NULL, a handle whose binding is the empty string, or the runtime's own.
Bindings == {None, "blank", "bound"}

AppendArgs == [kind : Kinds, state : Statuses, handle : Bindings]

ASSUME LogAssumption ==
  /\ None \notin Tasks
  /\ Tasks \cap Requests = {}
  /\ ChanCap \in Nat \ {0}
  /\ Inputs \subseteq AppendArgs

VARIABLES status,  \* tasks.status, None when there is no row
          remote,  \* tasks.remote_binding
          log,     \* task_events of each task, in the order of their commits
          turn,    \* thread_turns.status of the turn of a task, None without a turn
          call,    \* the appendEvent activation of each writer
          sub      \* the subscriber table and the channels in it

dbVars  == <<status, remote, log, turn>>
logVars == <<status, remote, log, turn, call, sub>>

Calling  == [step : {"insert", "turn", "publish"}, task : Tasks, event : Event,
             handle : Bindings]
Returned == [step : {"ok", "err"}]

Free == [task |-> None, chan |-> <<>>]

(***************************************************************************)
(* Everything has its type; a channel never exceeds its capacity.          *)
(***************************************************************************)
TypeOK ==
  /\ status \in [Tasks -> Statuses \cup {None}]
  /\ remote \in [Tasks -> Bindings]
  /\ log \in [Tasks -> Seq(Event)]
  /\ turn \in [Tasks -> Statuses \cup {None}]
  /\ call \in [Writers -> Calling \cup Returned]
  /\ sub \in [Subscribers -> [task : Tasks \cup {None}, chan : Seq(Event)]]
  /\ \A s \in Subscribers : Len(sub[s].chan) <= ChanCap

LogInit ==
  /\ status = [t \in Tasks |-> None]
  /\ remote = [t \in Tasks |-> None]
  /\ log = [t \in Tasks |-> <<>>]
  /\ turn = [t \in Tasks |-> None]
  /\ call = [w \in Writers |-> [step |-> "ok"]]
  /\ sub = [s \in Subscribers |-> Free]

-----------------------------------------------------------------------------
(* The task row and its thread turn *)

\* CreateTask stores the task row before any event of the task.
InsertTask(t) ==
  /\ status[t] = None
  /\ status' = [status EXCEPT ![t] = "created"]
  /\ UNCHANGED <<remote, log, turn, call, sub>>

\* appendTaskToThread: the turn copies the status of the record CreateTask
\* built, which is still created whatever has been appended since.
AppendTaskToThread(t) ==
  /\ status[t] # None
  /\ turn[t] = None
  /\ turn' = [turn EXCEPT ![t] = "created"]
  /\ UNCHANGED <<status, remote, log, call, sub>>

-----------------------------------------------------------------------------
(* appendEvent *)

\* SELECT COALESCE(MAX(seq), 0) + 1
NextSeq(t) == 1 + Max({0} \cup {log[t][i].seq : i \in DOMAIN log[t]})

\* The event is built around the sequence number just read.
BeginAppend(w, t, kind, state, handle) ==
  /\ call[w].step \in {"ok", "err"}
  /\ call' = [call EXCEPT ![w] =
       [step |-> "insert", task |-> t, handle |-> handle,
        event |-> [seq |-> NextSeq(t), kind |-> kind, state |-> state]]]

\* UNIQUE(task_id, seq)
SeqTaken(t, seq) == \E i \in DOMAIN log[t] : log[t][i].seq = seq

\* COALESCE(?, remote_binding): only a nil handle keeps the stored binding, an
\* empty binding replaces it.
Coalesce(handle, stored) == IF handle = None THEN stored ELSE handle

\* Plausible bugs in AppendEventAndUpdateTask: a schema without the uniqueness
\* constraint; a task row that is not updated in the transaction.
InsertAnySeq(w) ==
  LET c == call[w]
      t == c.task
  IN /\ c.step = "insert"
     /\ log' = [log EXCEPT ![t] = Append(@, c.event)]
     /\ status' = [status EXCEPT ![t] = c.event.state]
     /\ remote' = [remote EXCEPT ![t] = Coalesce(c.handle, @)]
     /\ call' = [call EXCEPT ![w].step = "turn"]
     /\ UNCHANGED <<turn, sub>>

InsertWithoutRow(w) ==
  LET c == call[w]
      t == c.task
  IN /\ c.step = "insert"
     /\ ~SeqTaken(t, c.event.seq)
     /\ log' = [log EXCEPT ![t] = Append(@, c.event)]
     /\ remote' = [remote EXCEPT ![t] = Coalesce(c.handle, @)]
     /\ call' = [call EXCEPT ![w].step = "turn"]
     /\ UNCHANGED <<status, turn, sub>>

\* AppendEventAndUpdateTask commits: event and task row together.
Insert(w) ==
  LET c == call[w]
      t == c.task
  IN /\ c.step = "insert"
     /\ ~SeqTaken(t, c.event.seq)
     /\ log' = [log EXCEPT ![t] = Append(@, c.event)]
     /\ status' = [status EXCEPT ![t] = c.event.state]
     /\ remote' = [remote EXCEPT ![t] = Coalesce(c.handle, @)]
     /\ call' = [call EXCEPT ![w].step = "turn"]
     /\ UNCHANGED <<turn, sub>>

\* Plausible bugs at a taken number: INSERT OR REPLACE; an error nobody looks at;
\* a retry that does not read the number again.
ReplaceOnConflict(w) ==
  LET c == call[w]
      t == c.task
  IN /\ c.step = "insert"
     /\ SeqTaken(t, c.event.seq)
     /\ log' = [log EXCEPT ![t][c.event.seq] = c.event]
     /\ status' = [status EXCEPT ![t] = c.event.state]
     /\ remote' = [remote EXCEPT ![t] = Coalesce(c.handle, @)]
     /\ call' = [call EXCEPT ![w].step = "turn"]
     /\ UNCHANGED <<turn, sub>>

IgnoreConflict(w) ==
  /\ call[w].step = "insert"
  /\ SeqTaken(call[w].task, call[w].event.seq)
  /\ call' = [call EXCEPT ![w].step = "turn"]
  /\ UNCHANGED <<status, remote, log, turn, sub>>

RetrySameSeq(w) ==
  /\ call[w].step = "insert"
  /\ SeqTaken(call[w].task, call[w].event.seq)
  /\ UNCHANGED logVars

\* Another writer took the number: the transaction rolls back and appendEvent
\* returns the error.
InsertConflict(w) ==
  /\ call[w].step = "insert"
  /\ SeqTaken(call[w].task, call[w].event.seq)
  /\ call' = [call EXCEPT ![w] = [step |-> "err"]]
  /\ UNCHANGED <<status, remote, log, turn, sub>>

\* UpdateThreadTurnStatusByTaskID touches no row when the task has no turn.
UpdateTurn(w) ==
  LET t == call[w].task
  IN /\ call[w].step = "turn"
     /\ turn' = [turn EXCEPT ![t] = IF @ = None THEN None ELSE call[w].event.state]
     /\ call' = [call EXCEPT ![w].step = "publish"]
     /\ UNCHANGED <<status, remote, log, sub>>

\* Plausible bug: a queue without a limit.
OfferAlways(s, t, e) ==
  IF s.task = t THEN [s EXCEPT !.chan = Append(@, e)] ELSE s

\* The non-blocking send to one subscriber: the event is dropped when the
\* channel is full.
Offer(s, t, e) ==
  IF s.task = t /\ Len(s.chan) < ChanCap
    THEN [s EXCEPT !.chan = Append(@, e)]
    ELSE s

Publish(w) ==
  LET c == call[w]
  IN /\ c.step = "publish"
     /\ sub' = [s \in Subscribers |-> Offer(sub[s], c.task, c.event)]
     /\ call' = [call EXCEPT ![w] = [step |-> "ok"]]
     /\ UNCHANGED <<status, remote, log, turn>>

\* The client of a request goes away: the next statement issued under the
\* request's context fails.  Only the statements remain conditional on it; the
\* fan-out is not.
ContextCancelled(w) ==
  /\ call[w].step \in {"insert", "turn"}
  /\ call' = [call EXCEPT ![w] = [step |-> "err"]]
  /\ UNCHANGED <<status, remote, log, turn, sub>>

AppendStep(w) ==
  Insert(w) \/ InsertConflict(w) \/ UpdateTurn(w) \/ Publish(w)

-----------------------------------------------------------------------------
(* Subscribers *)

Subscribe(s, t) ==
  /\ sub[s].task = None
  /\ sub' = [sub EXCEPT ![s].task = t]
  /\ UNCHANGED <<status, remote, log, turn, call>>

Receive(s) ==
  /\ sub[s].chan # <<>>
  /\ sub' = [sub EXCEPT ![s].chan = Tail(@)]
  /\ UNCHANGED <<status, remote, log, turn, call>>

Unsubscribe(s) ==
  /\ sub[s].task # None
  /\ sub' = [sub EXCEPT ![s] = Free]
  /\ UNCHANGED <<status, remote, log, turn, call>>

-----------------------------------------------------------------------------
\* The process dies: goroutines and channels are gone, the database stays.
Crash ==
  /\ call' = [w \in Writers |-> [step |-> "err"]]
  /\ sub' = [s \in Subscribers |-> Free]
  /\ UNCHANGED <<status, remote, log, turn>>

\* Callers append to tasks they created or loaded, so the row exists.
Append1(w) ==
  \E t \in Tasks, in \in Inputs :
     /\ status[t] # None
     /\ BeginAppend(w, t, in.kind, in.state, in.handle)
     /\ UNCHANGED <<status, remote, log, turn, sub>>

LogNext ==
  \/ \E t \in Tasks : InsertTask(t) \/ AppendTaskToThread(t)
  \/ \E w \in Writers : Append1(w) \/ AppendStep(w)
  \/ \E w \in Writers : ContextCancelled(w)
  \/ \E s \in Subscribers : Receive(s) \/ Unsubscribe(s)
  \/ \E s \in Subscribers, t \in Tasks : Subscribe(s, t)
  \/ Crash

LogSpec == LogInit /\ [][LogNext]_logVars

-----------------------------------------------------------------------------
(***************************************************************************)
(* Sequence numbers are contiguous and in commit order whatever the number *)
(* of concurrent writers: the n-th committed event of a task has seq n.    *)
(* No writer holds a lock between NextSeq and the insert; the UNIQUE       *)
(* constraint has to do all the work.                                      *)
(***************************************************************************)
SeqContiguous ==
  \A t \in Tasks : \A i \in DOMAIN log[t] : log[t][i].seq = i

(***************************************************************************)
(* The status of a task row is the state of the last event of its log:     *)
(* nobody can observe an event without the transition it stands for, or    *)
(* the transition without the event.                                       *)
(***************************************************************************)
LastState(t) == IF log[t] = <<>> THEN "created" ELSE log[t][Len(log[t])].state

RowMatchesLog ==
  \A t \in Tasks :
     IF status[t] = None THEN log[t] = <<>> ELSE status[t] = LastState(t)

(***************************************************************************)
(* An append under way is never ahead of the log: its number is taken or   *)
(* the next one, its task exists, and once it is past the insert exactly   *)
(* its event stands in the log under its number, so what it writes to the  *)
(* turn and to the channels is committed history.                          *)
(***************************************************************************)
CallMatchesLog ==
  \A w \in Writers :
     LET c == call[w]
     IN /\ c.step = "insert" =>
             status[c.task] # None /\ c.event.seq \in 1..(Len(log[c.task]) + 1)
        /\ c.step \in {"turn", "publish"} =>
             /\ c.event.seq \in 1..Len(log[c.task])
             /\ log[c.task][c.event.seq] = c.event

(***************************************************************************)
(* The store keeps the promise of TaskHistory.                             *)
(***************************************************************************)
History == INSTANCE TaskHistory WITH current <- status, history <- log

KeepsHistory == History!HistorySpec

(***************************************************************************)
(* A live stream never delivers an event that a later replay of the        *)
(* history would not contain: everything in a channel was committed first. *)
(***************************************************************************)
FanOutIsCommitted ==
  \A s \in Subscribers : \A i \in DOMAIN sub[s].chan :
     \E j \in DOMAIN log[sub[s].task] : log[sub[s].task][j] = sub[s].chan[i]

(***************************************************************************)
(* A thread turn never shows a status its task was never in, even though   *)
(* it is written outside the transaction and after it.                     *)
(***************************************************************************)
TurnEchoesLog ==
  \A t \in Tasks :
     turn[t] \in {None, "created"} \cup {log[t][i].state : i \in DOMAIN log[t]}
=============================================================================
