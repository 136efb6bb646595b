--------------------------- MODULE TaskLifecycle ---------------------------
(***************************************************************************)
(* The life of local tasks in one node, internal/core/orchestrator.go:     *)
(* CreateTask inserts the row, appends two events and starts runTask,      *)
(* which brings the runtime up, submits the task and records what the      *)
(* adapter's stream reports; CancelTask and ResumeTask load the task, call *)
(* the adapter, and append an event built from what they loaded.  All of   *)
(* them write through the unlocked appendEvent of TaskLog.                 *)
(*                                                                         *)
(* The adapter is any implementation of RuntimeAdapter: its health,        *)
(* readiness, submit, cancel and resume calls succeed or fail, and the     *)
(* stream of a submitted task carries progress events and then ends with   *)
(* an outcome, with an error, or with nothing.                             *)
(***************************************************************************)
EXTENDS TaskLog

CONSTANTS Reports,      \* states the runtimes report while they work
          Outcomes,     \* states they end in
          MaxProgress,  \* bound: progress events a stream carries
          MaxCrashes    \* bound: crashes of the process

\* runtimeEventKindToTaskEventKind
KindOf(s) ==
  CASE s = "completed"      -> "task.completed"
    [] s = "failed"         -> "task.failed"
    [] s = "cancelled"      -> "task.cancelled"
    [] s = "awaiting_input" -> "task.awaiting_input"
    [] OTHER                -> "task.running"

\* The appends of CreateTask, runTask, CancelTask and ResumeTask, for Inputs.
LifecycleAppends ==
  LET Says(kind, states, handles) == [kind : {kind}, state : states, handle : handles]
      rehydrated == {"blank", "bound"}
  IN Says("task.created", {"created"}, {None})
     \cup Says("task.routed", {"created"}, {None})
     \cup Says("runtime.pending_launch", {"pending_launch"}, {None})
     \cup Says("runtime.launching", {"launching"}, {None})
     \cup Says("runtime.ready", {"ready"}, {None})
     \cup Says("task.dispatching", {"dispatching"}, {None, "bound"})
     \cup Says("task.failed", {"failed"}, {None, "bound"})
     \cup (UNION {Says(KindOf(s), {s}, {"bound"}) : s \in Reports \cup Outcomes})
     \cup Says("task.cancel_requested", Statuses \ Terminal, rehydrated)
     \cup Says("task.resume_requested", {"awaiting_input"}, rehydrated)

ASSUME LifecycleAssumption ==
  /\ Reports \subseteq {"running", "awaiting_input"}
  /\ Outcomes \subseteq Terminal
  /\ MaxProgress \in Nat
  /\ MaxCrashes \in Nat
  /\ LifecycleAppends \subseteq Inputs

VARIABLES runner,   \* where the goroutine of each task is; see Runner
          stream,   \* what StreamEvents has put in the two channels of a task
          request,  \* the API request each handler is serving
          crashes   \* crashes so far

vars == <<logVars, runner, stream, request, crashes>>

\* The label names the last thing the goroutine started.  CreateTask: new,
\* inserted, created, routed.  runTask: start .. streaming.  Returned: settled
\* after it appended an outcome, gone without one, lost inside CreateTask.
Creating == {"inserted", "created", "routed"}
Running  == {"start", "pending", "launching", "ready", "dispatching",
             "submitted", "streaming"}
Stopped  == {"settled", "gone", "lost"}
Runner   == {"new"} \cup Creating \cup Running \cup Stopped

Closed == [events |-> <<>>, failed |-> FALSE, open |-> FALSE, sent |-> 0]
Served == {"idle", "done", "refused"}

LifecycleTypeOK ==
  /\ TypeOK
  /\ runner \in [Tasks -> Runner]
  /\ stream \in [Tasks -> [events : Seq(Statuses), failed : BOOLEAN,
                           open : BOOLEAN, sent : 0..MaxProgress]]
  /\ request \in [Requests ->
        [at : Served \cup {"loaded", "accepted"}, op : {None, "cancel", "resume"},
         task : Tasks \cup {None}, seen : Statuses \cup {None}, handle : Bindings]]
  /\ crashes \in 0..MaxCrashes

Init ==
  /\ LogInit
  /\ runner = [t \in Tasks |-> "new"]
  /\ stream = [t \in Tasks |-> Closed]
  /\ request = [r \in Requests |-> [at |-> "idle", op |-> None, task |-> None,
                                    seen |-> None, handle |-> None]]
  /\ crashes = 0

-----------------------------------------------------------------------------
(* Helpers *)

Idle(w) == call[w].step \in {"ok", "err"}

Move(t, from, to) ==
  /\ runner[t] \in from
  /\ runner' = [runner EXCEPT ![t] = to]

\* Plausible bug: the append is started and not waited for.
SayAndGoOn(w, t, kind, state, handle) ==
  /\ call' = [call EXCEPT ![w] =
       [step |-> "insert", task |-> t, handle |-> handle,
        event |-> [seq |-> NextSeq(t), kind |-> kind, state |-> state]]]
  /\ UNCHANGED <<dbVars, sub, crashes>>

\* The goroutine of w starts appendEvent for task t and waits for it.
Say(w, t, kind, state, handle) ==
  /\ BeginAppend(w, t, kind, state, handle)
  /\ UNCHANGED <<dbVars, sub, crashes>>

\* runTask on its own task.
RunnerSays(t, kind, state, handle) ==
  Say(t, t, kind, state, handle) /\ UNCHANGED request

-----------------------------------------------------------------------------
(* CreateTask *)

CreateRow(t) ==
  /\ Move(t, {"new"}, "inserted")
  /\ InsertTask(t)
  /\ UNCHANGED <<stream, request, crashes>>

SayCreated(t) ==
  /\ Move(t, {"inserted"}, "created")
  /\ RunnerSays(t, "task.created", "created", None)
  /\ UNCHANGED stream

SayRouted(t) ==
  /\ call[t].step = "ok"
  /\ Move(t, {"created"}, "routed")
  /\ RunnerSays(t, "task.routed", "created", None)
  /\ UNCHANGED stream

\* The turn of a thread-bound task, then "go runTask".
BindAndStart(t) ==
  /\ call[t].step = "ok"
  /\ Move(t, {"routed"}, "start")
  /\ AppendTaskToThread(t)
  /\ UNCHANGED <<stream, request, crashes>>

StartUnbound(t) ==
  /\ call[t].step = "ok"
  /\ Move(t, {"routed"}, "start")
  /\ UNCHANGED <<logVars, stream, request, crashes>>

\* An append of CreateTask returned an error, or the turn could not be stored:
\* CreateTask returns it and runTask is never started.
AbandonCreate(t) ==
  /\ Idle(t)
  /\ call[t].step = "ok" => runner[t] = "routed"
  /\ Move(t, {"created", "routed"}, "lost")
  /\ UNCHANGED <<logVars, stream, request, crashes>>

Create(t) ==
  \/ SayCreated(t) \/ SayRouted(t)
  \/ BindAndStart(t) \/ StartUnbound(t) \/ AbandonCreate(t)

-----------------------------------------------------------------------------
(* runTask.  Errors of its appends are discarded: it goes on in any case. *)

\* ResolveRuntime fails on a store error: CreateTask has found the agent, and
\* nothing deletes an agent.
RuntimeUnresolved(t) ==
  /\ Idle(t)
  /\ Move(t, {"start"}, "gone")
  /\ UNCHANGED <<logVars, stream, request, crashes>>

LaunchRequired(t) ==
  /\ Move(t, {"start"}, "pending")
  /\ RunnerSays(t, "runtime.pending_launch", "pending_launch", None)
  /\ UNCHANGED stream

Launch(t) ==
  /\ Move(t, {"pending"}, "launching")
  /\ RunnerSays(t, "runtime.launching", "launching", None)
  /\ UNCHANGED stream

\* EnsureReady succeeds, on a healthy runtime or after a launch.
RuntimeReady(t) ==
  /\ Move(t, {"start", "launching"}, "ready")
  /\ RunnerSays(t, "runtime.ready", "ready", None)
  /\ UNCHANGED stream

Dispatch(t) ==
  /\ Move(t, {"ready"}, "dispatching")
  /\ RunnerSays(t, "task.dispatching", "dispatching", None)
  /\ UNCHANGED stream

\* Plausible bug: a failed attempt is tried again after it was recorded.
FailTaskAndRetry(t) ==
  /\ Move(t, {"start", "launching", "dispatching"}, "start")
  /\ RunnerSays(t, "task.failed", "failed", None)
  /\ UNCHANGED stream

\* adapter missing, ensure_ready_failed, runtime unavailable (start),
\* launch_failed (launching), submit_failed (dispatching).
FailTask(t) ==
  /\ Move(t, {"start", "launching", "dispatching"}, "settled")
  /\ RunnerSays(t, "task.failed", "failed", None)
  /\ UNCHANGED stream

\* Submit returns the handle; the runtime works from here on.
Submit(t) ==
  /\ Move(t, {"dispatching"}, "submitted")
  /\ RunnerSays(t, "task.dispatching", "dispatching", "bound")
  /\ stream' = [stream EXCEPT ![t].open = TRUE]

StreamEvents(t) ==
  /\ Idle(t)
  /\ Move(t, {"submitted"}, "streaming")
  /\ UNCHANGED <<logVars, stream, request, crashes>>

-----------------------------------------------------------------------------
(* The stream of a submitted task *)

\* The adapter reports progress.
Progress(t, s) ==
  /\ stream[t].open
  /\ stream[t].sent < MaxProgress
  /\ stream' = [stream EXCEPT ![t].events = Append(@, s), ![t].sent = @ + 1]
  /\ UNCHANGED <<logVars, runner, request, crashes>>

\* It reports the outcome, or an error, or nothing more, and closes both
\* channels; what they hold can still be read.
Outcome(t, s) ==
  /\ stream[t].open
  /\ stream' = [stream EXCEPT ![t].events = Append(@, s), ![t].open = FALSE]
  /\ UNCHANGED <<logVars, runner, request, crashes>>

Break(t) ==
  /\ stream[t].open
  /\ stream' = [stream EXCEPT ![t].failed = TRUE, ![t].open = FALSE]
  /\ UNCHANGED <<logVars, runner, request, crashes>>

FallSilent(t) ==
  /\ stream[t].open
  /\ stream' = [stream EXCEPT ![t].open = FALSE]
  /\ UNCHANGED <<logVars, runner, request, crashes>>

Ends(t) == (\E s \in Outcomes : Outcome(t, s)) \/ Break(t) \/ FallSilent(t)

\* The select loop of runTask: an event, an error, or the closing of a channel.
\* When several are ready Go picks any of them.
TakeEvent(t) ==
  LET s == Head(stream[t].events)
  IN /\ stream[t].events # <<>>
     /\ Move(t, {"streaming"}, IF s \in Terminal THEN "settled" ELSE "streaming")
     /\ RunnerSays(t, KindOf(s), s, "bound")
     /\ stream' = [stream EXCEPT ![t].events = Tail(@)]

\* Plausible bug: the error of the stream only ends the loop.
TakeErrorQuietly(t) ==
  /\ Idle(t)
  /\ stream[t].failed
  /\ Move(t, {"streaming"}, "settled")
  /\ UNCHANGED <<logVars, stream, request, crashes>>

TakeError(t) ==
  /\ stream[t].failed
  /\ Move(t, {"streaming"}, "settled")
  /\ RunnerSays(t, "task.failed", "failed", "bound")
  /\ stream' = [stream EXCEPT ![t].failed = FALSE]

\* A closed channel is readable once it is drained, and the other may not be.
TakeClose(t) ==
  /\ Idle(t)
  /\ ~stream[t].open
  /\ stream[t].events = <<>> \/ ~stream[t].failed
  /\ Move(t, {"streaming"}, "gone")
  /\ UNCHANGED <<logVars, stream, request, crashes>>

RunTask(t) ==
  \/ LaunchRequired(t) \/ Launch(t) \/ RuntimeReady(t) \/ Dispatch(t)
  \/ FailTask(t) \/ Submit(t) \/ StreamEvents(t)
  \/ TakeEvent(t) \/ TakeError(t) \/ TakeClose(t)

-----------------------------------------------------------------------------
(* CancelTask and ResumeTask *)

\* A client knows a task when CreateTask returned it or its turn is listed.
Known(t) ==
  \/ runner[t] \in Running \cup {"settled", "gone"}
  \/ turn[t] # None

\* rehydrateRemoteHandle builds a handle around the stored binding.  (When the
\* runtime or its adapter cannot be found the handle has no adapter state, and
\* the adapter refuses it: RequestRefused.)
Rehydrate(t) == IF remote[t] = None THEN "blank" ELSE remote[t]

\* GetTask; cancel is a no-op on a terminal task.
LoadForCancel(r, t) ==
  /\ request[r].at = "idle"
  /\ Known(t)
  /\ request' = [request EXCEPT ![r] =
       [at |-> IF status[t] \in Terminal THEN "done" ELSE "loaded", op |-> "cancel",
        task |-> t, seen |-> status[t], handle |-> Rehydrate(t)]]
  /\ UNCHANGED <<logVars, runner, stream, crashes>>

\* ErrTaskNotAwaitable unless the task awaits input.
LoadForResume(r, t) ==
  /\ request[r].at = "idle"
  /\ Known(t)
  /\ request' = [request EXCEPT ![r] =
       [at |-> IF status[t] = "awaiting_input" THEN "loaded" ELSE "refused",
        op |-> "resume", task |-> t, seen |-> status[t], handle |-> Rehydrate(t)]]
  /\ UNCHANGED <<logVars, runner, stream, crashes>>

\* The adapter's Cancel or Resume returns, up to twenty seconds later.
AdapterAccepts(r) ==
  /\ request[r].at = "loaded"
  /\ request' = [request EXCEPT ![r].at = "accepted"]
  /\ UNCHANGED <<logVars, runner, stream, crashes>>

\* The target or its adapter no longer resolves, or the adapter fails.
RequestRefused(r) ==
  /\ request[r].at = "loaded"
  /\ request' = [request EXCEPT ![r].at = "refused"]
  /\ UNCHANGED <<logVars, runner, stream, crashes>>

\* The event repeats the status loaded before the adapter was called.
SayRequested(r) ==
  LET q == request[r]
  IN /\ q.at = "accepted"
     /\ \/ q.op = "cancel" /\ Say(r, q.task, "task.cancel_requested", q.seen, q.handle)
        \/ q.op = "resume" /\ Say(r, q.task, "task.resume_requested", "awaiting_input", q.handle)
     /\ request' = [request EXCEPT ![r].at = "done"]
     /\ UNCHANGED <<runner, stream>>

Serve(r) ==
  \/ \E t \in Tasks : LoadForCancel(r, t) \/ LoadForResume(r, t)
  \/ AdapterAccepts(r) \/ RequestRefused(r) \/ SayRequested(r)

-----------------------------------------------------------------------------
Appending(w) ==
  AppendStep(w) /\ UNCHANGED <<runner, stream, request, crashes>>

\* Only appends made under a request's context: those of CreateTask and of the
\* API handlers.  runTask uses context.Background().
ClientGone(w) ==
  /\ w \in Tasks => runner[w] \in Creating
  /\ ContextCancelled(w)
  /\ UNCHANGED <<runner, stream, request, crashes>>

\* After a restart nothing resumes a local task: reconcileRestartState only
\* marks its thread, and the task rows stay as persisted.
Restart ==
  /\ crashes < MaxCrashes
  /\ crashes' = crashes + 1
  /\ Crash
  /\ runner' = [t \in Tasks |->
       IF runner[t] \in Creating THEN "lost"
       ELSE IF runner[t] \in Running THEN "gone" ELSE runner[t]]
  /\ stream' = [t \in Tasks |-> Closed]
  /\ request' = [r \in Requests |->
       IF request[r].at \in {"loaded", "accepted"}
         THEN [request[r] EXCEPT !.at = "refused"] ELSE request[r]]

Next ==
  \/ \E t \in Tasks : CreateRow(t) \/ Create(t)
  \/ \E t \in Tasks : RuntimeUnresolved(t) \/ RunTask(t)
  \/ \E t \in Tasks, s \in Reports : Progress(t, s)
  \/ \E t \in Tasks : Ends(t)
  \/ \E r \in Requests : Serve(r)
  \/ \E w \in Writers : Appending(w) \/ ClientGone(w)
  \/ Restart

Spec == Init /\ [][Next]_vars

(***************************************************************************)
(* Fairness: a goroutine goes on with what it does itself.  Nothing makes  *)
(* EnsureReady, Submit, Cancel or Resume of an adapter return: a request   *)
(* is written to the worker's stdin under writeMu before its timer starts  *)
(* (internal/runtime/manager.go:228), and a worker that lives and does not *)
(* read holds its writer, and whoever waits for writeMu, for ever.  A      *)
(* stream does end: consumeRun writes nothing itself and its ticker finds  *)
(* the session idle at last, whatever the prompt does (RunWindsUp of       *)
(* AcpRun); MaxProgress leaves out a runtime that reports without end.     *)
(* Nothing makes a client create a task, call the API or go away.          *)
(***************************************************************************)
Goroutine(t) ==
  \/ Create(t) \/ Launch(t) \/ Dispatch(t) \/ StreamEvents(t)
  \/ TakeEvent(t) \/ TakeError(t) \/ TakeClose(t) \/ Appending(t)

Handler(r) == SayRequested(r) \/ Appending(r)

Fairness ==
  /\ \A t \in Tasks : WF_vars(Goroutine(t)) /\ WF_vars(Ends(t))
  /\ \A r \in Requests : WF_vars(Handler(r))

FairSpec == Spec /\ Fairness

-----------------------------------------------------------------------------
RequestKinds == {"task.resume_requested", "task.cancel_requested"}

Stages == << {"task.created"}, {"task.routed"}, {"runtime.pending_launch"},
             {"runtime.launching"}, {"runtime.ready"}, {"task.dispatching"},
             {"task.running", "task.awaiting_input"},
             {"task.completed", "task.failed", "task.cancelled"} >>

Stage(kind) == CHOOSE n \in DOMAIN Stages : kind \in Stages[n]

NoRequestLogged(t) == \A i \in DOMAIN log[t] : log[t][i].kind \notin RequestKinds

(***************************************************************************)
(* Leaving aside the events of cancel and resume requests, the log of a    *)
(* task follows the lifecycle without ever going back, whichever events    *)
(* were lost to a taken sequence number, and nothing follows its outcome:  *)
(* runTask records at most one.  A recorded resume request answers a pause *)
(* the log shows before it.                                                *)
(***************************************************************************)
LifecycleOrder ==
  /\ LifecycleTypeOK
  /\ \A t \in Tasks : \A i, j \in DOMAIN log[t] :
       /\ i < j
       /\ log[t][i].kind \notin RequestKinds
       /\ log[t][j].kind \notin RequestKinds
       => /\ Stage(log[t][i].kind) <= Stage(log[t][j].kind)
          /\ Stage(log[t][i].kind) < Len(Stages)
  /\ \A t \in Tasks : \A j \in DOMAIN log[t] :
       log[t][j].kind = "task.resume_requested" =>
          \E i \in 1..(j - 1) : log[t][i].kind = "task.awaiting_input"

(***************************************************************************)
(* As long as neither a request nor a crash has interfered, a task between *)
(* two appends is what its goroutine made it: an outcome runTask has taken *)
(* is recorded, and the thread turn shows the status of the task.          *)
(***************************************************************************)
KeptUntilRequest ==
  \A t \in Tasks : Idle(t) /\ crashes = 0 /\ NoRequestLogged(t) =>
     /\ runner[t] = "settled" => status[t] \in Terminal
     /\ turn[t] # None => turn[t] = status[t]

(***************************************************************************)
(* A task leaves a terminal state only by the event of a request that had  *)
(* loaded the task before it ended: never by runTask, never by a restart.  *)
(***************************************************************************)
ReopenedOnlyByRequest ==
  [][\A t \in Tasks :
       status[t] \in Terminal /\ status'[t] # status[t] =>
          /\ log'[t][Len(log'[t])].kind \in RequestKinds
          /\ log'[t][Len(log'[t])].state \notin Terminal]_vars

\* EnsureReady and Submit have been called and have not returned.
InAdapter(t) == runner[t] \in {"start", "launching", "dispatching"} /\ Idle(t)

(***************************************************************************)
(* A task that was started reaches the end of runTask (or CreateTask gives *)
(* up), and a request is answered, whatever the other writers of the log   *)
(* do, unless one call of the adapter never returns.  That is the only     *)
(* thing that holds them: no lost append, full channel, missing outcome,   *)
(* request or failed stream does.                                          *)
(***************************************************************************)
AllFinish ==
  /\ \A t \in Tasks : runner[t] # "new" ~>
       (runner[t] \in Stopped /\ Idle(t)) \/ []InAdapter(t)
  /\ \A r \in Requests : request[r].at # "idle" ~>
       (request[r].at \in Served /\ Idle(r)) \/ [](request[r].at = "loaded")

(***************************************************************************)
(* The lifecycle is one of the users TaskLog allows.                       *)
(***************************************************************************)
UsesLog == LogSpec

-----------------------------------------------------------------------------
(* Statements of the documentation that the code does not keep *)

(***************************************************************************)
(* docs/state_machine.md 2 and 12: a task ends in exactly one terminal     *)
(* state and a task in a terminal state remains terminal.                  *)
(***************************************************************************)
TerminalIsFinal ==
  [][\A t \in Tasks : status[t] \in Terminal => status'[t] = status[t]]_vars

(***************************************************************************)
(* docs/state_machine.md 2: every transition emits exactly one event, so   *)
(* the outcome runTask recorded is in the log.                             *)
(***************************************************************************)
OutcomeRecorded ==
  \A t \in Tasks :
     runner[t] = "settled" /\ Idle(t)
        => \E i \in DOMAIN log[t] : log[t][i].state \in Terminal

(***************************************************************************)
(* docs/state_machine.md 5.1: a cancel accepted before the runtime took    *)
(* the task leaves it cancelled.                                           *)
(***************************************************************************)
EarlyCancelIsFinal ==
  \A r \in Requests :
     /\ request[r].at = "done" /\ request[r].op = "cancel" /\ call[r].step = "ok"
     /\ request[r].seen \in {"created", "pending_launch", "launching", "ready", "dispatching"}
     => status[request[r].task] = "cancelled"

(***************************************************************************)
(* The comment on the COALESCE of internal/storage/sqlite.go: a later      *)
(* transition preserves the remote binding.                                *)
(***************************************************************************)
BindingPreserved ==
  [][\A t \in Tasks : remote[t] = "bound" => remote'[t] = "bound"]_vars
=============================================================================
