------------------------ MODULE TaskLifecycleProofs ------------------------
(***************************************************************************)
(* Proofs about TaskLifecycle: what the log of a local task can look like  *)
(* and who may take a task out of a terminal state, for any number of      *)
(* tasks, requests and crashes and any adapter.                            *)
(***************************************************************************)
EXTENDS TaskLifecycle, TaskLogProofs

Busy(w) == call[w].step \in {"insert", "turn", "publish"}

\* What the goroutine of a task is saying at each label ...
Script == {<<"created", "task.created", "created">>, <<"routed", "task.routed", "created">>,
           <<"pending", "runtime.pending_launch", "pending_launch">>,
           <<"launching", "runtime.launching", "launching">>,
           <<"ready", "runtime.ready", "ready">>,
           <<"dispatching", "task.dispatching", "dispatching">>,
           <<"submitted", "task.dispatching", "dispatching">>,
           <<"streaming", "task.running", "running">>,
           <<"streaming", "task.awaiting_input", "awaiting_input">>,
           <<"settled", "task.completed", "completed">>,
           <<"settled", "task.failed", "failed">>,
           <<"settled", "task.cancelled", "cancelled">>}

\* ... and the last stage it has come to.
Level(at) ==
  IF at \in {"new", "inserted"} THEN 0
  ELSE IF at = "created" THEN 1
  ELSE IF at \in {"routed", "start"} THEN 2
  ELSE IF at = "pending" THEN 3
  ELSE IF at = "launching" THEN 4
  ELSE IF at = "ready" THEN 5
  ELSE IF at \in {"dispatching", "submitted"} THEN 6
  ELSE IF at = "streaming" THEN 7
  ELSE 8

Scripted(e, at) == <<at, e.kind, e.state>> \in Script

\* The log shows that the task paused, at place n or before.
PausedBy(t, n) == \E i \in 1..n : i \in DOMAIN log[t] /\ log[t][i].kind = "task.awaiting_input"
Paused(t) == \E i \in DOMAIN log[t] : log[t][i].kind = "task.awaiting_input"

\* An event of a cancel or resume request.
Requested(e) ==
  /\ e.kind \in RequestKinds /\ e.state \notin Terminal
  /\ e.kind = "task.resume_requested" => e.state = "awaiting_input"

\* A goroutine appends to its own task what its label says; it waits for the append.
RunnerFits(t) ==
  /\ Busy(t) => call[t].task = t /\ Scripted(call[t].event, runner[t])
  /\ runner[t] # "new" => status[t] # None
  /\ runner[t] \in {"new"} \cup Creating => turn[t] = None

\* The channels of a stream hold what an adapter may report.
StreamFits(t) == stream[t].events \in Seq(Reports \cup Outcomes)

\* A handler goes on only with a task that had not ended when it was loaded.
RequestFits(r) ==
  LET q == request[r]
  IN /\ q.at \in {"loaded", "accepted"} =>
          /\ q.task \in Tasks /\ status[q.task] # None /\ q.op \in {"cancel", "resume"}
          /\ q.seen \in Statuses \ Terminal /\ q.handle \in {"blank", "bound"}
          /\ q.op = "resume" => q.seen = "awaiting_input"
          /\ q.seen = "awaiting_input" => Paused(q.task)
     /\ Busy(r) => /\ Requested(call[r].event)
                   /\ call[r].event.state = "awaiting_input" => Paused(call[r].task)

\* Whatever a log holds was said by the task's goroutine or by a request, and the
\* goroutine has nothing left to say once an outcome is in the log.
EventsFit(t) ==
  \A i \in DOMAIN log[t] :
    LET e == log[t][i]
    IN /\ \/ Requested(e)
          \/ \E at \in Runner : Scripted(e, at) /\ Level(at) <= Level(runner[t])
       /\ e.state \in Terminal => runner[t] = "settled" /\ call[t].step # "insert"
       /\ e.state = "awaiting_input" => PausedBy(t, i)

\* What the goroutine is about to insert is not behind what it inserted before.
OrderFits(t) ==
  /\ \A i, j \in DOMAIN log[t] :
       i < j /\ log[t][i].kind \notin RequestKinds /\ log[t][j].kind \notin RequestKinds =>
         /\ Stage(log[t][i].kind) <= Stage(log[t][j].kind)
         /\ Stage(log[t][i].kind) < 8
  /\ call[t].step = "insert" =>
       \A i \in DOMAIN log[t] : log[t][i].kind \notin RequestKinds =>
         /\ Stage(log[t][i].kind) <= Stage(call[t].event.kind)
         /\ Stage(log[t][i].kind) < 8

\* Undisturbed, the goroutine finds its number free, and row and turn follow it.
KeptFits(t) ==
  crashes = 0 /\ NoRequestLogged(t) =>
    /\ call[t].step = "insert" => call[t].event.seq = Len(log[t]) + 1
    /\ call[t].step = "turn" => call[t].event.state = status[t]
    /\ runner[t] \in Creating => status[t] = "created"
    /\ runner[t] = "settled" =>
         \/ status[t] \in Terminal
         \/ (call[t].step = "insert" /\ call[t].event.state \in Terminal)
    /\ turn[t] # None /\ call[t].step # "turn" => turn[t] = status[t]

LifeInv ==
  /\ LogInv
  /\ LifecycleTypeOK
  /\ \A t \in Tasks : 
       RunnerFits(t) /\ StreamFits(t) /\ EventsFit(t) /\ OrderFits(t) /\ KeptFits(t)
  /\ \A r \in Requests : RequestFits(r)
-----------------------------------------------------------------------------
(* The vocabulary of the lifecycle *)

\* A kind stands for one stage.
LEMMA StageIs ==
  ASSUME NEW kind, NEW n \in 1..8, kind \in Stages[n],
         \A m \in 1..8 : kind \in Stages[m] => m = n
  PROVE  Stage(kind) = n
<1>1. DOMAIN Stages = 1..8
  BY DEF Stages
<1>2. \A m : m \in 1..8 /\ kind \in Stages[m] => m = n
  OBVIOUS
<1> QED  BY <1>1, <1>2 DEF Stage

\* The stages of the kinds.
LEMMA StageOf ==
  /\ Stage("task.created") = 1 /\ Stage("task.routed") = 2
  /\ Stage("runtime.pending_launch") = 3 /\ Stage("runtime.launching") = 4
  /\ Stage("runtime.ready") = 5 /\ Stage("task.dispatching") = 6
  /\ Stage("task.running") = 7 /\ Stage("task.awaiting_input") = 7
  /\ Stage("task.completed") = 8 /\ Stage("task.failed") = 8 /\ Stage("task.cancelled") = 8
<1>1. /\ Stages[1] = {"task.created"} /\ Stages[2] = {"task.routed"}
      /\ Stages[3] = {"runtime.pending_launch"} /\ Stages[4] = {"runtime.launching"}
      /\ Stages[5] = {"runtime.ready"} /\ Stages[6] = {"task.dispatching"}
      /\ Stages[7] = {"task.running", "task.awaiting_input"}
      /\ Stages[8] = {"task.completed", "task.failed", "task.cancelled"}
  BY DEF Stages
<1>2. 1..8 = {1, 2, 3, 4, 5, 6, 7, 8}
  OBVIOUS
<1>3. Stage("task.created") = 1
  BY <1>1, <1>2, StageIs
<1>4. Stage("task.routed") = 2
  BY <1>1, <1>2, StageIs
<1>5. Stage("runtime.pending_launch") = 3
  BY <1>1, <1>2, StageIs
<1>6. Stage("runtime.launching") = 4
  BY <1>1, <1>2, StageIs
<1>7. Stage("runtime.ready") = 5
  BY <1>1, <1>2, StageIs
<1>8. Stage("task.dispatching") = 6
  BY <1>1, <1>2, StageIs
<1>9. Stage("task.running") = 7 /\ Stage("task.awaiting_input") = 7
  BY <1>1, <1>2, StageIs
<1>10. Stage("task.completed") = 8 /\ Stage("task.failed") = 8 /\ Stage("task.cancelled") = 8
  BY <1>1, <1>2, StageIs
<1> QED  BY <1>3, <1>4, <1>5, <1>6, <1>7, <1>8, <1>9, <1>10

\* What a goroutine says has the stage of its label.
LEMMA ScriptFits ==
  ASSUME NEW at, NEW kind, NEW state, <<at, kind, state>> \in Script
  PROVE  /\ at \in Runner /\ kind \in Kinds /\ state \in Statuses
         /\ kind \notin RequestKinds
         /\ Stage(kind) = Level(at) /\ Level(at) \in 1..8
         /\ state \in Terminal <=> at = "settled"
         /\ Level(at) = 8 <=> at = "settled"
         /\ state = "awaiting_input" => kind = "task.awaiting_input"
         /\ at \in Creating => state = "created"
         /\ at \in {"settled"} \cup Creating \cup Running
<1>1. at \in Runner /\ at \in {"settled"} \cup Creating \cup Running
  BY DEF Script, Runner, Creating, Running, Stopped
<1>2. kind \in Kinds /\ state \in Statuses
  BY DEF Script, Kinds, Statuses, Terminal
<1>3. kind \notin RequestKinds
  BY DEF Script, RequestKinds
<1>4. Stage(kind) = Level(at) /\ Level(at) \in 1..8
  BY StageOf DEF Script, Level
<1>5. /\ state \in Terminal <=> at = "settled"
      /\ Level(at) = 8 <=> at = "settled"
  BY DEF Script, Level, Terminal
<1>6. /\ state = "awaiting_input" => kind = "task.awaiting_input"
      /\ at \in Creating => state = "created"
  BY DEF Script, Creating
<1> QED  BY <1>1, <1>2, <1>3, <1>4, <1>5, <1>6

\* What the adapter reports is in the script.
LEMMA ReportFits ==
  ASSUME NEW s \in {"running", "awaiting_input"} \cup Terminal
  PROVE  /\ <<IF s \in Terminal THEN "settled" ELSE "streaming", KindOf(s), s>> \in Script
         /\ s \in Statuses
<1>1. KindOf("completed") = "task.completed"
  BY Zenon DEF KindOf
<1>2. KindOf("failed") = "task.failed"
  BY Zenon DEF KindOf
<1>3. KindOf("cancelled") = "task.cancelled"
  BY Zenon DEF KindOf
<1>4. KindOf("awaiting_input") = "task.awaiting_input"
  BY Zenon DEF KindOf
<1>5. KindOf("running") = "task.running"
  BY Zenon DEF KindOf
<1> QED  BY <1>1, <1>2, <1>3, <1>4, <1>5 DEF Script, Terminal, Statuses

\* The levels are numbers.
LEMMA LevelIsNumber ==
  ASSUME NEW at
  PROVE  Level(at) \in 0..8
BY DEF Level

-----------------------------------------------------------------------------
(* What a step is to one task and to one request *)

Same(t) == log'[t] = log[t] /\ status'[t] = status[t]
Rests(t) == runner'[t] = runner[t] /\ call'[t] = call[t]

\* Nothing of the task changes.
Idles(t) == Same(t) /\ Rests(t) /\ turn'[t] = turn[t] /\ crashes' = crashes

\* CreateTask stores the row.
Appears(t) ==
  /\ runner[t] = "new" /\ runner'[t] = "inserted"
  /\ status[t] = None /\ status'[t] = "created"
  /\ log'[t] = log[t] /\ turn'[t] = turn[t] /\ call'[t] = call[t] /\ crashes' = crashes

\* The goroutine goes on to a label and starts the append that belongs to it.
Speaks(t) ==
  /\ Same(t) /\ turn'[t] = turn[t] /\ crashes' = crashes
  /\ ~Busy(t)
  /\ runner[t] \in Creating \cup Running
  /\ Level(runner[t]) <= Level(runner'[t])
  /\ runner'[t] \in Creating => runner[t] \in Creating
  /\ call'[t].step = "insert" /\ call'[t].task = t
  /\ call'[t].event.seq = Len(log[t]) + 1
  /\ Scripted(call'[t].event, runner'[t])

\* It goes on without a word; the turn of a task is bound on the way to runTask.
Walks(t) ==
  /\ Same(t) /\ call'[t] = call[t] /\ crashes' = crashes
  /\ ~Busy(t)
  /\ runner[t] \in Creating \cup Running
  /\ runner'[t] \in Running \cup {"gone", "lost"}
  /\ Level(runner[t]) <= Level(runner'[t])
  /\ turn'[t] = turn[t] \/ (runner[t] = "routed" /\ turn'[t] = "created")

\* An event is committed: its own ...
Extends(t, e) ==
  /\ DOMAIN log[t] = 1..Len(log[t]) /\ Len(log[t]) \in Nat
  /\ DOMAIN log'[t] = 1..(Len(log[t]) + 1) /\ Len(log'[t]) = Len(log[t]) + 1
  /\ log'[t][Len(log[t]) + 1] = e
  /\ \A i \in DOMAIN log[t] : log'[t][i] = log[t][i]
  /\ status'[t] = e.state

Commits(t) ==
  /\ call[t].step = "insert" /\ call[t].task = t
  /\ Extends(t, call[t].event)
  /\ call'[t].step = "turn" /\ call'[t].task = t /\ call'[t].event = call[t].event
  /\ runner'[t] = runner[t] /\ turn'[t] = turn[t] /\ crashes' = crashes

\* ... or that of a request.
Asked(t) ==
  \E r \in Requests :
    /\ call[r].step = "insert" /\ call[r].task = t
    /\ Extends(t, call[r].event)
    /\ Rests(t) /\ turn'[t] = turn[t] /\ crashes' = crashes

\* The turn follows the row.
Follows(t) ==
  /\ Same(t) /\ runner'[t] = runner[t] /\ crashes' = crashes
  /\ call[t].step = "turn" /\ call[t].task = t
  /\ turn'[t] = (IF turn[t] = None THEN None ELSE call[t].event.state)
  /\ call'[t].step = "publish" /\ call'[t].task = t /\ call'[t].event = call[t].event

\* An append of the goroutine returns: at its end, or because its number was
\* taken, or because the client of CreateTask went away.
Returns(t) ==
  /\ Same(t) /\ runner'[t] = runner[t] /\ turn'[t] = turn[t] /\ crashes' = crashes
  /\ Busy(t) /\ call'[t].step \in {"ok", "err"}
  /\ \/ call[t].step = "publish"
     \/ runner[t] \in Creating
     \/ call[t].step = "insert" /\ call[t].task = t /\ SeqTaken(t, call[t].event.seq)

\* A request that has committed its event writes the turn.
Echoes(t) ==
  /\ Same(t) /\ Rests(t) /\ crashes' = crashes
  /\ ~NoRequestLogged(t)
  /\ turn[t] = None => turn'[t] = None

\* The process crashes.
Dies(t) ==
  /\ Same(t) /\ turn'[t] = turn[t] /\ crashes \in Nat /\ crashes' = crashes + 1
  /\ call'[t].step = "err"
  /\ \/ runner'[t] = runner[t] /\ runner[t] \notin Creating \cup Running
     \/ runner'[t] \in {"gone", "lost"} /\ runner[t] \in Creating \cup Running

TaskSteps(t) ==
  \/ Idles(t) \/ Appears(t) \/ Speaks(t) \/ Walks(t) \/ Commits(t)
  \/ Asked(t) \/ Follows(t) \/ Returns(t) \/ Echoes(t) \/ Dies(t)

Waits(r) == request'[r] = request[r] /\ call'[r] = call[r]

\* The task is loaded, and found worth going on with or not.
Loads(r) ==
  /\ call'[r] = call[r]
  /\ LET q == request'[r]
     IN /\ q.at \in Served \cup {"loaded"}
        /\ q.at = "loaded" =>
             /\ q.task \in Tasks /\ q.op \in {"cancel", "resume"}
             /\ status[q.task] # None /\ status[q.task] \notin Terminal
             /\ q.seen = status[q.task] /\ q.handle \in {"blank", "bound"}
             /\ q.op = "resume" => q.seen = "awaiting_input"

\* The adapter answers.
IsAnswered(r) ==
  /\ request[r].at = "loaded" /\ request'[r].at \in {"accepted", "refused"}
  /\ request'[r].task = request[r].task /\ request'[r].op = request[r].op
  /\ request'[r].seen = request[r].seen /\ request'[r].handle = request[r].handle
  /\ call'[r] = call[r]

\* The event is built from what was loaded.
Asks(r) ==
  /\ request[r].at = "accepted" /\ request'[r].at = "done"
  /\ call'[r].task = request[r].task
  /\ LET e == call'[r].event
     IN \/ e.kind = "task.cancel_requested" /\ e.state = request[r].seen
        \/ /\ request[r].op = "resume"
           /\ e.kind = "task.resume_requested" /\ e.state = "awaiting_input"

\* The append of a handler goes on or returns, or the process crashes.
Advances(r) ==
  /\ request'[r] = request[r] \/ request'[r].at \in Served
  /\ \/ call'[r].step \in {"ok", "err"}
     \/ Busy(r) /\ call'[r].task = call[r].task /\ call'[r].event = call[r].event

RequestSteps(r) == Waits(r) \/ Loads(r) \/ IsAnswered(r) \/ Asks(r) \/ Advances(r)

Alone(t) ==
  /\ \A u \in Tasks \ {t} : Idles(u)
  /\ \A r \in Requests : Waits(r)

-----------------------------------------------------------------------------
(* Every step is one of these *)

\* Who runs a task does not serve a request.
LEMMA WritersApart ==
  ASSUME NEW t \in Tasks
  PROVE  t \in Writers /\ \A r \in Requests : r # t /\ r \in Writers
BY LogAssumption DEF Writers

\* Starting an append changes the call of its writer only.
LEMMA SayIs ==
  ASSUME LifeInv, NEW w \in Writers, NEW t \in Tasks, NEW kind, NEW state, NEW handle,
         Say(w, t, kind, state, handle), status[t] # None,
         [kind |-> kind, state |-> state, handle |-> handle] \in Inputs
  PROVE  /\ ~Busy(w)
         /\ call'[w].step = "insert" /\ call'[w].task = t
         /\ call'[w].event.kind = kind /\ call'[w].event.state = state
         /\ call'[w].event.seq = Len(log[t]) + 1
         /\ \A v \in Writers \ {w} : call'[v] = call[v]
         /\ UNCHANGED <<log, status, turn, crashes>>
         /\ LogNext
<1> DEFINE e == [seq |-> NextSeq(t), kind |-> kind, state |-> state]
           c == [step |-> "insert", task |-> t, handle |-> handle, event |-> e]
<1>1. /\ call[w].step \in {"ok", "err"} /\ call' = [call EXCEPT ![w] = c]
      /\ UNCHANGED <<status, remote, log, turn, sub, crashes>>
  BY DEF Say, BeginAppend, dbVars
<1>2. call \in [Writers -> Calling \cup Returned]
  BY DEF LifeInv, LifecycleTypeOK, TypeOK
<1>3. call'[w] = c /\ \A v \in Writers \ {w} : call'[v] = call[v]
  BY <1>1, <1>2
<1>4. NextSeq(t) = Len(log[t]) + 1
  BY NextSeqIsNext DEF LifeInv, LogInv
<1>5. Append1(w)
  <2> DEFINE in == [kind |-> kind, state |-> state, handle |-> handle]
  <2>1. in \in Inputs /\ in.kind = kind /\ in.state = state /\ in.handle = handle
    OBVIOUS
  <2>2. BeginAppend(w, t, in.kind, in.state, in.handle)
    BY <2>1 DEF Say
  <2> HIDE DEF in
  <2> QED  BY <1>1, <2>1, <2>2 DEF Append1
<1>6. LogNext
  BY <1>5 DEF LogNext
<1> QED  BY <1>1, <1>3, <1>4, <1>6 DEF Busy

\* A goroutine that starts its next append speaks, and nobody else moves.
LEMMA Speaking ==
  ASSUME LifeInv, NEW t \in Tasks, NEW to, NEW kind, NEW state, NEW handle,
         runner[t] \in Creating \cup Running,
         runner' = [runner EXCEPT ![t] = to],
         RunnerSays(t, kind, state, handle),
         <<to, kind, state>> \in Script,
         [kind |-> kind, state |-> state, handle |-> handle] \in LifecycleAppends,
         Level(runner[t]) <= Level(to),
         to \in Creating => runner[t] \in Creating
  PROVE  Speaks(t) /\ Alone(t) /\ LogNext
<1>1. /\ t \in Writers /\ Say(t, t, kind, state, handle) /\ UNCHANGED request
      /\ [kind |-> kind, state |-> state, handle |-> handle] \in Inputs
  BY WritersApart, LifecycleAssumption DEF RunnerSays
<1>2. status[t] # None
  BY DEF LifeInv, RunnerFits, Creating, Running
<1>3. /\ ~Busy(t)
      /\ call'[t].step = "insert" /\ call'[t].task = t
      /\ call'[t].event.kind = kind /\ call'[t].event.state = state
      /\ call'[t].event.seq = Len(log[t]) + 1
      /\ \A v \in Writers \ {t} : call'[v] = call[v]
      /\ UNCHANGED <<log, status, turn, crashes>>
      /\ LogNext
  BY <1>1, <1>2, SayIs
<1>4. runner'[t] = to /\ \A u \in Tasks \ {t} : runner'[u] = runner[u]
  BY DEF LifeInv, LifecycleTypeOK
<1>5. Speaks(t)
  BY <1>3, <1>4 DEF Speaks, Same, Scripted
<1>6. \A u \in Tasks \ {t} : Idles(u)
  BY <1>3, <1>4 DEF Idles, Same, Rests, Writers
<1>7. \A r \in Requests : Waits(r)
  BY <1>1, <1>3, WritersApart DEF Waits
<1> QED  BY <1>3, <1>5, <1>6, <1>7 DEF Alone

\* A goroutine that only goes on to a label walks.
LEMMA Walking ==
  ASSUME LifeInv, NEW t \in Tasks, NEW to \in Running \cup {"gone", "lost"},
         runner[t] \in Creating \cup Running,
         runner' = [runner EXCEPT ![t] = to],
         ~Busy(t), Level(runner[t]) <= Level(to),
         UNCHANGED <<logVars, request, crashes>>
  PROVE  Walks(t) /\ Alone(t)
<1>1. runner'[t] = to /\ \A u \in Tasks \ {t} : runner'[u] = runner[u]
  BY DEF LifeInv, LifecycleTypeOK
<1>2. UNCHANGED <<status, log, turn, call, request, crashes>>
  BY DEF logVars
<1>3. Walks(t)
  BY <1>1, <1>2 DEF Walks, Same
<1>4. \A u \in Tasks \ {t} : Idles(u)
  BY <1>1, <1>2 DEF Idles, Same, Rests
<1>5. \A r \in Requests : Waits(r)
  BY <1>2 DEF Waits
<1> QED  BY <1>3, <1>4, <1>5 DEF Alone

\* The levels of the labels.
LEMMA LevelsAre ==
  /\ Level("new") = 0 /\ Level("inserted") = 0 /\ Level("created") = 1
  /\ Level("routed") = 2 /\ Level("start") = 2 /\ Level("pending") = 3
  /\ Level("launching") = 4 /\ Level("ready") = 5 /\ Level("dispatching") = 6
  /\ Level("submitted") = 6 /\ Level("streaming") = 7 /\ Level("settled") = 8
  /\ Level("gone") = 8 /\ Level("lost") = 8
BY DEF Level

\* CreateTask.
LEMMA Creates ==
  ASSUME LifeInv, NEW t \in Tasks, CreateRow(t) \/ Create(t)
  PROVE  (Appears(t) \/ Speaks(t) \/ Walks(t)) /\ Alone(t) /\ [LogNext]_logVars
<1> USE LevelsAre
<1>1. CASE CreateRow(t)
  <2>1. /\ runner[t] = "new" /\ runner' = [runner EXCEPT ![t] = "inserted"]
        /\ InsertTask(t) /\ UNCHANGED <<request, crashes>>
    BY <1>1 DEF CreateRow, Move
  <2>2. /\ runner'[t] = "inserted" /\ \A u \in Tasks \ {t} : runner'[u] = runner[u]
        /\ status[t] = None /\ status'[t] = "created"
        /\ \A u \in Tasks \ {t} : status'[u] = status[u]
        /\ UNCHANGED <<log, turn, call>>
    BY <2>1 DEF InsertTask, LifeInv, LifecycleTypeOK, TypeOK
  <2>3. Appears(t)
    BY <2>1, <2>2 DEF Appears
  <2>4. Alone(t)
    BY <2>1, <2>2 DEF Alone, Idles, Same, Rests, Waits
  <2>5. LogNext
    BY <2>1 DEF LogNext
  <2> QED  BY <2>3, <2>4, <2>5
<1>2. CASE SayCreated(t)
  <2>1. <<"created", "task.created", "created">> \in Script
    BY DEF Script
  <2>2. [kind |-> "task.created", state |-> "created", handle |-> None] \in LifecycleAppends
    BY DEF LifecycleAppends
  <2>3. /\ "inserted" \in Creating /\ "created" \in Creating
        /\ Level("inserted") <= Level("created")
    BY DEF Creating
  <2>4. /\ runner[t] = "inserted" /\ runner' = [runner EXCEPT ![t] = "created"]
        /\ RunnerSays(t, "task.created", "created", None)
    BY <1>2 DEF SayCreated, Move
  <2>5. Speaks(t) /\ Alone(t) /\ LogNext
    BY <2>1, <2>2, <2>3, <2>4, Speaking
  <2> QED  BY <2>5
<1>3. CASE SayRouted(t)
  <2>1. <<"routed", "task.routed", "created">> \in Script
    BY DEF Script
  <2>2. [kind |-> "task.routed", state |-> "created", handle |-> None] \in LifecycleAppends
    BY DEF LifecycleAppends
  <2>3. "created" \in Creating /\ Level("created") <= Level("routed")
    BY DEF Creating
  <2>4. /\ runner[t] = "created" /\ runner' = [runner EXCEPT ![t] = "routed"]
        /\ RunnerSays(t, "task.routed", "created", None)
    BY <1>3 DEF SayRouted, Move
  <2>5. Speaks(t) /\ Alone(t) /\ LogNext
    BY <2>1, <2>2, <2>3, <2>4, Speaking
  <2> QED  BY <2>5
<1>4. CASE BindAndStart(t)
  <2>1. /\ runner[t] = "routed" /\ runner' = [runner EXCEPT ![t] = "start"]
        /\ call[t].step = "ok" /\ AppendTaskToThread(t) /\ UNCHANGED <<request, crashes>>
    BY <1>4 DEF BindAndStart, Move
  <2>2. /\ runner'[t] = "start" /\ \A u \in Tasks \ {t} : runner'[u] = runner[u]
        /\ turn'[t] = "created" /\ \A u \in Tasks \ {t} : turn'[u] = turn[u]
        /\ UNCHANGED <<log, status, call>>
    BY <2>1 DEF AppendTaskToThread, LifeInv, LifecycleTypeOK, TypeOK
  <2>3. Walks(t)
    BY <2>1, <2>2 DEF Walks, Same, Busy, Creating, Running
  <2>4. Alone(t)
    BY <2>1, <2>2 DEF Alone, Idles, Same, Rests, Waits
  <2>5. LogNext
    BY <2>1 DEF LogNext
  <2> QED  BY <2>3, <2>4, <2>5
<1>5. CASE StartUnbound(t)
  <2>1. /\ runner[t] = "routed" /\ runner' = [runner EXCEPT ![t] = "start"]
        /\ ~Busy(t) /\ UNCHANGED <<logVars, request, crashes>>
    BY <1>5 DEF StartUnbound, Move, Busy
  <2>2. "start" \in Running /\ "routed" \in Creating /\ Level("routed") <= Level("start")
    BY DEF Running, Creating
  <2> QED  BY <2>1, <2>2, Walking
<1>6. CASE AbandonCreate(t)
  <2>1. /\ runner[t] \in {"created", "routed"} /\ runner' = [runner EXCEPT ![t] = "lost"]
        /\ ~Busy(t) /\ UNCHANGED <<logVars, request, crashes>>
    BY <1>6 DEF AbandonCreate, Move, Busy, Idle
  <2>2. runner[t] \in Creating
    BY <2>1 DEF Creating
  <2>3. Level(runner[t]) <= Level("lost")
    BY <2>1
  <2> QED  BY <2>1, <2>2, <2>3, Walking
<1> QED  BY <1>1, <1>2, <1>3, <1>4, <1>5, <1>6 DEF Create

\* runTask.
LEMMA Runs ==
  ASSUME LifeInv, NEW t \in Tasks, RuntimeUnresolved(t) \/ RunTask(t)
  PROVE  (Speaks(t) \/ Walks(t)) /\ Alone(t) /\ [LogNext]_logVars
<1> USE LevelsAre
<1>1. CASE RuntimeUnresolved(t)
  <2>1. /\ runner[t] = "start" /\ runner' = [runner EXCEPT ![t] = "gone"]
        /\ ~Busy(t) /\ UNCHANGED <<logVars, request, crashes>>
    BY <1>1 DEF RuntimeUnresolved, Move, Busy, Idle
  <2>2. runner[t] \in Running /\ "gone" \in Running \cup {"gone", "lost"}
    BY <2>1 DEF Running
  <2>3. Level(runner[t]) <= Level("gone")
    BY <2>1
  <2> QED  BY <2>1, <2>2, <2>3, Walking
<1>2. CASE LaunchRequired(t)
  <2>1. <<"pending", "runtime.pending_launch", "pending_launch">> \in Script
    BY DEF Script
  <2>2. [kind |-> "runtime.pending_launch", state |-> "pending_launch", handle |-> None] \in LifecycleAppends
    BY DEF LifecycleAppends
  <2>3. /\ runner[t] \in {"start"} /\ runner' = [runner EXCEPT ![t] = "pending"]
        /\ RunnerSays(t, "runtime.pending_launch", "pending_launch", None)
    BY <1>2 DEF LaunchRequired, Move
  <2>4. runner[t] \in Running /\ "pending" \notin Creating /\ Level(runner[t]) <= Level("pending")
    BY <2>3 DEF Running, Creating
  <2>5. Speaks(t) /\ Alone(t) /\ LogNext
    BY <2>1, <2>2, <2>3, <2>4, Speaking
  <2> QED  BY <2>5
<1>3. CASE Launch(t)
  <2>1. <<"launching", "runtime.launching", "launching">> \in Script
    BY DEF Script
  <2>2. [kind |-> "runtime.launching", state |-> "launching", handle |-> None] \in LifecycleAppends
    BY DEF LifecycleAppends
  <2>3. /\ runner[t] \in {"pending"} /\ runner' = [runner EXCEPT ![t] = "launching"]
        /\ RunnerSays(t, "runtime.launching", "launching", None)
    BY <1>3 DEF Launch, Move
  <2>4. runner[t] \in Running /\ "launching" \notin Creating /\ Level(runner[t]) <= Level("launching")
    BY <2>3 DEF Running, Creating
  <2>5. Speaks(t) /\ Alone(t) /\ LogNext
    BY <2>1, <2>2, <2>3, <2>4, Speaking
  <2> QED  BY <2>5
<1>4. CASE RuntimeReady(t)
  <2>1. <<"ready", "runtime.ready", "ready">> \in Script
    BY DEF Script
  <2>2. [kind |-> "runtime.ready", state |-> "ready", handle |-> None] \in LifecycleAppends
    BY DEF LifecycleAppends
  <2>3. /\ runner[t] \in {"start", "launching"} /\ runner' = [runner EXCEPT ![t] = "ready"]
        /\ RunnerSays(t, "runtime.ready", "ready", None)
    BY <1>4 DEF RuntimeReady, Move
  <2>4. runner[t] \in Running /\ "ready" \notin Creating /\ Level(runner[t]) <= Level("ready")
    BY <2>3 DEF Running, Creating
  <2>5. Speaks(t) /\ Alone(t) /\ LogNext
    BY <2>1, <2>2, <2>3, <2>4, Speaking
  <2> QED  BY <2>5
<1>5. CASE Dispatch(t)
  <2>1. <<"dispatching", "task.dispatching", "dispatching">> \in Script
    BY DEF Script
  <2>2. [kind |-> "task.dispatching", state |-> "dispatching", handle |-> None] \in LifecycleAppends
    BY DEF LifecycleAppends
  <2>3. /\ runner[t] \in {"ready"} /\ runner' = [runner EXCEPT ![t] = "dispatching"]
        /\ RunnerSays(t, "task.dispatching", "dispatching", None)
    BY <1>5 DEF Dispatch, Move
  <2>4. runner[t] \in Running /\ "dispatching" \notin Creating /\ Level(runner[t]) <= Level("dispatching")
    BY <2>3 DEF Running, Creating
  <2>5. Speaks(t) /\ Alone(t) /\ LogNext
    BY <2>1, <2>2, <2>3, <2>4, Speaking
  <2> QED  BY <2>5
<1>6. CASE FailTask(t)
  <2>1. <<"settled", "task.failed", "failed">> \in Script
    BY DEF Script
  <2>2. [kind |-> "task.failed", state |-> "failed", handle |-> None] \in LifecycleAppends
    BY DEF LifecycleAppends
  <2>3. /\ runner[t] \in {"start", "launching", "dispatching"} /\ runner' = [runner EXCEPT ![t] = "settled"]
        /\ RunnerSays(t, "task.failed", "failed", None)
    BY <1>6 DEF FailTask, Move
  <2>4. runner[t] \in Running /\ "settled" \notin Creating /\ Level(runner[t]) <= Level("settled")
    BY <2>3 DEF Running, Creating
  <2>5. Speaks(t) /\ Alone(t) /\ LogNext
    BY <2>1, <2>2, <2>3, <2>4, Speaking
  <2> QED  BY <2>5
<1>7. CASE Submit(t)
  <2>1. <<"submitted", "task.dispatching", "dispatching">> \in Script
    BY DEF Script
  <2>2. [kind |-> "task.dispatching", state |-> "dispatching", handle |-> "bound"] \in LifecycleAppends
    BY DEF LifecycleAppends
  <2>3. /\ runner[t] \in {"dispatching"} /\ runner' = [runner EXCEPT ![t] = "submitted"]
        /\ RunnerSays(t, "task.dispatching", "dispatching", "bound")
    BY <1>7 DEF Submit, Move
  <2>4. runner[t] \in Running /\ "submitted" \notin Creating /\ Level(runner[t]) <= Level("submitted")
    BY <2>3 DEF Running, Creating
  <2>5. Speaks(t) /\ Alone(t) /\ LogNext
    BY <2>1, <2>2, <2>3, <2>4, Speaking
  <2> QED  BY <2>5
<1>8. CASE StreamEvents(t)
  <2>1. /\ runner[t] = "submitted" /\ runner' = [runner EXCEPT ![t] = "streaming"]
        /\ ~Busy(t) /\ UNCHANGED <<logVars, request, crashes>>
    BY <1>8 DEF StreamEvents, Move, Busy, Idle
  <2>2. runner[t] \in Running /\ "streaming" \in Running \cup {"gone", "lost"}
    BY <2>1 DEF Running
  <2>3. Level(runner[t]) <= Level("streaming")
    BY <2>1
  <2> QED  BY <2>1, <2>2, <2>3, Walking
<1>9. CASE TakeError(t)
  <2>1. <<"settled", "task.failed", "failed">> \in Script
    BY DEF Script
  <2>2. [kind |-> "task.failed", state |-> "failed", handle |-> "bound"] \in LifecycleAppends
    BY DEF LifecycleAppends
  <2>3. /\ runner[t] \in {"streaming"} /\ runner' = [runner EXCEPT ![t] = "settled"]
        /\ RunnerSays(t, "task.failed", "failed", "bound")
    BY <1>9 DEF TakeError, Move
  <2>4. runner[t] \in Running /\ "settled" \notin Creating /\ Level(runner[t]) <= Level("settled")
    BY <2>3 DEF Running, Creating
  <2>5. Speaks(t) /\ Alone(t) /\ LogNext
    BY <2>1, <2>2, <2>3, <2>4, Speaking
  <2> QED  BY <2>5
<1>10. CASE TakeClose(t)
  <2>1. /\ runner[t] = "streaming" /\ runner' = [runner EXCEPT ![t] = "gone"]
        /\ ~Busy(t) /\ UNCHANGED <<logVars, request, crashes>>
    BY <1>10 DEF TakeClose, Move, Busy, Idle
  <2>2. runner[t] \in Running /\ "gone" \in Running \cup {"gone", "lost"}
    BY <2>1 DEF Running
  <2>3. Level(runner[t]) <= Level("gone")
    BY <2>1
  <2> QED  BY <2>1, <2>2, <2>3, Walking
<1>11. CASE TakeEvent(t)
  <2>1. PICK s : s = Head(stream[t].events)
    OBVIOUS
  <2>2. PICK to : to = IF s \in Terminal THEN "settled" ELSE "streaming"
    OBVIOUS
  <2>3. stream[t].events \in Seq(Reports \cup Outcomes) /\ stream[t].events # <<>>
    BY <1>11 DEF TakeEvent, LifeInv, StreamFits
  <2>4. s \in Reports \cup Outcomes
    BY <2>1, <2>3
  <2>5. s \in {"running", "awaiting_input"} \cup Terminal
    BY <2>4, LifecycleAssumption
  <2>6. <<to, KindOf(s), s>> \in Script
    BY <2>2, <2>5, ReportFits
  <2>7. [kind |-> KindOf(s), state |-> s, handle |-> "bound"] \in LifecycleAppends
    <3> DEFINE R == [kind |-> KindOf(s), state |-> s, handle |-> "bound"]
               S == [kind : {KindOf(s)}, state : {s}, handle : {"bound"}]
               All == {[kind : {KindOf(x)}, state : {x}, handle : {"bound"}] :
                         x \in Reports \cup Outcomes}
    <3>1. R \in S
      OBVIOUS
    <3>2. S \in All
      BY <2>4
    <3>3. UNION All \subseteq LifecycleAppends
      BY Zenon DEF LifecycleAppends
    <3> HIDE DEF R, S, All
    <3>4. R \in LifecycleAppends
      BY <3>1, <3>2, <3>3
    <3> QED  BY <3>4 DEF R
  <2>8. /\ runner[t] = "streaming" /\ runner' = [runner EXCEPT ![t] = to]
        /\ RunnerSays(t, KindOf(s), s, "bound")
    BY <1>11, <2>1, <2>2 DEF TakeEvent, Move
  <2>9. runner[t] \in Running /\ to \notin Creating /\ Level(runner[t]) <= Level(to)
    BY <2>2, <2>8 DEF Running, Creating
  <2>10. Speaks(t) /\ Alone(t) /\ LogNext
    BY <2>6, <2>7, <2>8, <2>9, Speaking
  <2> QED  BY <2>10
<1> QED
  BY <1>1, <1>2, <1>3, <1>4, <1>5, <1>6, <1>7, <1>8, <1>9, <1>10, <1>11 DEF RunTask

\* The adapter's end of the streams.
LEMMA Streams ==
  ASSUME LifeInv,
         \/ \E t \in Tasks, s \in Reports : Progress(t, s)
         \/ \E t \in Tasks : Ends(t)
  PROVE  UNCHANGED <<logVars, runner, request, crashes>>
BY DEF Progress, Ends, Outcome, Break, FallSilent

\* A task can only be loaded once its row exists.
LEMMA KnownExists ==
  ASSUME LifeInv, NEW t \in Tasks, Known(t)
  PROVE  status[t] # None
BY DEF LifeInv, RunnerFits, Known, Creating, Running

\* Another record for one request leaves the others alone.
LEMMA RequestSet ==
  ASSUME LifeInv, NEW r \in Requests, NEW q, request' = [request EXCEPT ![r] = q]
  PROVE  request'[r] = q /\ \A p \in Requests \ {r} : request'[p] = request[p]
BY DEF LifeInv, LifecycleTypeOK

\* CancelTask and ResumeTask.
LEMMA Serves ==
  ASSUME LifeInv, NEW r \in Requests, Serve(r)
  PROVE  /\ \A t \in Tasks : Idles(t)
         /\ \A p \in Requests \ {r} : Waits(p)
         /\ Loads(r) \/ IsAnswered(r) \/ Asks(r)
         /\ [LogNext]_logVars
<1>1. ASSUME NEW t \in Tasks, LoadForCancel(r, t) \/ LoadForResume(r, t)
      PROVE  /\ \A u \in Tasks : Idles(u)
             /\ \A p \in Requests \ {r} : Waits(p)
             /\ Loads(r)
             /\ [LogNext]_logVars
  <2>1. UNCHANGED <<logVars, runner, stream, crashes>> /\ Known(t)
    BY <1>1 DEF LoadForCancel, LoadForResume
  <2>2. PICK q : /\ request' = [request EXCEPT ![r] = q]
                 /\ q.at \in Served \cup {"loaded"}
                 /\ q.at = "loaded" /\ q.op = "cancel" => status[t] \notin Terminal
                 /\ q.at = "loaded" /\ q.op = "resume" => status[t] = "awaiting_input"
                 /\ q.op \in {"cancel", "resume"}
                 /\ q.task = t /\ q.seen = status[t] /\ q.handle = Rehydrate(t)
    <3>1. CASE LoadForCancel(r, t)
      <4> DEFINE q0 == [at |-> IF status[t] \in Terminal THEN "done" ELSE "loaded",
                        op |-> "cancel", task |-> t, seen |-> status[t],
                        handle |-> Rehydrate(t)]
      <4>1. request' = [request EXCEPT ![r] = q0]
        BY <3>1 DEF LoadForCancel
      <4>2. /\ q0.at \in Served \cup {"loaded"} /\ q0.op = "cancel" /\ q0.task = t
            /\ q0.seen = status[t] /\ q0.handle = Rehydrate(t)
        BY DEF Served
      <4>3. q0.at = "loaded" => status[t] \notin Terminal
        OBVIOUS
      <4> HIDE DEF q0
      <4> QED  BY <4>1, <4>2, <4>3
    <3>2. CASE LoadForResume(r, t)
      <4> DEFINE q0 == [at |-> IF status[t] = "awaiting_input" THEN "loaded" ELSE "refused",
                        op |-> "resume", task |-> t, seen |-> status[t],
                        handle |-> Rehydrate(t)]
      <4>1. request' = [request EXCEPT ![r] = q0]
        BY <3>2 DEF LoadForResume
      <4>2. /\ q0.at \in Served \cup {"loaded"} /\ q0.op = "resume" /\ q0.task = t
            /\ q0.seen = status[t] /\ q0.handle = Rehydrate(t)
        BY DEF Served
      <4>3. q0.at = "loaded" => status[t] = "awaiting_input"
        OBVIOUS
      <4> HIDE DEF q0
      <4> QED  BY <4>1, <4>2, <4>3
    <3> QED  BY <1>1, <3>1, <3>2
  <2>3. request'[r] = q /\ \A p \in Requests \ {r} : request'[p] = request[p]
    BY <2>2, RequestSet
  <2>4. Rehydrate(t) \in {"blank", "bound"}
    BY DEF Rehydrate, Bindings, LifeInv, LifecycleTypeOK, TypeOK
  <2>5. UNCHANGED <<status, log, turn, call>>
    BY <2>1 DEF logVars
  <2>6. "awaiting_input" \notin Terminal
    BY DEF Terminal
  <2>7. Loads(r)
    BY <2>1, <2>2, <2>3, <2>4, <2>5, <2>6, KnownExists DEF Loads
  <2>8. \A u \in Tasks : Idles(u)
    BY <2>1, <2>5 DEF Idles, Same, Rests
  <2>9. \A p \in Requests \ {r} : Waits(p)
    BY <2>3, <2>5 DEF Waits
  <2> QED  BY <2>1, <2>7, <2>8, <2>9
<1>2. CASE AdapterAccepts(r) \/ RequestRefused(r)
  <2>1. /\ UNCHANGED <<logVars, runner, stream, crashes>> /\ request[r].at = "loaded"
        /\ \/ request' = [request EXCEPT ![r].at = "accepted"]
           \/ request' = [request EXCEPT ![r].at = "refused"]
    BY <1>2 DEF AdapterAccepts, RequestRefused
  <2>2. UNCHANGED <<status, log, turn, call>>
    BY <2>1 DEF logVars
  <2>3. /\ request'[r].at \in {"accepted", "refused"}
        /\ request'[r].task = request[r].task /\ request'[r].op = request[r].op
        /\ request'[r].seen = request[r].seen /\ request'[r].handle = request[r].handle
        /\ \A p \in Requests \ {r} : request'[p] = request[p]
    BY <2>1 DEF LifeInv, LifecycleTypeOK
  <2>4. IsAnswered(r)
    BY <2>1, <2>2, <2>3 DEF IsAnswered
  <2>5. \A u \in Tasks : Idles(u)
    BY <2>1, <2>2 DEF Idles, Same, Rests
  <2>6. \A p \in Requests \ {r} : Waits(p)
    BY <2>2, <2>3 DEF Waits
  <2> QED  BY <2>1, <2>4, <2>5, <2>6
<1>3. CASE SayRequested(r)
  <2> DEFINE q == request[r]
  <2>1. /\ q.at = "accepted" /\ request' = [request EXCEPT ![r].at = "done"]
        /\ UNCHANGED <<runner, stream>>
    BY <1>3 DEF SayRequested
  <2>2. /\ q.task \in Tasks /\ status[q.task] # None
        /\ q.seen \in Statuses \ Terminal /\ q.handle \in {"blank", "bound"}
    BY <2>1 DEF LifeInv, RequestFits
  <2>3. PICK kind, state :
          /\ Say(r, q.task, kind, state, q.handle)
          /\ [kind |-> kind, state |-> state, handle |-> q.handle] \in LifecycleAppends
          /\ \/ kind = "task.cancel_requested" /\ state = q.seen
             \/ /\ q.op = "resume" /\ kind = "task.resume_requested"
                /\ state = "awaiting_input"
    <3>1. [kind |-> "task.cancel_requested", state |-> q.seen, handle |-> q.handle]
            \in LifecycleAppends
      <4> DEFINE R == [kind |-> "task.cancel_requested", state |-> q.seen, handle |-> q.handle]
                 S == [kind : {"task.cancel_requested"}, state : Statuses \ Terminal,
                       handle : {"blank", "bound"}]
      <4>1. R \in S
        BY <2>2
      <4>2. S \subseteq LifecycleAppends
        BY DEF LifecycleAppends
      <4> HIDE DEF S
      <4> QED  BY <4>1, <4>2
    <3>2. [kind |-> "task.resume_requested", state |-> "awaiting_input", handle |-> q.handle]
            \in LifecycleAppends
      <4> DEFINE R == [kind |-> "task.resume_requested", state |-> "awaiting_input", handle |-> q.handle]
                 S == [kind : {"task.resume_requested"}, state : {"awaiting_input"},
                       handle : {"blank", "bound"}]
      <4>1. R \in S
        BY <2>2
      <4>2. S \subseteq LifecycleAppends
        BY DEF LifecycleAppends
      <4> HIDE DEF S
      <4> QED  BY <4>1, <4>2
    <3> HIDE DEF q
    <3>3. \/ q.op = "cancel" /\ Say(r, q.task, "task.cancel_requested", q.seen, q.handle)
          \/ /\ q.op = "resume"
             /\ Say(r, q.task, "task.resume_requested", "awaiting_input", q.handle)
      BY <1>3 DEF SayRequested, q
    <3> QED  BY <3>1, <3>2, <3>3
  <2>4. r \in Writers /\ [kind |-> kind, state |-> state, handle |-> q.handle] \in Inputs
    BY <2>3, LifecycleAssumption DEF Writers
  <2>5. /\ call'[r].task = q.task
        /\ call'[r].event.kind = kind /\ call'[r].event.state = state
        /\ \A v \in Writers \ {r} : call'[v] = call[v]
        /\ UNCHANGED <<log, status, turn, crashes>>
        /\ LogNext
    BY <2>2, <2>3, <2>4, SayIs
  <2>6. /\ request'[r].at = "done"
        /\ \A p \in Requests \ {r} : request'[p] = request[p]
    BY <2>1 DEF LifeInv, LifecycleTypeOK
  <2>7. Asks(r)
    BY <2>1, <2>3, <2>5, <2>6 DEF Asks
  <2>8. \A u \in Tasks : Idles(u)
    BY <2>1, <2>5, WritersApart DEF Idles, Same, Rests
  <2>9. \A p \in Requests \ {r} : Waits(p)
    BY <2>5, <2>6 DEF Waits, Writers
  <2> QED  BY <2>5, <2>7, <2>8, <2>9
<1> QED  BY <1>1, <1>2, <1>3 DEF Serve

\* A step that leaves every table and call alone leaves every task alone.
LEMMA NothingMoves ==
  ASSUME UNCHANGED <<status, log, turn, call, runner, request, crashes>>
  PROVE  (\A t \in Tasks : Idles(t)) /\ (\A r \in Requests : Waits(r))
BY DEF Idles, Same, Rests, Waits

\* What an append under way belongs to: a goroutine writes of its own task.
LEMMA CallIsOf ==
  ASSUME LifeInv, NEW w \in Writers, Busy(w)
  PROVE  /\ call[w].task \in Tasks
         /\ w \in Tasks => call[w].task = w
         /\ w \in Requests => Requested(call[w].event)
<1>1. call[w].task \in Tasks
  BY CallIsCalling DEF LifeInv, LifecycleTypeOK, Busy
<1>2. w \in Tasks => call[w].task = w
  BY DEF LifeInv, RunnerFits
<1>3. w \in Requests => Requested(call[w].event)
  BY DEF LifeInv, RequestFits
<1> QED  BY <1>1, <1>2, <1>3

\* Moving the call of a writer on leaves the other calls alone.
LEMMA CallSet ==
  ASSUME TypeOK, NEW w \in Writers
  PROVE  /\ \A step : call' = [call EXCEPT ![w].step = step] /\ Busy(w) =>
              /\ call'[w].step = step /\ call'[w].task = call[w].task
              /\ call'[w].event = call[w].event
              /\ \A v \in Writers \ {w} : call'[v] = call[v]
         /\ \A c : call' = [call EXCEPT ![w] = c] =>
              /\ call'[w] = c
              /\ \A v \in Writers \ {w} : call'[v] = call[v]
<1>1. call \in [Writers -> Calling \cup Returned]
  BY DEF TypeOK
<1>2. Busy(w) => DOMAIN call[w] = {"step", "task", "event", "handle"}
  BY CallIsCalling DEF Calling, Busy
<1>3. ASSUME NEW step, call' = [call EXCEPT ![w].step = step], Busy(w)
      PROVE  /\ call'[w].step = step /\ call'[w].task = call[w].task
             /\ call'[w].event = call[w].event
             /\ \A v \in Writers \ {w} : call'[v] = call[v]
  BY <1>1, <1>2, <1>3
<1> QED  BY <1>1, <1>3

\* A commit.
LEMMA InsertSteps ==
  ASSUME LifeInv, NEW w \in Writers, Insert(w), UNCHANGED <<runner, request, crashes>>
  PROVE  /\ \A t \in Tasks : TaskSteps(t)
         /\ \A r \in Requests : RequestSteps(r)
<1> DEFINE u == call[w].task
           e == call[w].event
<1>1. call[w].step = "insert" /\ Busy(w) /\ TypeOK
  BY DEF Insert, Busy, LifeInv, LifecycleTypeOK
<1>2. /\ u \in Tasks
      /\ log' = [log EXCEPT ![u] = Append(log[u], e)]
      /\ DOMAIN log'[u] = 1..(Len(log[u]) + 1) /\ Len(log'[u]) = Len(log[u]) + 1
      /\ log'[u][Len(log[u]) + 1] = e
      /\ \A i \in DOMAIN log[u] : log'[u][i] = log[u][i]
  BY InsertIsNext DEF LifeInv, LogInv
<1>3. DOMAIN log[u] = 1..Len(log[u]) /\ Len(log[u]) \in Nat
  BY <1>1, <1>2 DEF TypeOK
<1>4. status' = [status EXCEPT ![u] = e.state] /\ UNCHANGED turn
      /\ call' = [call EXCEPT ![w].step = "turn"]
  BY DEF Insert
<1>5. status'[u] = e.state /\ \A t \in Tasks \ {u} : Same(t)
  BY <1>1, <1>2, <1>4 DEF TypeOK, Same
<1>6. /\ call'[w].step = "turn" /\ call'[w].task = u /\ call'[w].event = e
      /\ \A v \in Writers \ {w} : call'[v] = call[v]
  BY <1>1, <1>4, CallSet
<1> HIDE DEF e
<1>7. Extends(u, e)
  BY <1>2, <1>3, <1>5 DEF Extends
<1>8. CASE w \in Tasks
  <2>1. w = u
    BY <1>1, <1>8, CallIsOf
  <2>2. Commits(w)
    BY <1>1, <1>4, <1>6, <1>7, <2>1 DEF Commits, e
  <2>3. \A t \in Tasks \ {w} : Idles(t)
    BY <1>4, <1>5, <1>6, <2>1 DEF Idles, Rests, Writers
  <2>4. \A r \in Requests : Waits(r)
    BY <1>6, <1>8, WritersApart DEF Waits
  <2> QED  BY <2>2, <2>3, <2>4 DEF TaskSteps, RequestSteps
<1>9. CASE w \in Requests
  <2>1. \A t \in Tasks : Rests(t) /\ turn'[t] = turn[t] /\ crashes' = crashes
    BY <1>4, <1>6, <1>9, WritersApart DEF Rests
  <2>2. Asked(u)
    BY <1>1, <1>2, <1>7, <1>9, <2>1 DEF Asked, e
  <2>3. \A t \in Tasks \ {u} : Idles(t)
    BY <1>5, <2>1 DEF Idles
  <2>4. Advances(w)
    BY <1>1, <1>6 DEF Advances, e
  <2>5. \A r \in Requests \ {w} : Waits(r)
    BY <1>6 DEF Waits, Writers
  <2> QED  BY <2>2, <2>3, <2>4, <2>5 DEF TaskSteps, RequestSteps
<1> QED  BY <1>8, <1>9 DEF Writers

\* The turn is written.
LEMMA TurnSteps ==
  ASSUME LifeInv, NEW w \in Writers, UpdateTurn(w), UNCHANGED <<runner, request, crashes>>
  PROVE  /\ \A t \in Tasks : TaskSteps(t)
         /\ \A r \in Requests : RequestSteps(r)
<1> DEFINE u == call[w].task
           e == call[w].event
<1>1. call[w].step = "turn" /\ Busy(w) /\ TypeOK
  BY DEF UpdateTurn, Busy, LifeInv, LifecycleTypeOK
<1>2. u \in Tasks
  BY <1>1, CallIsOf
<1>3. /\ turn' = [turn EXCEPT ![u] = IF @ = None THEN None ELSE e.state]
      /\ call' = [call EXCEPT ![w].step = "publish"] /\ UNCHANGED <<status, log>>
  BY DEF UpdateTurn
<1>4. /\ call'[w].step = "publish" /\ call'[w].task = u /\ call'[w].event = e
      /\ \A v \in Writers \ {w} : call'[v] = call[v]
  BY <1>1, <1>3, CallSet
<1> HIDE DEF e
<1>5. /\ turn'[u] = IF turn[u] = None THEN None ELSE e.state
      /\ \A t \in Tasks \ {u} : turn'[t] = turn[t]
  BY <1>1, <1>2, <1>3 DEF TypeOK
<1>6. \A t \in Tasks : Same(t)
  BY <1>3 DEF Same
<1>7. CASE w \in Tasks
  <2>1. w = u
    BY <1>1, <1>7, CallIsOf
  <2>2. Follows(w)
    BY <1>1, <1>4, <1>5, <1>6, <1>7, <2>1 DEF Follows, e
  <2>3. \A t \in Tasks \ {w} : Idles(t)
    BY <1>4, <1>5, <1>6, <2>1 DEF Idles, Rests, Writers
  <2>4. \A r \in Requests : Waits(r)
    BY <1>4, <1>7, WritersApart DEF Waits
  <2> QED  BY <2>2, <2>3, <2>4 DEF TaskSteps, RequestSteps
<1>8. CASE w \in Requests
  <2>1. \A t \in Tasks : Rests(t)
    BY <1>4, <1>8, WritersApart DEF Rests
  <2>2. Requested(e) /\ e.seq \in 1..Len(log[u]) /\ log[u][e.seq] = e
    BY <1>1, <1>8, CallIsOf DEF LifeInv, LogInv, CallMatchesLog, e
  <2>3. DOMAIN log[u] = 1..Len(log[u])
    BY <1>1, <1>2 DEF TypeOK
  <2>4. ~NoRequestLogged(u)
    BY <2>2, <2>3 DEF NoRequestLogged, Requested
  <2>5. Echoes(u)
    BY <1>2, <1>5, <1>6, <2>1, <2>4 DEF Echoes
  <2>6. \A t \in Tasks \ {u} : Idles(t)
    BY <1>5, <1>6, <2>1 DEF Idles
  <2>7. Advances(w)
    BY <1>1, <1>4 DEF Advances, e
  <2>8. \A r \in Requests \ {w} : Waits(r)
    BY <1>4 DEF Waits, Writers
  <2> QED  BY <2>5, <2>6, <2>7, <2>8 DEF TaskSteps, RequestSteps
<1> QED  BY <1>7, <1>8 DEF Writers

\* The append returns.
LEMMA ReturnSteps ==
  ASSUME LifeInv, NEW w \in Writers,
         InsertConflict(w) \/ Publish(w) \/
           (ContextCancelled(w) /\ (w \in Tasks => runner[w] \in Creating)),
         UNCHANGED <<runner, request, crashes>>
  PROVE  /\ \A t \in Tasks : TaskSteps(t)
         /\ \A r \in Requests : RequestSteps(r)
<1>1. Busy(w) /\ TypeOK /\ UNCHANGED <<status, log, turn>>
  BY DEF InsertConflict, Publish, ContextCancelled, Busy, LifeInv, LifecycleTypeOK
<1>2. PICK step \in {"ok", "err"} : call' = [call EXCEPT ![w] = [step |-> step]]
  <2>1. \/ call' = [call EXCEPT ![w] = [step |-> "ok"]]
        \/ call' = [call EXCEPT ![w] = [step |-> "err"]]
    BY DEF InsertConflict, Publish, ContextCancelled
  <2> QED  BY <2>1
<1>3. /\ call'[w].step \in {"ok", "err"}
      /\ \A v \in Writers \ {w} : call'[v] = call[v]
  <2> DEFINE c == [step |-> step]
  <2>1. call' = [call EXCEPT ![w] = c] /\ c.step = step
    BY <1>2
  <2> HIDE DEF c
  <2> QED  BY <1>1, <2>1, CallSet
<1>4. \A t \in Tasks : Same(t)
  BY <1>1 DEF Same
<1>5. CASE w \in Tasks
  <2>1. \/ call[w].step = "publish" \/ runner[w] \in Creating
        \/ /\ call[w].step = "insert" /\ call[w].task = w
           /\ SeqTaken(w, call[w].event.seq)
    BY <1>1, <1>5, CallIsOf DEF InsertConflict, Publish
  <2>2. Returns(w)
    BY <1>1, <1>3, <1>4, <1>5, <2>1 DEF Returns
  <2>3. \A t \in Tasks \ {w} : Idles(t)
    BY <1>1, <1>3, <1>4 DEF Idles, Rests, Writers
  <2>4. \A r \in Requests : Waits(r)
    BY <1>3, <1>5, WritersApart DEF Waits
  <2> QED  BY <2>2, <2>3, <2>4 DEF TaskSteps, RequestSteps
<1>6. CASE w \in Requests
  <2>1. \A t \in Tasks : Idles(t)
    BY <1>1, <1>3, <1>4, <1>6, WritersApart DEF Idles, Rests
  <2>2. Advances(w)
    BY <1>3 DEF Advances
  <2>3. \A r \in Requests \ {w} : Waits(r)
    BY <1>3 DEF Waits, Writers
  <2> QED  BY <2>1, <2>2, <2>3 DEF TaskSteps, RequestSteps
<1> QED  BY <1>5, <1>6 DEF Writers

\* The process dies with all its goroutines.
LEMMA RestartSteps ==
  ASSUME LifeInv, Restart
  PROVE  /\ \A t \in Tasks : TaskSteps(t)
         /\ \A r \in Requests : RequestSteps(r)
<1>1. /\ crashes \in Nat /\ crashes' = crashes + 1
      /\ call' = [w \in Writers |-> [step |-> "err"]]
      /\ UNCHANGED <<status, log, turn>>
  BY LifecycleAssumption DEF Restart, Crash, LifeInv, LifecycleTypeOK
<1>2. \A w \in Writers : call'[w].step = "err"
  BY <1>1
<1>3. ASSUME NEW t \in Tasks
      PROVE  TaskSteps(t)
  <2>1. runner'[t] = (IF runner[t] \in Creating THEN "lost"
                      ELSE IF runner[t] \in Running THEN "gone" ELSE runner[t])
    BY DEF Restart
  <2>2. Dies(t)
    BY <1>1, <1>2, <2>1, WritersApart DEF Dies, Same
  <2> QED  BY <2>2 DEF TaskSteps
<1>4. ASSUME NEW r \in Requests
      PROVE  RequestSteps(r)
  <2>1. request'[r] = request[r] \/ request'[r].at = "refused"
    BY DEF Restart, LifeInv, LifecycleTypeOK
  <2>2. Advances(r)
    BY <1>2, <2>1 DEF Advances, Served, Writers
  <2> QED  BY <2>2 DEF RequestSteps
<1> QED  BY <1>3, <1>4

\* Every step is one of the steps above, for every task and every request, and
\* a step of the log.
LEMMA AllSteps ==
  ASSUME LifeInv, [Next]_vars
  PROVE  /\ \A t \in Tasks : TaskSteps(t)
         /\ \A r \in Requests : RequestSteps(r)
         /\ [LogNext]_logVars
<1>1. ASSUME UNCHANGED <<logVars, runner, request, crashes>>
      PROVE  /\ \A t \in Tasks : TaskSteps(t)
             /\ \A r \in Requests : RequestSteps(r)
             /\ [LogNext]_logVars
  <2>1. UNCHANGED <<status, log, turn, call, runner, request, crashes>>
    BY <1>1 DEF logVars
  <2>2. (\A t \in Tasks : Idles(t)) /\ (\A r \in Requests : Waits(r))
    BY <2>1, NothingMoves
  <2> QED  BY <1>1, <2>2 DEF TaskSteps, RequestSteps
<1>2. ASSUME NEW t \in Tasks, (CreateRow(t) \/ Create(t)) \/ (RuntimeUnresolved(t) \/ RunTask(t))
      PROVE  /\ \A u \in Tasks : TaskSteps(u)
             /\ \A r \in Requests : RequestSteps(r)
             /\ [LogNext]_logVars
  <2>1. (Appears(t) \/ Speaks(t) \/ Walks(t)) /\ Alone(t) /\ [LogNext]_logVars
    BY <1>2, Creates, Runs
  <2> QED  BY <2>1 DEF TaskSteps, RequestSteps, Alone
<1>3. ASSUME NEW r \in Requests, Serve(r)
      PROVE  /\ \A u \in Tasks : TaskSteps(u)
             /\ \A q \in Requests : RequestSteps(q)
             /\ [LogNext]_logVars
  BY <1>3, Serves DEF TaskSteps, RequestSteps
<1>4. ASSUME NEW w \in Writers, Appending(w) \/ ClientGone(w)
      PROVE  /\ \A u \in Tasks : TaskSteps(u)
             /\ \A q \in Requests : RequestSteps(q)
             /\ [LogNext]_logVars
  <2>1. UNCHANGED <<runner, request, crashes>>
    BY <1>4 DEF Appending, ClientGone
  <2>2. \/ Insert(w) \/ UpdateTurn(w)
        \/ InsertConflict(w) \/ Publish(w) \/
              (ContextCancelled(w) /\ (w \in Tasks => runner[w] \in Creating))
    BY <1>4 DEF Appending, ClientGone, AppendStep
  <2>3. LogNext
    BY <2>2 DEF LogNext, AppendStep
  <2> QED  BY <2>1, <2>2, <2>3, InsertSteps, TurnSteps, ReturnSteps
<1>5. CASE Restart
  BY <1>5, RestartSteps DEF Restart, LogNext
<1>6. CASE UNCHANGED vars
  BY <1>1, <1>6 DEF vars
<1>7. CASE \/ \E t \in Tasks, s \in Reports : Progress(t, s)
           \/ \E t \in Tasks : Ends(t)
  BY <1>1, <1>7, Streams
<1> QED  BY <1>2, <1>3, <1>4, <1>5, <1>6, <1>7 DEF Next

-----------------------------------------------------------------------------
(* What every step keeps *)

\* A log only grows, a row stays, and a pause is not forgotten.
LEMMA Persists ==
  ASSUME LifeInv, [Next]_vars, NEW t \in Tasks
  PROVE  /\ status[t] # None => status'[t] # None
         /\ Len(log[t]) \in Nat /\ DOMAIN log[t] = 1..Len(log[t])
         /\ \A i \in DOMAIN log[t] : i \in DOMAIN log'[t] /\ log'[t][i] = log[t][i]
         /\ Paused(t) => Paused(t)'
         /\ \A n \in Nat : PausedBy(t, n) => PausedBy(t, n)'
<1>1. TypeOK /\ SeqContiguous /\ CallMatchesLog /\ [LogNext]_logVars
  BY AllSteps DEF LifeInv, LogInv
<1>2. status[t] # None => status'[t] # None
  BY <1>1, RowStays
<1>3. Len(log[t]) \in Nat /\ DOMAIN log[t] = 1..Len(log[t])
  BY <1>1 DEF TypeOK
<1>4. \A i \in DOMAIN log[t] : i \in DOMAIN log'[t] /\ log'[t][i] = log[t][i]
  BY <1>1, LogGrows
<1>5. Paused(t) => Paused(t)'
  BY <1>4 DEF Paused
<1>6. \A n \in Nat : PausedBy(t, n) => PausedBy(t, n)'
  BY <1>4 DEF PausedBy
<1> QED  BY <1>2, <1>3, <1>4, <1>5, <1>6

\* A goroutine says nothing before CreateTask has begun.
LEMMA NewIsSilent ==
  ASSUME LifeInv, NEW t \in Tasks
  PROVE  runner[t] = "new" => ~Busy(t)
<1>1. \A e : ~Scripted(e, "new")
  BY DEF Scripted, Script
<1> QED  BY <1>1 DEF LifeInv, RunnerFits

\* A goroutine never goes back.
LEMMA LevelsRise ==
  ASSUME NEW t \in Tasks, TaskSteps(t)
  PROVE  Level(runner[t]) <= Level(runner'[t])
<1>1. Level(runner[t]) \in 0..8 /\ Level(runner'[t]) \in 0..8
  BY LevelIsNumber
<1>2. CASE runner'[t] = runner[t]
  BY <1>1, <1>2
<1>3. CASE Appears(t)
  BY <1>3, LevelsAre DEF Appears
<1>4. CASE Speaks(t) \/ Walks(t)
  BY <1>4 DEF Speaks, Walks
<1>5. CASE runner'[t] \in {"gone", "lost"}
  BY <1>1, <1>5, LevelsAre
<1> QED
  BY <1>2, <1>3, <1>4, <1>5 DEF TaskSteps, Idles, Rests, Commits, Asked, Follows,
     Returns, Echoes, Dies

\* The label of a goroutine goes with its append.
LEMMA RunnerStep ==
  ASSUME LifeInv, [Next]_vars, NEW t \in Tasks
  PROVE  RunnerFits(t)'
<1>1. TaskSteps(t) /\ RunnerFits(t)
  BY AllSteps DEF LifeInv
<1>2. status[t] # None => status'[t] # None
  BY Persists
<1>3. None \notin Statuses
  BY DEF None, Statuses, Terminal
<1>4. CASE Idles(t)
  BY <1>1, <1>4 DEF RunnerFits, Idles, Same, Rests, Busy
<1>5. CASE Appears(t)
  <2>1. ~Busy(t) /\ call'[t] = call[t] /\ runner'[t] = "inserted" /\ status'[t] = "created"
    BY <1>5, NewIsSilent DEF Appears
  <2>2. turn'[t] = None
    BY <1>1, <1>5 DEF RunnerFits, Appears
  <2>3. status'[t] # None
    BY <2>1 DEF None
  <2> QED  BY <2>1, <2>2, <2>3 DEF RunnerFits, Busy
<1>6. CASE Speaks(t)
  <2>1. Scripted(call'[t].event, runner'[t]) /\ call'[t].task = t
    BY <1>6 DEF Speaks
  <2>2. runner'[t] # "new"
    BY <2>1 DEF Scripted, Script
  <2>3. status'[t] # None
    BY <1>1, <1>2, <1>6 DEF RunnerFits, Speaks, Creating, Running
  <2>4. runner'[t] \in Creating => turn'[t] = None
    BY <1>1, <1>6 DEF RunnerFits, Speaks
  <2> QED  BY <2>1, <2>2, <2>3, <2>4 DEF RunnerFits
<1>7. CASE Walks(t)
  <2>1. ~Busy(t) /\ call'[t] = call[t] /\ runner'[t] \in Running \cup {"gone", "lost"}
    BY <1>7 DEF Walks
  <2>2. status'[t] # None
    BY <1>1, <1>2, <1>7 DEF RunnerFits, Walks, Creating, Running
  <2>3. runner'[t] \notin {"new"} \cup Creating
    BY <2>1 DEF Creating, Running
  <2> QED  BY <2>1, <2>2, <2>3 DEF RunnerFits, Busy
<1>8. CASE Commits(t)
  BY <1>1, <1>2, <1>8 DEF RunnerFits, Commits, Busy
<1>9. CASE Asked(t)
  BY <1>1, <1>2, <1>9 DEF RunnerFits, Asked, Rests, Busy
<1>10. CASE Follows(t)
  BY <1>1, <1>2, <1>10 DEF RunnerFits, Follows, Busy
<1>11. CASE Returns(t)
  BY <1>1, <1>2, <1>11 DEF RunnerFits, Returns, Busy
<1>12. CASE Echoes(t)
  BY <1>1, <1>2, <1>12 DEF RunnerFits, Echoes, Rests, Busy
<1>13. CASE Dies(t)
  BY <1>1, <1>2, <1>13 DEF RunnerFits, Dies, Busy, Creating, Running
<1> QED
  BY <1>1, <1>4, <1>5, <1>6, <1>7, <1>8, <1>9, <1>10, <1>11, <1>12, <1>13 DEF TaskSteps

\* An event in the log stays accounted for, and an outcome keeps the goroutine quiet.
LEMMA OldEventFits ==
  ASSUME LifeInv, [Next]_vars, NEW t \in Tasks, NEW i \in DOMAIN log[t]
  PROVE  LET e == log[t][i]
         IN /\ \/ Requested(e)
               \/ \E at \in Runner : Scripted(e, at) /\ Level(at) <= Level(runner'[t])
            /\ e.state \in Terminal => runner'[t] = "settled" /\ call'[t].step # "insert"
            /\ e.state = "awaiting_input" => PausedBy(t, i)'
<1> DEFINE e == log[t][i]
<1>1. TaskSteps(t)
  BY AllSteps
<1>2. /\ \/ Requested(e)
         \/ \E at \in Runner : Scripted(e, at) /\ Level(at) <= Level(runner[t])
      /\ e.state \in Terminal => runner[t] = "settled" /\ call[t].step # "insert"
      /\ e.state = "awaiting_input" => PausedBy(t, i)
  BY DEF LifeInv, EventsFit
<1>3. i \in Nat
  BY Persists
<1>4. e.state = "awaiting_input" => PausedBy(t, i)'
  BY <1>2, <1>3, Persists
<1>5. \/ Requested(e)
      \/ \E at \in Runner : Scripted(e, at) /\ Level(at) <= Level(runner'[t])
  <2>1. Level(runner[t]) \in 0..8 /\ Level(runner'[t]) \in 0..8
    BY LevelIsNumber
  <2>2. \A at : Level(at) <= Level(runner[t]) => Level(at) <= Level(runner'[t])
    BY <1>1, <2>1, LevelsRise, LevelIsNumber
  <2> QED  BY <1>2, <2>2
<1>6. ASSUME runner[t] = "settled", call[t].step # "insert"
      PROVE  runner'[t] = "settled" /\ call'[t].step # "insert"
  <2>1. "settled" # "new" /\ "settled" \notin Creating \cup Running
    BY DEF Creating, Running
  <2>2. ~Appears(t) /\ ~Speaks(t) /\ ~Walks(t)
    BY <1>6, <2>1 DEF Appears, Speaks, Walks
  <2> QED
    BY <1>1, <1>6, <2>1, <2>2 DEF TaskSteps, Idles, Rests, Commits, Asked, Follows,
       Returns, Echoes, Dies
<1> QED  BY <1>2, <1>4, <1>5, <1>6

\* The event a step commits, if it commits one.
LEMMA Committed ==
  ASSUME LifeInv, [Next]_vars, NEW t \in Tasks
  PROVE  \/ log'[t] = log[t]
         \/ Commits(t)
         \/ Asked(t)
<1>1. TaskSteps(t)
  BY AllSteps
<1> QED
  BY <1>1 DEF TaskSteps, Same, Idles, Appears, Speaks, Walks, Follows, Returns, Echoes, Dies

\* What a request commits is a request's event.
LEMMA AskedIs ==
  ASSUME LifeInv, NEW t \in Tasks, Asked(t)
  PROVE  \E e : /\ Extends(t, e) /\ Requested(e)
                /\ e.state = "awaiting_input" => Paused(t)
<1>1. PICK r \in Requests : /\ call[r].step = "insert" /\ call[r].task = t
                            /\ Extends(t, call[r].event)
  BY DEF Asked
<1>2. /\ Requested(call[r].event)
      /\ call[r].event.state = "awaiting_input" => Paused(t)
  BY <1>1 DEF LifeInv, RequestFits, Busy
<1> QED  BY <1>1, <1>2

\* What a goroutine commits is what its label says.
LEMMA CommitsIs ==
  ASSUME LifeInv, NEW t \in Tasks, Commits(t)
  PROVE  /\ Scripted(call[t].event, runner[t])
         /\ runner[t] \in Runner /\ call[t].event.kind \notin RequestKinds
         /\ Stage(call[t].event.kind) = Level(runner[t]) /\ Level(runner[t]) \in 1..8
         /\ call[t].event.state \in Terminal <=> runner[t] = "settled"
         /\ call[t].event.state = "awaiting_input" =>
              call[t].event.kind = "task.awaiting_input"
         /\ runner[t] \in Creating => call[t].event.state = "created"
<1>1. Scripted(call[t].event, runner[t])
  BY DEF LifeInv, RunnerFits, Commits, Busy
<1> QED  BY <1>1, ScriptFits DEF Scripted

\* Everything in a log stays accounted for.
LEMMA EventsStep ==
  ASSUME LifeInv, [Next]_vars, NEW t \in Tasks
  PROVE  EventsFit(t)'
<1>0. PICK n : n = Len(log[t])
  OBVIOUS
<1> DEFINE Fits(e, i) ==
             /\ \/ Requested(e)
                \/ \E at \in Runner : Scripted(e, at) /\ Level(at) <= Level(runner'[t])
             /\ e.state \in Terminal => runner'[t] = "settled" /\ call'[t].step # "insert"
             /\ e.state = "awaiting_input" => PausedBy(t, i)'
<1>1. \A i \in DOMAIN log[t] : Fits(log[t][i], i)
  BY OldEventFits
<1>2. n \in Nat /\ DOMAIN log[t] = 1..n
  BY <1>0, Persists
<1>3. CASE log'[t] = log[t]
  BY <1>1, <1>3 DEF EventsFit
<1>4. ASSUME NEW e, Extends(t, e), Fits(e, n + 1)
      PROVE  EventsFit(t)'
  <2>1. /\ DOMAIN log'[t] = 1..(n + 1) /\ log'[t][n + 1] = e
        /\ \A i \in DOMAIN log[t] : log'[t][i] = log[t][i]
    BY <1>0, <1>4 DEF Extends
  <2>2. \A i \in DOMAIN log'[t] : i \in DOMAIN log[t] \/ i = n + 1
    BY <1>2, <2>1
  <2> HIDE DEF Fits
  <2>3. \A i \in DOMAIN log'[t] : Fits(log'[t][i], i)
    BY <1>1, <1>4, <2>1, <2>2
  <2> QED  BY <2>3 DEF EventsFit, Fits
<1>5. CASE Asked(t)
  <2>1. PICK e : /\ Extends(t, e) /\ Requested(e)
                 /\ e.state = "awaiting_input" => Paused(t)
    BY <1>5, AskedIs
  <2>2. Paused(t) => PausedBy(t, n)
    BY <1>2 DEF Paused, PausedBy
  <2>3. PausedBy(t, n) => PausedBy(t, n)'
    BY <1>2, Persists
  <2>4. PausedBy(t, n)' => PausedBy(t, n + 1)'
    <3>1. \A i \in 1..n : i \in 1..(n + 1)
      BY <1>2
    <3> QED  BY <3>1 DEF PausedBy
  <2> QED  BY <1>4, <2>1, <2>2, <2>3, <2>4 DEF Requested
<1>6. CASE Commits(t)
  <2>1. PICK e : e = call[t].event
    OBVIOUS
  <2>2. /\ Extends(t, e) /\ runner'[t] = runner[t] /\ call'[t].step = "turn"
        /\ Scripted(e, runner[t]) /\ runner[t] \in Runner
        /\ e.state \in Terminal => runner[t] = "settled"
        /\ e.state = "awaiting_input" => e.kind = "task.awaiting_input"
    BY <1>6, <2>1, CommitsIs DEF Commits
  <2>3. Level(runner[t]) <= Level(runner'[t])
    BY <2>2, LevelIsNumber
  <2>4. PICK m : m = n + 1
    OBVIOUS
  <2>5. m \in 1..m /\ m \in DOMAIN log'[t] /\ log'[t][m] = e
    BY <1>0, <1>2, <2>2, <2>4 DEF Extends
  <2>6. e.state = "awaiting_input" => PausedBy(t, m)'
    BY <2>2, <2>5 DEF PausedBy
  <2>7. Fits(e, m)
    BY <2>2, <2>3, <2>6
  <2> QED  BY <1>4, <2>2, <2>4, <2>7
<1> QED  BY <1>3, <1>5, <1>6, Committed

\* The goroutine is not behind what it has committed, and said its outcome last.
LEMMA SaidBefore ==
  ASSUME LifeInv, NEW t \in Tasks, NEW i \in DOMAIN log[t],
         log[t][i].kind \notin RequestKinds
  PROVE  /\ Stage(log[t][i].kind) \in 1..8
         /\ Stage(log[t][i].kind) <= Level(runner[t])
         /\ Stage(log[t][i].kind) = 8 => runner[t] = "settled" /\ call[t].step # "insert"
<1>1. PICK at \in Runner : Scripted(log[t][i], at) /\ Level(at) <= Level(runner[t])
  BY DEF LifeInv, EventsFit, Requested
<1>2. log[t][i].state \in Terminal => runner[t] = "settled" /\ call[t].step # "insert"
  BY DEF LifeInv, EventsFit
<1>3. /\ Stage(log[t][i].kind) = Level(at) /\ Level(at) \in 1..8
      /\ log[t][i].state \in Terminal <=> at = "settled"
      /\ Level(at) = 8 <=> at = "settled"
  BY <1>1, ScriptFits DEF Scripted
<1> QED  BY <1>1, <1>2, <1>3

\* The log of a task never goes back.
LEMMA OrderStep ==
  ASSUME LifeInv, [Next]_vars, NEW t \in Tasks
  PROVE  OrderFits(t)'
<1>0. PICK n : n = Len(log[t])
  OBVIOUS
<1> DEFINE Before(a, b) == Stage(a.kind) <= Stage(b.kind) /\ Stage(a.kind) < 8
<1>1. n \in Nat /\ DOMAIN log[t] = 1..n
  BY <1>0, Persists
<1>2. /\ \A i, j \in DOMAIN log[t] :
           i < j /\ log[t][i].kind \notin RequestKinds /\ log[t][j].kind \notin RequestKinds =>
             Before(log[t][i], log[t][j])
      /\ call[t].step = "insert" =>
           \A i \in DOMAIN log[t] : log[t][i].kind \notin RequestKinds =>
             Before(log[t][i], call[t].event)
  BY DEF LifeInv, OrderFits
<1>3. TaskSteps(t)
  BY AllSteps
<1>4. \A i, j \in DOMAIN log'[t] :
        i < j /\ log'[t][i].kind \notin RequestKinds /\ log'[t][j].kind \notin RequestKinds =>
          Before(log'[t][i], log'[t][j])
  <2>1. CASE log'[t] = log[t]
    BY <1>2, <2>1
  <2>2. ASSUME NEW e, Extends(t, e),
               \/ e.kind \in RequestKinds
               \/ \A i \in DOMAIN log[t] : log[t][i].kind \notin RequestKinds =>
                    Before(log[t][i], e)
        PROVE  \A i, j \in DOMAIN log'[t] :
                 i < j /\ log'[t][i].kind \notin RequestKinds
                   /\ log'[t][j].kind \notin RequestKinds =>
                   Before(log'[t][i], log'[t][j])
    <3>1. /\ DOMAIN log'[t] = 1..(n + 1) /\ log'[t][n + 1] = e
          /\ \A i \in 1..n : log'[t][i] = log[t][i]
      BY <1>0, <1>1, <2>2 DEF Extends
    <3> HIDE DEF Before
    <3> SUFFICES ASSUME NEW i \in 1..(n + 1), NEW j \in 1..(n + 1), i < j,
                        log'[t][i].kind \notin RequestKinds,
                        log'[t][j].kind \notin RequestKinds
                 PROVE  Before(log'[t][i], log'[t][j])
      BY <3>1
    <3>2. i \in 1..n /\ log'[t][i] = log[t][i]
      BY <1>1, <3>1
    <3>3. CASE j \in 1..n
      BY <1>1, <1>2, <3>1, <3>2, <3>3
    <3>4. CASE j = n + 1
      BY <1>1, <2>2, <3>1, <3>2, <3>4
    <3> QED  BY <1>1, <3>3, <3>4
  <2>3. CASE Asked(t)
    <3>1. PICK e : Extends(t, e) /\ e.kind \in RequestKinds
      BY <2>3, AskedIs DEF Requested
    <3> QED  BY <2>2, <3>1
  <2>4. CASE Commits(t)
    BY <1>2, <2>2, <2>4 DEF Commits
  <2> QED  BY <2>1, <2>3, <2>4, Committed
<1>5. ASSUME call'[t].step = "insert", NEW i \in DOMAIN log'[t],
             log'[t][i].kind \notin RequestKinds
      PROVE  Before(log'[t][i], call'[t].event)
  <2>1. CASE Speaks(t)
    <3>1. /\ log'[t] = log[t] /\ Scripted(call'[t].event, runner'[t])
          /\ Level(runner[t]) <= Level(runner'[t])
          /\ runner[t] \in Creating \cup Running
      BY <2>1 DEF Speaks, Same
    <3>2. Stage(call'[t].event.kind) = Level(runner'[t])
      BY <3>1, ScriptFits DEF Scripted
    <3>3. runner[t] # "settled"
      BY <3>1 DEF Creating, Running
    <3>4. /\ Stage(log[t][i].kind) \in 1..8 /\ Stage(log[t][i].kind) <= Level(runner[t])
          /\ Stage(log[t][i].kind) # 8
      BY <1>5, <3>1, <3>3, SaidBefore
    <3>5. Level(runner[t]) \in 0..8 /\ Level(runner'[t]) \in 0..8
      BY LevelIsNumber
    <3> QED  BY <3>1, <3>2, <3>4, <3>5
  <2>2. CASE call'[t] = call[t] /\ log'[t] = log[t]
    BY <1>2, <1>5, <2>2
  <2>3. CASE Asked(t)
    <3>1. PICK e : Extends(t, e) /\ e.kind \in RequestKinds
      BY <2>3, AskedIs DEF Requested
    <3>2. /\ DOMAIN log'[t] = 1..(n + 1) /\ log'[t][n + 1] = e
          /\ \A k \in 1..n : log'[t][k] = log[t][k]
      BY <1>0, <1>1, <3>1 DEF Extends
    <3>3. i \in DOMAIN log[t] /\ log'[t][i] = log[t][i]
      BY <1>1, <1>5, <3>1, <3>2
    <3>4. call'[t] = call[t]
      BY <2>3 DEF Asked, Rests
    <3> HIDE DEF Before
    <3> QED  BY <1>2, <1>5, <3>3, <3>4
  <2> QED
    BY <1>3, <1>5, <2>1, <2>2, <2>3 DEF TaskSteps, Idles, Same, Rests, Appears, Walks,
       Commits, Follows, Returns, Echoes, Dies
<1> QED  BY <1>4, <1>5 DEF OrderFits

\* Undisturbed, the goroutine keeps row and turn together.
LEMMA KeptStep ==
  ASSUME LifeInv, [Next]_vars, NEW t \in Tasks
  PROVE  KeptFits(t)'
<1> DEFINE Kept ==
      /\ call'[t].step = "insert" => call'[t].event.seq = Len(log'[t]) + 1
      /\ call'[t].step = "turn" => call'[t].event.state = status'[t]
      /\ runner'[t] \in Creating => status'[t] = "created"
      /\ runner'[t] = "settled" =>
           \/ status'[t] \in Terminal
           \/ (call'[t].step = "insert" /\ call'[t].event.state \in Terminal)
      /\ turn'[t] # None /\ call'[t].step # "turn" => turn'[t] = status'[t]
<1> SUFFICES ASSUME crashes' = 0, NoRequestLogged(t)'
             PROVE  Kept
  BY DEF KeptFits
<1>1. TaskSteps(t)
  BY AllSteps
<1>2. NoRequestLogged(t)
  BY Persists DEF NoRequestLogged
<1>3. ASSUME ~Dies(t)
      PROVE  crashes = 0
  BY <1>1, <1>3 DEF TaskSteps, Idles, Appears, Speaks, Walks, Commits, Asked, Follows,
     Returns, Echoes
<1>4. ~Dies(t)
  BY DEF Dies
<1>5. /\ call[t].step = "insert" => call[t].event.seq = Len(log[t]) + 1
      /\ call[t].step = "turn" => call[t].event.state = status[t]
      /\ runner[t] \in Creating => status[t] = "created"
      /\ runner[t] = "settled" =>
           \/ status[t] \in Terminal
           \/ (call[t].step = "insert" /\ call[t].event.state \in Terminal)
      /\ turn[t] # None /\ call[t].step # "turn" => turn[t] = status[t]
  BY <1>2, <1>3, <1>4 DEF LifeInv, KeptFits
<1>6. runner[t] \in {"new"} \cup Creating => turn[t] = None
  BY DEF LifeInv, RunnerFits
<1>7. CASE Idles(t)
  BY <1>5, <1>7 DEF Idles, Same, Rests
<1>8. CASE Appears(t)
  BY <1>6, <1>8, NewIsSilent DEF Appears, Busy
<1>9. CASE Speaks(t)
  <2>1. call'[t].event.state \in Terminal <=> runner'[t] = "settled"
    BY <1>9, ScriptFits DEF Speaks, Scripted
  <2> QED  BY <1>5, <1>9, <2>1 DEF Speaks, Same, Busy
<1>10. CASE Walks(t)
  BY <1>5, <1>10 DEF Walks, Same, Busy, Running, Creating
<1>11. CASE Commits(t)
  BY <1>11, CommitsIs DEF Commits, Extends
<1>12. ~Asked(t)
  <2>1. ASSUME Asked(t)
        PROVE  FALSE
    <3>1. PICK e : Extends(t, e) /\ e.kind \in RequestKinds
      BY <2>1, AskedIs DEF Requested
    <3>2. Len(log[t]) + 1 \in DOMAIN log'[t] /\ log'[t][Len(log[t]) + 1] = e
      BY <3>1 DEF Extends
    <3> QED  BY <3>1, <3>2 DEF NoRequestLogged
  <2> QED  BY <2>1
<1>13. CASE Follows(t)
  BY <1>5, <1>13 DEF Follows, Same
<1>14. CASE Returns(t)
  <2>1. ~(call[t].step = "insert" /\ SeqTaken(t, call[t].event.seq))
    <3>1. ASSUME call[t].step = "insert", SeqTaken(t, call[t].event.seq)
          PROVE  FALSE
      <4>1. PICK i \in DOMAIN log[t] : log[t][i].seq = Len(log[t]) + 1
        BY <1>5, <3>1 DEF SeqTaken
      <4>2. log[t][i].seq = i
        BY DEF LifeInv, LogInv, SeqContiguous
      <4> QED  BY <4>1, <4>2, Persists
    <3> QED  BY <3>1
  <2>2. call[t].step = "publish" \/ runner[t] \in Creating
    BY <1>14, <2>1 DEF Returns
  <2>3. "settled" \notin Creating
    BY DEF Creating
  <2> QED  BY <1>5, <1>6, <1>14, <2>2, <2>3 DEF Returns, Same
<1>15. ~Echoes(t)
  BY <1>2 DEF Echoes
<1> QED
  BY <1>1, <1>4, <1>7, <1>8, <1>9, <1>10, <1>11, <1>12, <1>13, <1>14, <1>15 DEF TaskSteps

\* A handler goes on only with what it may go on with.
LEMMA RequestStep ==
  ASSUME LifeInv, [Next]_vars, NEW r \in Requests
  PROVE  RequestFits(r)'
<1> DEFINE Ready(q, c) ==
      /\ q.at \in {"loaded", "accepted"} =>
           /\ q.task \in Tasks /\ status'[q.task] # None /\ q.op \in {"cancel", "resume"}
           /\ q.seen \in Statuses \ Terminal /\ q.handle \in {"blank", "bound"}
           /\ q.op = "resume" => q.seen = "awaiting_input"
           /\ q.seen = "awaiting_input" => Paused(q.task)'
      /\ c.step \in {"insert", "turn", "publish"} =>
           /\ Requested(c.event)
           /\ c.event.state = "awaiting_input" => Paused(c.task)'
<1>1. RequestSteps(r) /\ [LogNext]_logVars
  BY AllSteps
<1>2. /\ request[r].at \in {"loaded", "accepted"} =>
           /\ request[r].task \in Tasks /\ status[request[r].task] # None
           /\ request[r].op \in {"cancel", "resume"}
           /\ request[r].seen \in Statuses \ Terminal
           /\ request[r].handle \in {"blank", "bound"}
           /\ request[r].op = "resume" => request[r].seen = "awaiting_input"
           /\ request[r].seen = "awaiting_input" => Paused(request[r].task)
      /\ Busy(r) => /\ Requested(call[r].event)
                    /\ call[r].event.state = "awaiting_input" => Paused(call[r].task)
  BY DEF LifeInv, RequestFits
<1>3. PICK q : q = request[r]
  OBVIOUS
<1>4. PICK c : c = call[r]
  OBVIOUS
<1>5. Busy(r) => c.task \in Tasks
  BY <1>4, CallIsOf DEF Writers
<1>6. q.at \in {"loaded", "accepted"} =>
        /\ q.task \in Tasks /\ status'[q.task] # None /\ q.op \in {"cancel", "resume"}
        /\ q.seen \in Statuses \ Terminal /\ q.handle \in {"blank", "bound"}
        /\ q.op = "resume" => q.seen = "awaiting_input"
        /\ q.seen = "awaiting_input" => Paused(q.task)'
  BY <1>2, <1>3, Persists
<1>7. Busy(r) => /\ Requested(c.event)
                 /\ c.event.state = "awaiting_input" => Paused(c.task)'
  BY <1>2, <1>4, <1>5, Persists
<1>8. PICK q1 : q1 = request'[r]
  OBVIOUS
<1>9. PICK c1 : c1 = call'[r]
  OBVIOUS
<1>10. ASSUME Ready(q1, c1)
       PROVE  RequestFits(r)'
  BY <1>8, <1>9, <1>10 DEF RequestFits, Busy
<1>11. CASE Waits(r)
  <2>1. q1 = q /\ c1 = c
    BY <1>3, <1>4, <1>8, <1>9, <1>11 DEF Waits
  <2> QED  BY <1>4, <1>6, <1>7, <1>10, <2>1 DEF Busy
<1>12. CASE Loads(r)
  <2>1. /\ c1 = c
        /\ q1.at \in Served \cup {"loaded"}
        /\ q1.at = "loaded" =>
             /\ q1.task \in Tasks /\ q1.op \in {"cancel", "resume"}
             /\ status[q1.task] # None /\ status[q1.task] \notin Terminal
             /\ q1.seen = status[q1.task] /\ q1.handle \in {"blank", "bound"}
             /\ q1.op = "resume" => q1.seen = "awaiting_input"
    BY <1>4, <1>8, <1>9, <1>12 DEF Loads
  <2>2. ASSUME NEW t \in Tasks, status[t] = "awaiting_input"
        PROVE  Paused(t)
    <3>1. log[t] # <<>> /\ log[t][Len(log[t])].state = "awaiting_input"
      BY <2>2 DEF LifeInv, LogInv, RowMatchesLog, LastState, None
    <3>2. Len(log[t]) \in DOMAIN log[t]
      BY <3>1 DEF LifeInv, LifecycleTypeOK, TypeOK
    <3>3. PausedBy(t, Len(log[t]))
      BY <3>1, <3>2 DEF LifeInv, EventsFit
    <3> QED  BY <3>3 DEF PausedBy, Paused
  <2>3. q1.at \in {"loaded", "accepted"} =>
          /\ q1.task \in Tasks /\ status'[q1.task] # None
          /\ q1.op \in {"cancel", "resume"}
          /\ q1.seen \in Statuses \ Terminal /\ q1.handle \in {"blank", "bound"}
          /\ q1.op = "resume" => q1.seen = "awaiting_input"
          /\ q1.seen = "awaiting_input" => Paused(q1.task)'
    <3>1. "accepted" \notin Served
      BY DEF Served
    <3>2. q1.at = "loaded" => status[q1.task] \in Statuses
      BY <2>1 DEF LifeInv, LifecycleTypeOK, TypeOK
    <3> QED  BY <2>1, <2>2, <3>1, <3>2, Persists
  <2> QED  BY <1>4, <1>7, <1>10, <2>1, <2>3 DEF Busy
<1>13. CASE IsAnswered(r)
  <2>1. /\ c1 = c /\ q.at = "loaded" /\ q1.task = q.task /\ q1.op = q.op
        /\ q1.seen = q.seen /\ q1.handle = q.handle
    BY <1>3, <1>4, <1>8, <1>9, <1>13 DEF IsAnswered
  <2> QED  BY <1>4, <1>6, <1>7, <1>10, <2>1 DEF Busy
<1>14. CASE Asks(r)
  <2>1. /\ q.at = "accepted" /\ q1.at = "done" /\ c1.task = q.task
        /\ \/ c1.event.kind = "task.cancel_requested" /\ c1.event.state = q.seen
           \/ /\ q.op = "resume" /\ c1.event.kind = "task.resume_requested"
              /\ c1.event.state = "awaiting_input"
    BY <1>3, <1>8, <1>9, <1>14 DEF Asks
  <2>2. Requested(c1.event)
    BY <1>6, <2>1 DEF Requested, RequestKinds, Terminal
  <2>3. c1.event.state = "awaiting_input" => Paused(c1.task)'
    BY <1>6, <2>1
  <2> QED  BY <1>10, <2>1, <2>2, <2>3
<1>15. CASE Advances(r)
  <2>1. /\ q1 = q \/ q1.at \in Served
        /\ \/ c1.step \in {"ok", "err"}
           \/ Busy(r) /\ c1.task = c.task /\ c1.event = c.event
    BY <1>3, <1>4, <1>8, <1>9, <1>15 DEF Advances
  <2>2. q1.at \in Served => q1.at \notin {"loaded", "accepted"}
    BY DEF Served
  <2> QED  BY <1>6, <1>7, <1>10, <2>1, <2>2
<1> QED  BY <1>1, <1>11, <1>12, <1>13, <1>14, <1>15 DEF RequestSteps

\* The type of a stream and of a request.
StreamType == [events : Seq(Statuses), failed : BOOLEAN, open : BOOLEAN, sent : 0..MaxProgress]
RequestType == [at : Served \cup {"loaded", "accepted"}, op : {None, "cancel", "resume"},
                task : Tasks \cup {None}, seen : Statuses \cup {None}, handle : Bindings]

\* Another value for one stream.
LEMMA StreamSet ==
  ASSUME LifeInv, NEW t \in Tasks, NEW x \in StreamType,
         x.events \in Seq(Reports \cup Outcomes),
         stream' = [stream EXCEPT ![t] = x]
  PROVE  stream' \in [Tasks -> StreamType] /\ \A u \in Tasks : StreamFits(u)'
<1>1. stream \in [Tasks -> StreamType]
  BY DEF LifeInv, LifecycleTypeOK, StreamType
<1>2. stream' \in [Tasks -> StreamType]
  BY <1>1
<1>3. stream'[t] = x /\ \A u \in Tasks \ {t} : stream'[u] = stream[u]
  BY <1>1
<1>4. \A u \in Tasks : stream[u].events \in Seq(Reports \cup Outcomes)
  BY DEF LifeInv, StreamFits
<1>5. ASSUME NEW u \in Tasks
      PROVE  StreamFits(u)'
  <2>1. CASE u = t
    BY <1>3, <2>1 DEF StreamFits
  <2>2. CASE u # t
    BY <1>3, <1>4, <2>2 DEF StreamFits
  <2> QED  BY <2>1, <2>2
<1> QED  BY <1>2, <1>5

\* The fields of a stream.
LEMMA StreamIs ==
  ASSUME LifeInv, NEW t \in Tasks
  PROVE  /\ stream[t] \in StreamType
         /\ stream[t].events \in Seq(Reports \cup Outcomes)
         /\ stream[t].events \in Seq(Statuses)
         /\ stream[t].failed \in BOOLEAN /\ stream[t].open \in BOOLEAN
         /\ stream[t].sent \in 0..MaxProgress
<1>1. stream[t] \in StreamType
  BY DEF LifeInv, LifecycleTypeOK, StreamType
<1>2. stream[t].events \in Seq(Reports \cup Outcomes)
  BY DEF LifeInv, StreamFits
<1> QED  BY <1>1, <1>2 DEF StreamType

\* A stream carries what the runtimes report.
LEMMA StreamStep ==
  ASSUME LifeInv, [Next]_vars
  PROVE  stream' \in [Tasks -> StreamType] /\ \A u \in Tasks : StreamFits(u)'
<1> DEFINE Goal == stream' \in [Tasks -> StreamType] /\ \A u \in Tasks : StreamFits(u)'
<1>1. stream \in [Tasks -> StreamType]
  BY DEF LifeInv, LifecycleTypeOK, StreamType
<1>2. CASE UNCHANGED stream
  BY <1>1, <1>2 DEF LifeInv, StreamFits
<1>3. Reports \cup Outcomes \subseteq Statuses
  BY LifecycleAssumption DEF Statuses
<1>4. ASSUME NEW t \in Tasks, NEW s \in Reports, Progress(t, s)
      PROVE  Goal
  <2> DEFINE x == [stream[t] EXCEPT !.events = Append(@, s), !.sent = @ + 1]
  <2>1. stream[t].sent < MaxProgress
        /\ stream' = [stream EXCEPT ![t].events = Append(@, s), ![t].sent = @ + 1]
    BY <1>4 DEF Progress
  <2>2. stream' = [stream EXCEPT ![t] = x]
    BY <1>1, <2>1
  <2>3. /\ Append(stream[t].events, s) \in Seq(Statuses)
        /\ Append(stream[t].events, s) \in Seq(Reports \cup Outcomes)
    BY <1>3, StreamIs
  <2>4. stream[t].sent + 1 \in 0..MaxProgress
    BY <2>1, StreamIs, LifecycleAssumption
  <2>5. x \in StreamType /\ x.events = Append(stream[t].events, s)
    BY <2>3, <2>4, StreamIs DEF StreamType
  <2> HIDE DEF x
  <2> QED  BY <2>2, <2>3, <2>5, StreamSet
<1>5. ASSUME NEW t \in Tasks, NEW s \in Outcomes, Outcome(t, s)
      PROVE  Goal
  <2> DEFINE x == [stream[t] EXCEPT !.events = Append(@, s), !.open = FALSE]
  <2>1. stream' = [stream EXCEPT ![t].events = Append(@, s), ![t].open = FALSE]
    BY <1>5 DEF Outcome
  <2>2. stream' = [stream EXCEPT ![t] = x]
    BY <1>1, <2>1
  <2>3. /\ Append(stream[t].events, s) \in Seq(Statuses)
        /\ Append(stream[t].events, s) \in Seq(Reports \cup Outcomes)
    BY <1>3, StreamIs
  <2>4. x \in StreamType /\ x.events = Append(stream[t].events, s)
    BY <2>3, StreamIs DEF StreamType
  <2> HIDE DEF x
  <2> QED  BY <2>2, <2>3, <2>4, StreamSet
<1>6. ASSUME NEW t \in Tasks, NEW failed \in BOOLEAN, NEW open \in BOOLEAN, NEW x,
             x = [stream[t] EXCEPT !.failed = failed, !.open = open],
             stream' = [stream EXCEPT ![t] = x]
      PROVE  Goal
  <2>1. x \in StreamType /\ x.events = stream[t].events
    BY <1>6, StreamIs DEF StreamType
  <2> QED  BY <1>6, <2>1, StreamIs, StreamSet
<1>7. ASSUME NEW t \in Tasks, Break(t) \/ FallSilent(t) \/ Submit(t) \/ TakeError(t)
      PROVE  Goal
  <2>1. PICK failed \in BOOLEAN, open \in BOOLEAN :
          stream' = [stream EXCEPT ![t] = [stream[t] EXCEPT !.failed = failed, !.open = open]]
    <3>1. CASE Break(t)
      <4>1. stream' = [stream EXCEPT ![t] = [stream[t] EXCEPT !.failed = TRUE, !.open = FALSE]]
        BY <1>1, <3>1 DEF Break
      <4> QED  BY <4>1
    <3>2. CASE FallSilent(t)
      <4>1. stream' = [stream EXCEPT ![t] =
                [stream[t] EXCEPT !.failed = stream[t].failed, !.open = FALSE]]
        BY <1>1, <3>2, StreamIs DEF FallSilent, StreamType
      <4> QED  BY <4>1, StreamIs
    <3>3. CASE Submit(t)
      <4>1. stream' = [stream EXCEPT ![t] =
                [stream[t] EXCEPT !.failed = stream[t].failed, !.open = TRUE]]
        BY <1>1, <3>3, StreamIs DEF Submit, StreamType
      <4> QED  BY <4>1, StreamIs
    <3>4. CASE TakeError(t)
      <4>1. stream' = [stream EXCEPT ![t] =
                [stream[t] EXCEPT !.failed = FALSE, !.open = stream[t].open]]
        BY <1>1, <3>4, StreamIs DEF TakeError, StreamType
      <4> QED  BY <4>1, StreamIs
    <3> QED  BY <1>7, <3>1, <3>2, <3>3, <3>4
  <2>2. PICK x : x = [stream[t] EXCEPT !.failed = failed, !.open = open]
    OBVIOUS
  <2> QED  BY <1>6, <2>1, <2>2
<1>8. ASSUME NEW t \in Tasks, TakeEvent(t)
      PROVE  Goal
  <2> DEFINE x == [stream[t] EXCEPT !.events = Tail(@)]
  <2>1. stream' = [stream EXCEPT ![t].events = Tail(@)] /\ stream[t].events # <<>>
    BY <1>8 DEF TakeEvent
  <2>2. stream' = [stream EXCEPT ![t] = x]
    BY <1>1, <2>1
  <2>3. /\ Tail(stream[t].events) \in Seq(Statuses)
        /\ Tail(stream[t].events) \in Seq(Reports \cup Outcomes)
    BY <2>1, StreamIs
  <2>4. x \in StreamType /\ x.events = Tail(stream[t].events)
    BY <2>3, StreamIs DEF StreamType
  <2> HIDE DEF x
  <2> QED  BY <2>2, <2>3, <2>4, StreamSet
<1>9. CASE Restart
  <2>1. stream' = [t \in Tasks |-> Closed]
    BY <1>9 DEF Restart
  <2>2. Closed \in StreamType /\ Closed.events \in Seq(Reports \cup Outcomes)
    BY LifecycleAssumption DEF Closed, StreamType
  <2> QED  BY <2>1, <2>2 DEF StreamFits
<1>10. ASSUME NEW t \in Tasks,
              \/ CreateRow(t) \/ Create(t) \/ RuntimeUnresolved(t)
              \/ LaunchRequired(t) \/ Launch(t) \/ RuntimeReady(t) \/ Dispatch(t)
              \/ FailTask(t) \/ StreamEvents(t) \/ TakeClose(t)
       PROVE  UNCHANGED stream
  BY <1>10 DEF CreateRow, Create, SayCreated, SayRouted, BindAndStart, StartUnbound,
     AbandonCreate, RuntimeUnresolved, LaunchRequired, Launch, RuntimeReady, Dispatch,
     FailTask, StreamEvents, TakeClose
<1>11. ASSUME \/ \E r \in Requests : Serve(r)
              \/ \E w \in Writers : Appending(w) \/ ClientGone(w)
              \/ UNCHANGED vars
       PROVE  UNCHANGED stream
  BY <1>11 DEF Serve, LoadForCancel, LoadForResume, AdapterAccepts, RequestRefused,
     SayRequested, Appending, ClientGone, vars
<1> QED
  BY <1>2, <1>4, <1>5, <1>7, <1>8, <1>9, <1>10, <1>11 DEF Next, RunTask, Ends

\* Every goroutine is at one of the labels.
LEMMA RunnerTypes ==
  ASSUME LifeInv, [Next]_vars
  PROVE  runner' \in [Tasks -> Runner]
<1>1. runner \in [Tasks -> Runner]
  BY DEF LifeInv, LifecycleTypeOK
<1>2. ASSUME NEW t \in Tasks
      PROVE  runner'[t] \in Runner
  <2>1. TaskSteps(t)
    BY AllSteps
  <2>2. CASE Speaks(t)
    BY <2>2, ScriptFits DEF Speaks, Scripted
  <2>3. runner[t] \in Runner
    BY <1>1
  <2> QED
    BY <2>1, <2>2, <2>3 DEF TaskSteps, Idles, Rests, Appears, Walks, Commits, Asked, Follows,
       Returns, Echoes, Dies, Runner, Creating, Stopped
<1>3. \/ runner' = runner
      \/ \E t \in Tasks : \E to : runner' = [runner EXCEPT ![t] = to]
      \/ Restart
  <2>1. ASSUME NEW t \in Tasks, (CreateRow(t) \/ Create(t)) \/ (RuntimeUnresolved(t) \/ RunTask(t))
        PROVE  \E to : runner' = [runner EXCEPT ![t] = to]
    <3>1. ASSUME NEW from, NEW to, Move(t, from, to)
          PROVE  \E at : runner' = [runner EXCEPT ![t] = at]
      BY <3>1 DEF Move
    <3>2. CASE CreateRow(t) \/ Create(t)
      BY <3>1, <3>2 DEF CreateRow, Create, SayCreated, SayRouted, BindAndStart,
         StartUnbound, AbandonCreate
    <3>3. CASE RuntimeUnresolved(t) \/ RunTask(t)
      BY <3>1, <3>3 DEF RuntimeUnresolved, RunTask, LaunchRequired, Launch, RuntimeReady,
         Dispatch, FailTask, Submit, StreamEvents, TakeEvent, TakeError, TakeClose
    <3> QED  BY <2>1, <3>2, <3>3
  <2>2. CASE \/ \E t \in Tasks, s \in Reports : Progress(t, s)
             \/ \E t \in Tasks : Ends(t)
    BY <2>2, Streams
  <2>3. CASE \/ \E r \in Requests : Serve(r)
             \/ \E w \in Writers : Appending(w) \/ ClientGone(w)
             \/ UNCHANGED vars
    BY <2>3 DEF Serve, LoadForCancel, LoadForResume, AdapterAccepts, RequestRefused,
       SayRequested, Appending, ClientGone, vars
  <2> QED  BY <2>1, <2>2, <2>3 DEF Next
<1>4. CASE runner' = runner
  BY <1>1, <1>4
<1>5. CASE \E t \in Tasks : \E to : runner' = [runner EXCEPT ![t] = to]
  BY <1>1, <1>2, <1>5
<1>6. CASE Restart
  <2>1. runner' = [t \in Tasks |-> runner'[t]]
    BY <1>6 DEF Restart
  <2> QED  BY <1>2, <2>1
<1> QED  BY <1>3, <1>4, <1>5, <1>6

\* Requests and crashes keep their types.
LEMMA RequestTypes ==
  ASSUME LifeInv, [Next]_vars
  PROVE  request' \in [Requests -> RequestType] /\ crashes' \in 0..MaxCrashes
<1>1. /\ request \in [Requests -> RequestType] /\ crashes \in 0..MaxCrashes
      /\ status \in [Tasks -> Statuses \cup {None}]
  BY DEF LifeInv, LifecycleTypeOK, RequestType, TypeOK
<1>2. CASE UNCHANGED <<request, crashes>>
  BY <1>1, <1>2
<1>3. ASSUME NEW r \in Requests, NEW q \in RequestType,
             request' = [request EXCEPT ![r] = q], crashes' = crashes
      PROVE  request' \in [Requests -> RequestType] /\ crashes' \in 0..MaxCrashes
  BY <1>1, <1>3
<1>4. ASSUME NEW r \in Requests, NEW t \in Tasks, LoadForCancel(r, t) \/ LoadForResume(r, t)
      PROVE  request' \in [Requests -> RequestType] /\ crashes' \in 0..MaxCrashes
  <2>1. status[t] \in Statuses \cup {None} /\ Rehydrate(t) \in Bindings
    BY <1>1 DEF Rehydrate, Bindings, LifeInv, LifecycleTypeOK, TypeOK
  <2>2. ASSUME NEW at \in Served \cup {"loaded", "accepted"},
               NEW op \in {None, "cancel", "resume"}
        PROVE  [at |-> at, op |-> op, task |-> t, seen |-> status[t],
                handle |-> Rehydrate(t)] \in RequestType
    BY <2>1 DEF RequestType
  <2>3. PICK at \in Served \cup {"loaded", "accepted"}, op \in {None, "cancel", "resume"} :
          /\ request' = [request EXCEPT ![r] =
                [at |-> at, op |-> op, task |-> t, seen |-> status[t],
                 handle |-> Rehydrate(t)]]
          /\ crashes' = crashes
    <3>1. CASE LoadForCancel(r, t)
      <4>1. PICK at : at = IF status[t] \in Terminal THEN "done" ELSE "loaded"
        OBVIOUS
      <4>2. at \in Served \cup {"loaded", "accepted"}
        BY <4>1 DEF Served
      <4>3. /\ request' = [request EXCEPT ![r] =
                  [at |-> at, op |-> "cancel", task |-> t, seen |-> status[t],
                   handle |-> Rehydrate(t)]]
            /\ crashes' = crashes
        BY <3>1, <4>1 DEF LoadForCancel
      <4> QED  BY <4>2, <4>3
    <3>2. CASE LoadForResume(r, t)
      <4>1. PICK at : at = IF status[t] = "awaiting_input" THEN "loaded" ELSE "refused"
        OBVIOUS
      <4>2. at \in Served \cup {"loaded", "accepted"}
        BY <4>1 DEF Served
      <4>3. /\ request' = [request EXCEPT ![r] =
                  [at |-> at, op |-> "resume", task |-> t, seen |-> status[t],
                   handle |-> Rehydrate(t)]]
            /\ crashes' = crashes
        BY <3>2, <4>1 DEF LoadForResume
      <4> QED  BY <4>2, <4>3
    <3> QED  BY <1>4, <3>1, <3>2
  <2> QED  BY <1>3, <2>2, <2>3
<1>5. ASSUME NEW r \in Requests, AdapterAccepts(r) \/ RequestRefused(r) \/ SayRequested(r)
      PROVE  request' \in [Requests -> RequestType] /\ crashes' \in 0..MaxCrashes
  <2>1. PICK at \in Served \cup {"loaded", "accepted"} :
          request' = [request EXCEPT ![r].at = at] /\ crashes' = crashes
    <3>1. \/ request' = [request EXCEPT ![r].at = "accepted"]
          \/ request' = [request EXCEPT ![r].at = "refused"]
          \/ request' = [request EXCEPT ![r].at = "done"]
      BY <1>5 DEF AdapterAccepts, RequestRefused, SayRequested
    <3>2. crashes' = crashes
      BY <1>5 DEF AdapterAccepts, RequestRefused, SayRequested, Say
    <3> QED  BY <3>1, <3>2 DEF Served
  <2>2. [request[r] EXCEPT !.at = at] \in RequestType
    BY <1>1 DEF RequestType
  <2>3. request' = [request EXCEPT ![r] = [request[r] EXCEPT !.at = at]]
    BY <1>1, <2>1
  <2> QED  BY <1>3, <2>1, <2>2, <2>3
<1>6. CASE Restart
  <2>1. crashes' \in 0..MaxCrashes
    BY <1>1, <1>6, LifecycleAssumption DEF Restart
  <2>2. \A r \in Requests : request[r] \in RequestType
    BY <1>1
  <2>3. \A r \in Requests : [request[r] EXCEPT !.at = "refused"] \in RequestType
    BY <2>2 DEF RequestType, Served
  <2>4. request' = [r \in Requests |->
          IF request[r].at \in {"loaded", "accepted"}
            THEN [request[r] EXCEPT !.at = "refused"] ELSE request[r]]
    BY <1>6 DEF Restart
  <2>5. request' \in [Requests -> RequestType]
    BY <2>2, <2>3, <2>4
  <2> QED  BY <2>1, <2>5
<1>7. ASSUME NEW t \in Tasks, (CreateRow(t) \/ Create(t)) \/ (RuntimeUnresolved(t) \/ RunTask(t))
      PROVE  UNCHANGED <<request, crashes>>
  <2>1. ASSUME NEW kind, NEW state, NEW handle, RunnerSays(t, kind, state, handle)
        PROVE  UNCHANGED <<request, crashes>>
    BY <2>1 DEF RunnerSays, Say
  <2>2. CASE CreateRow(t) \/ Create(t)
    BY <2>1, <2>2 DEF CreateRow, Create, SayCreated, SayRouted, BindAndStart,
       StartUnbound, AbandonCreate
  <2>3. CASE RuntimeUnresolved(t) \/ RunTask(t)
    BY <2>1, <2>3 DEF RuntimeUnresolved, RunTask, LaunchRequired, Launch, RuntimeReady,
       Dispatch, FailTask, Submit, StreamEvents, TakeEvent, TakeError, TakeClose
  <2> QED  BY <1>7, <2>2, <2>3
<1>8. CASE \/ \E t \in Tasks, s \in Reports : Progress(t, s)
           \/ \E t \in Tasks : Ends(t)
  BY <1>2, <1>8, Streams
<1>9. CASE \/ \E w \in Writers : Appending(w) \/ ClientGone(w)
           \/ UNCHANGED vars
  BY <1>2, <1>9 DEF Appending, ClientGone, vars
<1> QED  BY <1>2, <1>4, <1>5, <1>6, <1>7, <1>8, <1>9 DEF Next, Serve

-----------------------------------------------------------------------------
(* The invariant and what follows from it *)

\* The invariant holds initially ...
LEMMA LifeInvInit == Init => LifeInv
<1> SUFFICES ASSUME Init
             PROVE  LifeInv
  OBVIOUS
<1>1. LogInv
  BY LogInvInit DEF Init
<1>2. LifecycleTypeOK
  <2>1. Closed \in StreamType
    BY LifecycleAssumption DEF Closed, StreamType
  <2>2. [at |-> "idle", op |-> None, task |-> None, seen |-> None, handle |-> None]
          \in RequestType
    BY DEF RequestType, Served, Bindings
  <2>3. 0 \in 0..MaxCrashes
    BY LifecycleAssumption
  <2>4. stream \in [Tasks -> StreamType] /\ request \in [Requests -> RequestType]
    BY <2>1, <2>2 DEF Init
  <2>5. runner \in [Tasks -> Runner]
    BY DEF Init, Runner
  <2> QED
    BY <1>1, <2>3, <2>4, <2>5 DEF LogInv, LifecycleTypeOK, StreamType, RequestType, Init
<1>3. ASSUME NEW w \in Writers
      PROVE  ~Busy(w) /\ call[w].step = "ok"
  BY DEF Init, LogInit, Busy
<1>4. ASSUME NEW t \in Tasks
      PROVE  RunnerFits(t) /\ StreamFits(t) /\ EventsFit(t) /\ OrderFits(t) /\ KeptFits(t)
  <2>1. /\ runner[t] = "new" /\ turn[t] = None /\ log[t] = <<>> /\ stream[t] = Closed
        /\ ~Busy(t) /\ call[t].step = "ok"
    BY <1>3, WritersApart DEF Init, LogInit
  <2>2. RunnerFits(t) /\ StreamFits(t)
    BY <2>1 DEF RunnerFits, StreamFits, Closed
  <2>3. EventsFit(t) /\ OrderFits(t)
    BY <2>1 DEF EventsFit, OrderFits
  <2>4. KeptFits(t)
    BY <2>1 DEF KeptFits, Creating
  <2> QED  BY <2>2, <2>3, <2>4
<1>5. ASSUME NEW r \in Requests
      PROVE  RequestFits(r)
  BY <1>3, WritersApart DEF RequestFits, Init, Writers
<1> QED  BY <1>1, <1>2, <1>4, <1>5 DEF LifeInv

\* ... and every step keeps it.
LEMMA LifeInvStep == LifeInv /\ [Next]_vars => LifeInv'
<1> SUFFICES ASSUME LifeInv, [Next]_vars
             PROVE  LifeInv'
  OBVIOUS
<1>1. LogInv'
  BY AllSteps, LogInvStep DEF LifeInv
<1>2. LifecycleTypeOK'
  BY <1>1, RunnerTypes, RequestTypes, StreamStep
     DEF LogInv, LifecycleTypeOK, StreamType, RequestType
<1>3. ASSUME NEW t \in Tasks
      PROVE  (RunnerFits(t) /\ StreamFits(t) /\ EventsFit(t) /\ OrderFits(t) /\ KeptFits(t))'
  BY RunnerStep, StreamStep, EventsStep, OrderStep, KeptStep
<1>4. ASSUME NEW r \in Requests
      PROVE  RequestFits(r)'
  BY RequestStep
<1> QED  BY <1>1, <1>2, <1>3, <1>4 DEF LifeInv

(***************************************************************************)
(* The inductive invariant holds throughout, for any tasks, requests and   *)
(* adapters and any number of crashes.                                     *)
(***************************************************************************)
THEOREM LifeInvariant == Spec => []LifeInv
BY LifeInvInit, LifeInvStep, PTL DEF Spec

(***************************************************************************)
(* The lifecycle writes through the log as TaskLog allows, so everything   *)
(* proved of the log holds of it.                                          *)
(***************************************************************************)
THEOREM LifecycleUsesLog == Spec => UsesLog
<1>1. Init => LogInit
  BY DEF Init
<1>2. LifeInv /\ [Next]_vars => [LogNext]_logVars
  BY AllSteps
<1> QED  BY <1>1, <1>2, LifeInvariant, PTL DEF Spec, UsesLog, LogSpec

(***************************************************************************)
(* The log of a task follows the lifecycle without going back, nothing     *)
(* follows its outcome, and a resume request answers a pause the log shows *)
(* before it, for any number of concurrent requests and crashes.           *)
(***************************************************************************)
THEOREM LogsAreOrdered == Spec => []LifecycleOrder
<1>1. ASSUME LifeInv
      PROVE  LifecycleOrder
  <2>1. Len(Stages) = 8
    BY DEF Stages
  <2>2. ASSUME NEW t \in Tasks, NEW i \in DOMAIN log[t], NEW j \in DOMAIN log[t],
               i < j, log[t][i].kind \notin RequestKinds, log[t][j].kind \notin RequestKinds
        PROVE  /\ Stage(log[t][i].kind) <= Stage(log[t][j].kind)
               /\ Stage(log[t][i].kind) < Len(Stages)
    BY <1>1, <2>1, <2>2 DEF LifeInv, OrderFits
  <2>3. ASSUME NEW t \in Tasks, NEW j \in DOMAIN log[t],
               log[t][j].kind = "task.resume_requested"
        PROVE  \E i \in 1..(j - 1) : log[t][i].kind = "task.awaiting_input"
    <3>1. log[t][j].kind \in RequestKinds
      BY <2>3 DEF RequestKinds
    <3>2. \A at : ~Scripted(log[t][j], at)
      BY <3>1, ScriptFits DEF Scripted
    <3>3. Requested(log[t][j])
      BY <1>1, <3>2 DEF LifeInv, EventsFit
    <3>4. PausedBy(t, j)
      BY <1>1, <2>3, <3>3 DEF LifeInv, EventsFit, Requested
    <3>5. j \in Nat
      BY <1>1 DEF LifeInv, LifecycleTypeOK, TypeOK
    <3>6. PICK i \in 1..j : log[t][i].kind = "task.awaiting_input"
      BY <3>4 DEF PausedBy
    <3>7. i \in 1..(j - 1)
      BY <2>3, <3>5, <3>6
    <3> QED  BY <3>6, <3>7
  <2>4. LifecycleTypeOK
    BY <1>1 DEF LifeInv
  <2> QED  BY <2>2, <2>3, <2>4 DEF LifecycleOrder
<1> QED  BY <1>1, LifeInvariant, PTL

(***************************************************************************)
(* Until a request or a crash interferes, an outcome runTask has taken is  *)
(* recorded and the turn shows the status of the task.                     *)
(***************************************************************************)
THEOREM UndisturbedIsKept == Spec => []KeptUntilRequest
<1>1. LifeInv => KeptUntilRequest
  BY DEF LifeInv, KeptFits, KeptUntilRequest, Idle
<1> QED  BY <1>1, LifeInvariant, PTL

\* A goroutine does not leave a terminal state.
LEMMA OnlyAskedReopens ==
  ASSUME LifeInv, [Next]_vars, NEW t \in Tasks, status[t] \in Terminal,
         status'[t] # status[t]
  PROVE  Asked(t)
<1>1. TaskSteps(t)
  BY AllSteps
<1>2. None \notin Terminal /\ "created" \notin Terminal
  BY DEF None, Terminal
<1>3. ~Commits(t)
  <2>1. log[t] # <<>> /\ log[t][Len(log[t])].state \in Terminal
    BY <1>2 DEF LifeInv, LogInv, RowMatchesLog, LastState
  <2>2. Len(log[t]) \in DOMAIN log[t]
    BY <2>1 DEF LifeInv, LifecycleTypeOK, TypeOK
  <2>3. call[t].step # "insert"
    BY <2>1, <2>2 DEF LifeInv, EventsFit
  <2> QED  BY <2>3 DEF Commits
<1> QED
  BY <1>1, <1>2, <1>3 DEF TaskSteps, Same, Idles, Appears, Speaks, Walks, Follows, Returns,
     Echoes, Dies

(***************************************************************************)
(* A task leaves a terminal state only by the event of a cancel or resume  *)
(* request that had loaded it before it ended: never by runTask and never  *)
(* by a restart.                                                           *)
(***************************************************************************)
THEOREM OnlyRequestsReopen == Spec => ReopenedOnlyByRequest
<1> DEFINE Reopened ==
      \A t \in Tasks :
        status[t] \in Terminal /\ status'[t] # status[t] =>
          /\ log'[t][Len(log'[t])].kind \in RequestKinds
          /\ log'[t][Len(log'[t])].state \notin Terminal
<1>1. LifeInv /\ [Next]_vars => Reopened
  <2> SUFFICES ASSUME LifeInv, [Next]_vars, NEW t \in Tasks, status[t] \in Terminal,
                      status'[t] # status[t]
               PROVE  /\ log'[t][Len(log'[t])].kind \in RequestKinds
                      /\ log'[t][Len(log'[t])].state \notin Terminal
    OBVIOUS
  <2>1. PICK e : Extends(t, e) /\ Requested(e)
    BY OnlyAskedReopens, AskedIs
  <2>2. log'[t][Len(log'[t])] = e
    BY <2>1 DEF Extends
  <2> QED  BY <2>1, <2>2 DEF Requested
<1>2. LifeInv /\ [Next]_vars => [Reopened]_vars
  BY <1>1
<1> QED  BY <1>2, LifeInvariant, PTL DEF Spec, ReopenedOnlyByRequest
=============================================================================
