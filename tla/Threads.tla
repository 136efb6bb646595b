------------------------------- MODULE Threads -------------------------------
(***************************************************************************)
(* A thread between two agents (internal/core/threads.go,                  *)
(* internal/storage/threads.go): requests that continue it, the loops that *)
(* hand it to and fro, the tasks they create, its turns, and restarts of   *)
(* the node.                                                               *)
(*                                                                         *)
(* Of a task only what a thread sees is here: a status that its goroutine  *)
(* moves to an outcome or leaves behind (TaskLifecycle, Relay), and that a *)
(* request or a relay may still move after the outcome.  That a turn       *)
(* repeats the status of its task is in TaskLog.                           *)
(***************************************************************************)
EXTENDS TaskTypes, Sequences, FiniteSetsExt

\* thread.AgentAID and thread.AgentBID
Pair == {"a", "b"}

Other(agent) == IF agent = "a" THEN "b" ELSE "a"

Agents == Pair \cup {None}

CONSTANTS Clients,     \* requests that continue the thread, with their loops
          Handlers,    \* requests that cancel or resume a task
          Remote,      \* agents of the pair that are on a peer
          Asks,        \* what a request may ask: the agents it names, max_turns, the
                       \* options of the loop
          Reports,     \* what a task may report
          MaxTasks,    \* bound: turns that requests may ask for
          MaxCrashes   \* bound: crashes of the node

ASSUME ThreadsAssumption ==
  /\ Remote \subseteq Pair
  /\ Asks \subseteq [sender : Agents, target : Agents, max : Nat \ {0},
                    strict : BOOLEAN, polite : BOOLEAN]
  /\ Reports \subseteq Statuses
  /\ MaxTasks \in Nat /\ MaxCrashes \in Nat

VARIABLES thread,  \* its row: status and the last turn; no status before it exists
          turns,   \* thread_turns, in the order of their insertion
          tasks,   \* tasks of the thread in the order of their insertion
          flow,    \* ContinueThread, CreateTask and continueThreadAutoHandoff
          request, \* CancelTask and ResumeTask: the task, 0 when idle, as it was loaded
          node,
          crashes

rows == <<thread, turns, tasks>>
vars == <<thread, turns, tasks, flow, request, node, crashes>>

\* ended: the first outcome, which the properties need and the code does not.
\* runner: the goroutine of the task; lost when it returned without an outcome,
\* killed when the task had none as the node crashed.
Task == [sender : Pair, target : Pair, status : Statuses, ended : {None} \cup Terminal,
         runner : {"none", "live", "over", "lost", "killed"}]

\* seen: how many turns there were when the pair was derived, and asked: whether
\* the request named an agent.  The properties need them, the code does not.
Turn == [index : Nat, task : Nat, sender : Pair, target : Pair,
         seen : Nat, asked : BOOLEAN]

\* The last thing a client did; waiting: in waitForThreadTaskStop.  mine: the
\* tasks it has created; strict and polite: stop_on_terminal_error and
\* stop_on_same_actor_repeat.
Flow == [at : {"idle", "derived", "inserted", "appended", "waiting"},
         sender : Agents, target : Agents, seen : Nat, asked : BOOLEAN,
         mine : Seq(Nat), max : Nat, strict : BOOLEAN, polite : BOOLEAN]

ThreadsTypeOK ==
  /\ thread \in [status : {None, "active", "interrupted"}, last : Nat,
                 actor : Agents, target : Agents]
  /\ turns \in Seq(Turn)
  /\ tasks \in Seq(Task)
  /\ flow \in [Clients -> Flow]
  /\ request \in [Handlers -> [task : Nat, seen : Statuses]]
  /\ node \in {"up", "down"}
  /\ crashes \in 0..MaxCrashes

NoFlow == [at |-> "idle", sender |-> None, target |-> None, seen |-> 0,
           asked |-> FALSE, mine |-> <<>>, max |-> 1, strict |-> FALSE,
           polite |-> FALSE]

NoRequest == [task |-> 0, seen |-> "created"]

Init ==
  /\ thread = [status |-> None, last |-> 0, actor |-> None, target |-> None]
  /\ turns = <<>>
  /\ tasks = <<>>
  /\ flow = [c \in Clients |-> NoFlow]
  /\ request = [h \in Handlers |-> NoRequest]
  /\ node = "up"
  /\ crashes = 0

-----------------------------------------------------------------------------
(* Helpers *)

At(c, step) == node = "up" /\ flow[c].at = step

Finish(c) == flow' = [flow EXCEPT ![c] = NoFlow]

\* Plausible bug: the actor of the last turn goes on.
DeriveFromActor(sender, target) ==
  LET from == IF sender # None THEN sender
              ELSE IF target \in Pair THEN Other(target)
              ELSE IF thread.actor # None THEN thread.actor ELSE "a"
  IN <<from, IF target # None THEN target ELSE Other(from)>>

\* deriveThreadContinuationPair on the row as it is now
Derive(sender, target) ==
  LET from == IF sender # None THEN sender
              ELSE IF target \in Pair THEN Other(target)
              ELSE IF thread.target # None THEN thread.target ELSE "a"
  IN <<from, IF target # None THEN target ELSE Other(from)>>

\* validateThreadParticipants, once for the pair and again in CreateTask
Valid(pair) == pair[1] \in Pair /\ pair[2] = Other(pair[1])

Outcome(t) == tasks[t].status \in Terminal

\* The tasks when t reports s, which leaves its goroutine as runner says.
Reported(t, s, runner) ==
  [tasks EXCEPT ![t].status = s, ![t].runner = runner,
                ![t].ended = IF @ = None /\ s \in Terminal THEN s ELSE @]

-----------------------------------------------------------------------------
(* CreateThread and ContinueThread *)

CreateThread ==
  /\ node = "up" /\ thread.status = None
  /\ thread' = [thread EXCEPT !.status = "active"]
  /\ UNCHANGED <<turns, tasks, flow, request, node, crashes>>

\* Turns the requests under way may still create.
TurnsLeft == MapThenSumSet(
  LAMBDA c : IF flow[c].at = "idle" THEN 0 ELSE flow[c].max - Len(flow[c].mine), Clients)

\* A request with neither, one or both agents, or POST /v1/tasks with the id of
\* the thread.  An invalid pair is refused.
Continue(c) ==
  /\ At(c, "idle") /\ thread.status # None
  /\ \E ask \in Asks :
       LET pair == Derive(ask.sender, ask.target) IN
       /\ Valid(pair)
       /\ Len(tasks) + TurnsLeft + ask.max <= MaxTasks
       /\ flow' = [flow EXCEPT ![c] =
            [at |-> "derived", sender |-> pair[1], target |-> pair[2],
             seen |-> Len(turns), asked |-> <<ask.sender, ask.target>> # <<None, None>>,
             mine |-> <<>>, max |-> ask.max, strict |-> ask.strict, polite |-> ask.polite]]
  /\ UNCHANGED <<rows, request, node, crashes>>

-----------------------------------------------------------------------------
(* CreateTask, for a local or a remote target *)

InsertTask(c) ==
  /\ At(c, "derived")
  /\ tasks' = Append(tasks, [sender |-> flow[c].sender, target |-> flow[c].target,
                             status |-> "created", ended |-> None, runner |-> "none"])
  /\ flow' = [flow EXCEPT ![c].at = "inserted",
                          ![c].mine = Append(@, Len(tasks) + 1)]
  /\ UNCHANGED <<thread, turns, request, node, crashes>>

Newest(c) == flow[c].mine[Len(flow[c].mine)]

\* The request's context ends or the store fails, before or after the insert.
GiveUp(c) ==
  /\ At(c, "derived") \/ At(c, "inserted")
  /\ Finish(c)
  /\ UNCHANGED <<rows, request, node, crashes>>

AppendAt(c, index) ==
  LET f == flow[c]
      t == Newest(c)
  IN /\ turns' = Append(turns, [index |-> index, task |-> t, sender |-> f.sender,
                                target |-> f.target, seen |-> f.seen, asked |-> f.asked])
     /\ thread' = [status |-> "active", last |-> t, actor |-> f.sender,
                   target |-> f.target]
     /\ flow' = [flow EXCEPT ![c].at = "appended"]
     /\ UNCHANGED <<tasks, request, node, crashes>>

\* Plausible bug: the index is taken before the transaction.
AppendTurnAtSeen(c) == At(c, "inserted") /\ AppendAt(c, flow[c].seen + 1)

\* appendTaskToThread: the index is chosen in the transaction of the insert.
AppendTurn(c) == At(c, "inserted") /\ AppendAt(c, Len(turns) + 1)

\* go runTask, or go relayRemoteTask; then the loop waits, if there is one and
\* it has turns left.
StartTask(c) ==
  /\ At(c, "appended")
  /\ tasks' = [tasks EXCEPT ![Newest(c)].runner = "live"]
  /\ IF Len(flow[c].mine) < flow[c].max
       THEN flow' = [flow EXCEPT ![c].at = "waiting"]
       ELSE Finish(c)
  /\ UNCHANGED <<thread, turns, request, node, crashes>>

-----------------------------------------------------------------------------
(* continueThreadAutoHandoff *)

MayGoOn(c) ==
  LET f == flow[c] IN
  /\ Outcome(Newest(c))
  /\ f.strict => tasks[Newest(c)].status = "completed"
  /\ f.polite => Derive(None, None)[1] # tasks[Newest(c)].sender

HandOff(c) ==
  LET pair == Derive(None, None) IN
  flow' = [flow EXCEPT ![c].at = "derived", ![c].sender = pair[1],
                       ![c].target = pair[2], ![c].seen = Len(turns),
                       ![c].asked = FALSE]

\* Plausible bug: the loop goes on when the wait has timed out.
NextTurnAnyway(c) ==
  /\ At(c, "waiting")
  /\ HandOff(c)
  /\ UNCHANGED <<rows, request, node, crashes>>

\* A poll finds an outcome; the thread is read again for the next pair.
NextTurn(c) ==
  /\ At(c, "waiting") /\ MayGoOn(c)
  /\ HandOff(c)
  /\ UNCHANGED <<rows, request, node, crashes>>

\* The task pauses, or an option of the request ends the loop; or the store fails.
StopLoop(c) ==
  /\ At(c, "waiting")
  /\ Outcome(Newest(c)) \/ tasks[Newest(c)].status = "awaiting_input"
  /\ Finish(c)
  /\ UNCHANGED <<rows, request, node, crashes>>

\* Plausible bug: a poll that finds nothing starts the wait anew.
WaitAgain(c) == At(c, "waiting") /\ UNCHANGED vars

\* waitForThreadTaskStop: after 60 seconds, or the timeout of the request.
WaitTimesOut(c) ==
  /\ At(c, "waiting")
  /\ Finish(c)
  /\ UNCHANGED <<rows, request, node, crashes>>

-----------------------------------------------------------------------------
(* The goroutine of a task: runTask, or relayRemoteTask for a remote target *)

Live(t) == node = "up" /\ tasks[t].runner = "live"

RunTask(t) ==
  /\ Live(t) /\ tasks[t].target \notin Remote
  /\ \E s \in Reports :
       tasks' = Reported(t, s, IF s \in Terminal THEN "over" ELSE "live")
  /\ UNCHANGED <<thread, turns, flow, request, node, crashes>>

\* A frame of the destination: after its outcome, a request's or another relay's.
Mirror(t) ==
  /\ Live(t) /\ tasks[t].target \in Remote
  /\ \E s \in Reports :
       /\ tasks[t].ended # None => s \notin {"completed", "cancelled"}
       /\ tasks' = Reported(t, s, "live")
  /\ UNCHANGED <<thread, turns, flow, request, node, crashes>>

\* The stream ends, or the relay fails the task whatever it has mirrored.
RelayEnds(t) ==
  /\ Live(t) /\ tasks[t].target \in Remote
  /\ \/ tasks[t].ended # None /\ tasks' = [tasks EXCEPT ![t].runner = "over"]
     \/ tasks' = Reported(t, "failed", "over")
  /\ UNCHANGED <<thread, turns, flow, request, node, crashes>>

\* It returns without an outcome, as CompletionRecorded in AcpRun shows.
LoseTask(t) ==
  /\ Live(t) /\ tasks[t].ended = None
  /\ tasks' = [tasks EXCEPT ![t].runner = "lost"]
  /\ UNCHANGED <<thread, turns, flow, request, node, crashes>>

-----------------------------------------------------------------------------
(* CancelTask and ResumeTask *)

\* Both refuse a task with an outcome and one whose agent is on a peer.
LoadRequest(h, t) ==
  /\ node = "up" /\ request[h].task = 0
  /\ tasks[t].runner # "none" /\ tasks[t].target \notin Remote /\ ~Outcome(t)
  /\ request' = [request EXCEPT ![h] = [task |-> t, seen |-> tasks[t].status]]
  /\ UNCHANGED <<rows, flow, node, crashes>>

\* The adapter has answered: the event repeats the status that was loaded, and
\* the row is not looked at again.  Or the adapter or the store refuses.
EndRequest(h) ==
  /\ node = "up" /\ request[h].task # 0
  /\ LET t == request[h].task IN
     \/ tasks' = Reported(t, request[h].seen, tasks[t].runner)
     \/ UNCHANGED tasks
  /\ request' = [request EXCEPT ![h] = NoRequest]
  /\ UNCHANGED <<thread, turns, flow, node, crashes>>

-----------------------------------------------------------------------------
(* Crash and restart *)

Crash ==
  /\ node = "up" /\ crashes < MaxCrashes
  /\ node' = "down" /\ crashes' = crashes + 1
  /\ tasks' = [t \in DOMAIN tasks |->
       CASE tasks[t].runner \in {"over", "killed"} -> tasks[t]
         [] OTHER -> [tasks[t] EXCEPT !.runner = IF Outcome(t) THEN "over" ELSE "killed"]]
  /\ flow' = [c \in Clients |-> NoFlow]
  /\ request' = [h \in Handlers |-> NoRequest]
  /\ UNCHANGED <<thread, turns>>

\* The tasks a restart finds cut off at a peer; whether one has a binding is in
\* Relay and left open here.
Relayed == {t \in DOMAIN tasks :
  tasks[t].runner = "killed" /\ tasks[t].target \in Remote /\ ~Outcome(t)}

\* reconcileRestartState: the proxies with a binding fail.
FailRelayed ==
  \E failed \in SUBSET Relayed :
    tasks' = [t \in DOMAIN tasks |->
      IF t \in failed THEN Reported(t, "failed", "killed")[t] ELSE tasks[t]]

MarkThread(cutOff) ==
  thread' = [thread EXCEPT !.status =
    IF @ = "active" /\ thread.last # 0 /\ tasks[thread.last].status \in cutOff
      THEN "interrupted" ELSE @]

\* Plausible bug: only tasks that had reported something are looked at.
RestartRunningOnly ==
  /\ node = "down" /\ node' = "up"
  /\ MarkThread({"running"})
  /\ FailRelayed
  /\ UNCHANGED <<turns, flow, request, crashes>>

\* MarkInterruptedThreadsOnRestart comes first; the node does not serve before.
Restart ==
  /\ node = "down" /\ node' = "up"
  /\ MarkThread(Statuses \ Terminal)
  /\ FailRelayed
  /\ UNCHANGED <<turns, flow, request, crashes>>

-----------------------------------------------------------------------------
FlowStep(c) ==
  \/ InsertTask(c) \/ AppendTurn(c) \/ StartTask(c)
  \/ NextTurn(c) \/ StopLoop(c) \/ WaitTimesOut(c)

Next ==
  \/ CreateThread
  \/ \E c \in Clients : Continue(c) \/ GiveUp(c) \/ FlowStep(c)
  \/ \E t \in DOMAIN tasks : RunTask(t) \/ Mirror(t) \/ RelayEnds(t) \/ LoseTask(t)
  \/ \E h \in Handlers : EndRequest(h) \/ \E t \in DOMAIN tasks : LoadRequest(h, t)
  \/ Crash \/ Restart

Spec == Init /\ [][Next]_vars

\* Goroutines run on and a wait times out; no task is assumed to end.
FairSpec ==
  /\ Spec
  /\ WF_vars(Restart)
  /\ \A c \in Clients : WF_vars(FlowStep(c)) /\ WF_vars(WaitTimesOut(c))

-----------------------------------------------------------------------------
(***************************************************************************)
(* Thread row, turns and tasks stay coherent however many requests and     *)
(* loops append at once: turns are numbered without a gap, the row shows   *)
(* the last of them, a task is in at most one, and no task runs that is    *)
(* not in the thread.                                                      *)
(***************************************************************************)
TurnsAreTheThread ==
  /\ ThreadsTypeOK
  /\ \A i \in DOMAIN turns : turns[i].index = i
  /\ \A i, j \in DOMAIN turns : turns[i].task = turns[j].task => i = j
  /\ turns # <<>> =>
       LET last == turns[Len(turns)]
       IN thread.last = last.task /\ thread.actor = last.sender /\ thread.target = last.target
  /\ \A t \in DOMAIN tasks : tasks[t].runner \in {"live", "over", "lost"} =>
       \E i \in DOMAIN turns : turns[i].task = t

(***************************************************************************)
(* A node that serves shows a thread as interrupted when the last task had *)
(* no outcome as the node crashed, within CreateTask or after another      *)
(* crash as well, until the next turn makes it active again.  It shows no  *)
(* other so, but one whose last task was over and open again: a request    *)
(* that had loaded it, or a relay, moved its status after the outcome.     *)
(***************************************************************************)
InterruptedIsHonest ==
  node = "up" /\ thread.last # 0 =>
    LET t == tasks[thread.last] IN
    /\ t.runner = "killed" => thread.status = "interrupted"
    /\ thread.status = "interrupted" =>
         t.runner = "killed" \/ (t.runner = "over" /\ t.ended # None /\ t.status \notin Terminal)

(***************************************************************************)
(* A loop keeps to its request, whatever others do to the thread: never    *)
(* more turns than max_turns, none before its previous turn has had an     *)
(* outcome, none after a failure or by the same actor if so asked.         *)
(***************************************************************************)
LoopKeepsToRequest ==
  \A c \in Clients :
    LET f == flow[c] IN
    /\ Len(f.mine) <= f.max
    /\ \A i \in 1..(Len(f.mine) - 1) :
         /\ tasks[f.mine[i]].ended # None
         /\ f.strict => tasks[f.mine[i]].ended = "completed"
         /\ f.polite => tasks[f.mine[i]].sender # tasks[f.mine[i + 1]].sender

(***************************************************************************)
(* The speakers alternate: a turn for which no agent was named is spoken   *)
(* by the target of the turn before, unless another turn was appended      *)
(* after its pair had been derived.                                        *)
(***************************************************************************)
AlternatesUnlessRaced ==
  \A i \in DOMAIN turns :
    i > 1 /\ ~turns[i].asked /\ turns[i].seen = i - 1 => turns[i].sender = turns[i - 1].target

(***************************************************************************)
(* Every request and every loop comes to its end, also when the tasks it   *)
(* waits for never do.                                                     *)
(***************************************************************************)
HandoffEnds == \A c \in Clients : flow[c].at # "idle" ~> flow[c].at = "idle"
=============================================================================
