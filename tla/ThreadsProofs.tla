--------------------------- MODULE ThreadsProofs ---------------------------
(***************************************************************************)
(* Proofs about Threads: rows, turns and tasks of a thread stay coherent   *)
(* and loops keep to their requests, for any number of requests, loops,    *)
(* tasks and restarts.                                                     *)
(***************************************************************************)
EXTENDS Threads, TLAPS

InTurn(t) == \E i \in DOMAIN turns : turns[i].task = t

\* Turns are numbered, name a task each, no task twice, and alternate.
TurnFits(i) ==
  /\ turns[i].index = i
  /\ turns[i].task \in DOMAIN tasks
  /\ i > 1 /\ ~turns[i].asked /\ turns[i].seen = i - 1 =>
       turns[i].sender = turns[i - 1].target

TurnsApart == \A i, j \in DOMAIN turns : turns[i].task = turns[j].task => i = j

\* The row shows the last turn, and is honest about a crash as soon as the node serves.
RowFits ==
  /\ turns = <<>> => thread.last = 0
  /\ turns # <<>> =>
       LET last == turns[Len(turns)]
       IN /\ thread.last = last.task /\ thread.actor = last.sender
          /\ thread.target = last.target /\ thread.status # None

\* A proxy that was cut off fails on a restart, when the row is marked already.
HonestFits ==
  thread.last # 0 =>
    LET t == tasks[thread.last] IN
    /\ thread.status = "interrupted" =>
         t.runner = "killed" \/ (t.runner = "over" /\ t.status \notin Terminal)
    /\ t.runner = "killed" /\ (node = "up" \/ t.status \in Terminal) =>
         thread.status = "interrupted"

\* A goroutine that is over has had an outcome, one that has not begun or runs for
\* a local target has had none; a completion is the first one; only a task in the
\* thread has run; nothing runs in a node that is down.
TaskFits(t) ==
  /\ Outcome(t) \/ tasks[t].runner = "over" => tasks[t].ended # None
  /\ tasks[t].runner = "none" => tasks[t].ended = None
  /\ tasks[t].runner = "live" /\ tasks[t].target \notin Remote => tasks[t].ended = None
  /\ tasks[t].status = "completed" => tasks[t].ended = "completed"
  /\ tasks[t].runner \in {"live", "over", "lost"} => InTurn(t)
  /\ node = "down" => tasks[t].runner \in {"over", "killed"}

Mine(c) == {flow[c].mine[i] : i \in DOMAIN flow[c].mine}

\* A request under way has a pair, and room for the turn it prepares.
PairFits(c) ==
  /\ flow[c].at # "idle" => flow[c].sender \in Pair /\ flow[c].target \in Pair
  /\ flow[c].at \in {"inserted", "appended", "waiting"} => flow[c].mine # <<>>
  /\ Len(flow[c].mine) <= flow[c].max
  /\ flow[c].at \in {"derived", "waiting"} => Len(flow[c].mine) < flow[c].max

\* Its newest task has not run before StartTask and is in a turn from AppendTurn on.
NewestFits(c) ==
  flow[c].at \in {"inserted", "appended"} =>
    /\ tasks[Newest(c)].runner = "none"
    /\ tasks[Newest(c)].sender = flow[c].sender
    /\ InTurn(Newest(c)) <=> flow[c].at = "appended"

\* The loop has seen the outcome of every task but the newest, and of that one
\* too when it prepares the next.
LoopFits(c) ==
  LET f == flow[c]
  IN /\ \A i \in DOMAIN f.mine : f.mine[i] \in DOMAIN tasks
     /\ \A i \in 1..(Len(f.mine) - 1) :
          /\ tasks[f.mine[i]].ended # None
          /\ f.strict => tasks[f.mine[i]].ended = "completed"
          /\ f.polite => tasks[f.mine[i]].sender # tasks[f.mine[i + 1]].sender
     /\ f.at = "derived" /\ f.mine # <<>> =>
          /\ tasks[Newest(c)].ended # None
          /\ f.strict => tasks[Newest(c)].ended = "completed"
          /\ f.polite => tasks[Newest(c)].sender # f.sender

\* Unless a turn came in between, a pair nobody named answers the last turn.
AnswerFits(c) ==
  flow[c].at \in {"derived", "inserted"} =>
    /\ flow[c].seen <= Len(turns)
    /\ ~flow[c].asked /\ flow[c].seen = Len(turns) /\ turns # <<>> =>
         flow[c].sender = thread.target

\* A request was loaded without an outcome, of a task that has been started.
RequestFits(h) ==
  request[h].task # 0 =>
    /\ request[h].task \in DOMAIN tasks
    /\ tasks[request[h].task].runner # "none"
    /\ request[h].seen \notin Terminal

\* Every task has one creator.
OwnersApart == \A c, d \in Clients : c # d => Mine(c) \cap Mine(d) = {}

ThreadInv ==
  /\ ThreadsTypeOK
  /\ RowFits /\ TurnsApart /\ HonestFits /\ OwnersApart
  /\ \A i \in DOMAIN turns : TurnFits(i)
  /\ \A t \in DOMAIN tasks : TaskFits(t)
  /\ \A c \in Clients :
       PairFits(c) /\ NewestFits(c) /\ LoopFits(c) /\ AnswerFits(c)
  /\ \A h \in Handlers : RequestFits(h)
-----------------------------------------------------------------------------
(* What a step does *)

OthersRest(c) == \A d \in Clients \ {c} : flow'[d] = flow[d]

\* A request or a loop derives the next pair ...
Derives(c) ==
  LET f == flow'[c]
  IN /\ f.at = "derived" /\ f.sender \in Pair /\ f.target \in Pair
     /\ f.seen = Len(turns)
     /\ ~f.asked => f.sender = (IF thread.target # None THEN thread.target ELSE "a")
     /\ \/ f.mine = <<>> /\ f.max \in Nat \ {0}
        \/ /\ flow[c].at = "waiting" /\ tasks[Newest(c)].ended # None
           /\ f.mine = flow[c].mine /\ f.max = flow[c].max
           /\ f.strict = flow[c].strict /\ f.polite = flow[c].polite
           /\ f.strict => tasks[Newest(c)].ended = "completed"
           /\ f.polite => f.sender # tasks[Newest(c)].sender

\* ... or ends; nothing else changes.
Turns(c) ==
  /\ UNCHANGED <<thread, turns, tasks, node>> /\ OthersRest(c)
  /\ flow'[c] = NoFlow \/ Derives(c)

\* CreateTask stores the task ...
Inserts(c) ==
  /\ UNCHANGED <<thread, turns, node>> /\ OthersRest(c) /\ node = "up"
  /\ flow[c].at = "derived"
  /\ LET n == Len(tasks)
     IN /\ DOMAIN tasks' = 1..(n + 1) /\ \A t \in 1..n : tasks'[t] = tasks[t]
        /\ tasks'[n + 1].sender = flow[c].sender /\ tasks'[n + 1].status = "created"
        /\ tasks'[n + 1].ended = None /\ tasks'[n + 1].runner = "none"
        /\ flow'[c] = [flow[c] EXCEPT !.at = "inserted", !.mine = Append(@, n + 1)]

\* ... appends its turn ...
Appends(c) ==
  /\ UNCHANGED <<tasks, node>> /\ OthersRest(c) /\ node = "up"
  /\ flow[c].at = "inserted"
  /\ LET n == Len(turns)
     IN /\ DOMAIN turns' = 1..(n + 1) /\ Len(turns') = n + 1
        /\ \A i \in 1..n : turns'[i] = turns[i]
        /\ turns'[n + 1].index = n + 1 /\ turns'[n + 1].task = Newest(c)
        /\ turns'[n + 1].sender = flow[c].sender /\ turns'[n + 1].target = flow[c].target
        /\ turns'[n + 1].seen = flow[c].seen /\ turns'[n + 1].asked = flow[c].asked
  /\ thread' = [status |-> "active", last |-> Newest(c), actor |-> flow[c].sender,
                target |-> flow[c].target]
  /\ flow'[c] = [flow[c] EXCEPT !.at = "appended"]

\* ... and starts its goroutine.
Starts(c) ==
  /\ UNCHANGED <<thread, turns, node>> /\ OthersRest(c) /\ node = "up"
  /\ flow[c].at = "appended"
  /\ tasks' = [tasks EXCEPT ![Newest(c)].runner = "live"]
  /\ \/ flow'[c] = NoFlow
     \/ /\ Len(flow[c].mine) < flow[c].max
        /\ flow'[c] = [flow[c] EXCEPT !.at = "waiting"]

\* A task keeps its first outcome, and the first completion is that one.
Keeps(t) ==
  /\ tasks'[t].sender = tasks[t].sender /\ tasks'[t].target = tasks[t].target
  /\ tasks[t].ended # None => tasks'[t].ended = tasks[t].ended
  /\ tasks'[t].status \in Terminal => tasks'[t].ended # None
  /\ tasks'[t].status = "completed" => tasks'[t].ended = "completed"

\* The goroutine of a task goes on or returns, or a request says what it loaded.
Works(t) ==
  /\ UNCHANGED <<thread, turns, flow, node>> /\ node = "up"
  /\ DOMAIN tasks' = DOMAIN tasks
  /\ \A u \in DOMAIN tasks \ {t} : tasks'[u] = tasks[u]
  /\ Keeps(t)
  /\ \/ /\ tasks[t].runner = "live" /\ tasks'[t].runner \in {"live", "over", "lost"}
        /\ tasks'[t].runner = "over" => tasks'[t].ended # None
        /\ tasks'[t].runner = "live" /\ tasks[t].target \notin Remote =>
             tasks'[t].ended = None
     \/ /\ tasks[t].runner # "none" /\ tasks'[t].runner = tasks[t].runner
        /\ tasks'[t].status \notin Terminal /\ tasks'[t].ended = tasks[t].ended

Dies ==
  /\ UNCHANGED <<thread, turns>> /\ node = "up" /\ node' = "down"
  /\ \A c \in Clients : flow'[c] = NoFlow
  /\ DOMAIN tasks' = DOMAIN tasks
  /\ \A t \in DOMAIN tasks :
       /\ tasks'[t].sender = tasks[t].sender /\ tasks'[t].target = tasks[t].target
       /\ tasks'[t].status = tasks[t].status /\ tasks'[t].ended = tasks[t].ended
       /\ tasks'[t].runner = IF tasks[t].runner \in {"over", "killed"} THEN tasks[t].runner
                              ELSE IF Outcome(t) THEN "over" ELSE "killed"

\* A proxy that was cut off fails.
Fails(t) ==
  /\ node = "down" /\ Keeps(t)
  /\ tasks[t].runner = "killed" /\ tasks'[t].runner = "killed"

\* The row changes its status only.
Marks ==
  /\ UNCHANGED <<turns, flow>> /\ DOMAIN tasks' = DOMAIN tasks
  /\ \A t \in DOMAIN tasks : tasks'[t] = tasks[t] \/ Fails(t)
  /\ thread'.last = thread.last /\ thread'.actor = thread.actor
  /\ thread'.target = thread.target
  /\ \/ thread.status = None /\ thread'.status = "active" /\ node' = node
     \/ /\ node = "down" /\ node' = "up"
        /\ thread'.status = IF /\ thread.status = "active" /\ thread.last # 0
                                /\ ~Outcome(thread.last)
                              THEN "interrupted" ELSE thread.status

Stays == UNCHANGED <<thread, turns, tasks, flow, node>>

\* What a request that cancels or resumes a task does: it rests or ends, or loads.
HasLoaded(h) ==
  \/ request'[h] = request[h] \/ request'[h].task = 0
  \/ /\ tasks' = tasks /\ request'[h].task \in DOMAIN tasks
     /\ tasks[request'[h].task].runner # "none"
     /\ request'[h].seen \notin Terminal

Steps ==
  \/ \E c \in Clients : Turns(c) \/ Inserts(c) \/ Appends(c) \/ Starts(c)
  \/ \E t \in DOMAIN tasks : Works(t)
  \/ Dies \/ Marks \/ Stays

\* The rows have their types.
LEMMA RowsAre ==
  ASSUME ThreadsTypeOK
  PROVE  /\ turns \in Seq(Turn) /\ Len(turns) \in Nat /\ DOMAIN turns = 1..Len(turns)
         /\ tasks \in Seq(Task) /\ Len(tasks) \in Nat /\ DOMAIN tasks = 1..Len(tasks)
         /\ \A t \in DOMAIN tasks :
              /\ tasks[t] \in Task /\ tasks[t].sender \in Pair
              /\ tasks[t].status \in Statuses /\ tasks[t].ended \in {None} \cup Terminal
              /\ tasks[t].runner \in {"none", "live", "over", "lost", "killed"}
         /\ thread.target \in Agents /\ thread.last \in Nat
         /\ thread.status \in {None, "active", "interrupted"}
<1>1. turns \in Seq(Turn) /\ tasks \in Seq(Task)
  BY DEF ThreadsTypeOK
<1>2. \A t \in DOMAIN tasks : tasks[t] \in Task
  BY <1>1
<1>3. \A t \in DOMAIN tasks :
        /\ tasks[t].sender \in Pair /\ tasks[t].status \in Statuses
        /\ tasks[t].ended \in {None} \cup Terminal
        /\ tasks[t].runner \in {"none", "live", "over", "lost", "killed"}
  BY <1>2 DEF Task
<1>4. /\ thread.target \in Agents /\ thread.last \in Nat
      /\ thread.status \in {None, "active", "interrupted"}
  BY DEF ThreadsTypeOK
<1> QED  BY <1>1, <1>2, <1>3, <1>4

\* A request under way is a record.
LEMMA FlowIs ==
  ASSUME ThreadsTypeOK, NEW c \in Clients
  PROVE  /\ flow[c] \in Flow
         /\ flow[c].mine \in Seq(Nat) /\ Len(flow[c].mine) \in Nat
         /\ DOMAIN flow[c].mine = 1..Len(flow[c].mine)
         /\ flow[c].sender \in Agents /\ flow[c].target \in Agents
         /\ flow[c].seen \in Nat /\ flow[c].asked \in BOOLEAN
         /\ flow[c].max \in Nat /\ flow[c].strict \in BOOLEAN
         /\ flow[c].polite \in BOOLEAN
<1>1. flow[c] \in Flow
  BY DEF ThreadsTypeOK
<1>2. flow[c].mine \in Seq(Nat)
  BY <1>1 DEF Flow
<1> QED  BY <1>1, <1>2 DEF Flow

\* The newest task of a loop.
LEMMA NewestIs ==
  ASSUME ThreadInv, NEW c \in Clients, flow[c].mine # <<>>
  PROVE  /\ Len(flow[c].mine) \in DOMAIN flow[c].mine
         /\ Newest(c) \in DOMAIN tasks /\ Newest(c) \in Mine(c)
<1>1. flow[c].mine \in Seq(Nat)
  BY FlowIs DEF ThreadInv
<1>2. Len(flow[c].mine) \in DOMAIN flow[c].mine
  BY <1>1
<1> QED  BY <1>2 DEF ThreadInv, LoopFits, Newest, Mine

\* Another record for one request leaves the others alone.
LEMMA FlowSet ==
  ASSUME ThreadsTypeOK, NEW c \in Clients, NEW f, flow' = [flow EXCEPT ![c] = f]
  PROVE  /\ flow'[c] = f /\ OthersRest(c)
         /\ f \in Flow => flow' \in [Clients -> Flow]
<1>1. flow \in [Clients -> Flow]
  BY DEF ThreadsTypeOK
<1> QED  BY <1>1 DEF OthersRest

\* A request that has ended.
LEMMA NoFlowIs == NoFlow \in Flow
BY DEF NoFlow, Flow, Agents

\* Agents of a pair are told apart from none.
LEMMA PairIs ==
  /\ None \notin Pair /\ "a" \in Pair /\ Pair \subseteq Agents
  /\ \A agent : Other(agent) \in Pair
BY DEF None, Pair, Other, Agents

\* A pair that nobody named is derived from the last turn.
LEMMA DeriveIs ==
  LET from == IF thread.target # None THEN thread.target ELSE "a"
  IN Derive(None, None) = <<from, Other(from)>>
BY PairIs DEF Derive

\* ContinueThread.
LEMMA Continues ==
  ASSUME ThreadInv, NEW c \in Clients, Continue(c)
  PROVE  Turns(c) /\ flow' \in [Clients -> Flow] /\ UNCHANGED <<crashes, request>>
<1>1. ThreadsTypeOK /\ UNCHANGED <<thread, turns, tasks, node, crashes, request>>
  BY DEF Continue, rows, ThreadInv
<1>2. PICK ask \in Asks :
        LET pair == Derive(ask.sender, ask.target) IN
        /\ Valid(pair)
        /\ Len(tasks) + TurnsLeft + ask.max <= MaxTasks
        /\ flow' = [flow EXCEPT ![c] =
             [at |-> "derived", sender |-> pair[1], target |-> pair[2],
              seen |-> Len(turns), asked |-> <<ask.sender, ask.target>> # <<None, None>>,
              mine |-> <<>>, max |-> ask.max, strict |-> ask.strict, polite |-> ask.polite]]
  BY DEF Continue
<1>3. PICK from, to : <<from, to>> = Derive(ask.sender, ask.target)
  BY DEF Derive
<1>4. from \in Pair /\ to \in Pair
  BY <1>2, <1>3, PairIs DEF Valid
<1>5. PICK asked \in BOOLEAN : asked = (<<ask.sender, ask.target>> # <<None, None>>)
  OBVIOUS
<1> DEFINE f == [at |-> "derived", sender |-> from, target |-> to,
                 seen |-> Len(turns), asked |-> asked,
                 mine |-> <<>>, max |-> ask.max, strict |-> ask.strict,
                 polite |-> ask.polite]
<1>6. flow' = [flow EXCEPT ![c] = f]
  <2>1. Derive(ask.sender, ask.target)[1] = from
        /\ Derive(ask.sender, ask.target)[2] = to
    BY <1>3
  <2> QED  BY <1>2, <1>5, <2>1
<1>7. ask.max \in Nat \ {0} /\ ask.strict \in BOOLEAN /\ ask.polite \in BOOLEAN
  <2>1. ask \in [sender : Agents, target : Agents, max : Nat \ {0},
                 strict : BOOLEAN, polite : BOOLEAN]
    BY <1>2, ThreadsAssumption
  <2> QED  BY <2>1
<1>8. f \in Flow
  <2>1. /\ from \in Agents /\ to \in Agents /\ Len(turns) \in Nat /\ ask.max \in Nat
        /\ <<>> \in Seq(Nat)
    BY <1>1, <1>4, <1>7, PairIs, RowsAre
  <2> QED  BY Zenon, <1>7, <2>1 DEF Flow
<1>9. ~asked => from = (IF thread.target # None THEN thread.target ELSE "a")
  <2>1. ~asked => ask.sender = None /\ ask.target = None
    BY <1>5
  <2>2. ~asked => <<from, to>> = Derive(None, None)
    BY <1>3, <2>1
  <2> QED  BY <2>2, DeriveIs
<1>10. /\ f.at = "derived" /\ f.sender = from /\ f.target = to /\ f.seen = Len(turns)
       /\ f.asked = asked /\ f.mine = <<>> /\ f.max = ask.max
  OBVIOUS
<1> HIDE DEF f
<1>11. flow'[c] = f /\ OthersRest(c) /\ flow' \in [Clients -> Flow]
  BY <1>1, <1>6, <1>8, FlowSet
<1>12. Derives(c)
  BY <1>4, <1>7, <1>9, <1>10, <1>11 DEF Derives
<1> QED  BY <1>1, <1>11, <1>12 DEF Turns

\* A request or a loop ends.
LEMMA Finishes ==
  ASSUME ThreadInv, NEW c \in Clients, GiveUp(c) \/ StopLoop(c) \/ WaitTimesOut(c)
  PROVE  Turns(c) /\ flow' \in [Clients -> Flow] /\ UNCHANGED <<crashes, request>>
<1>1. /\ UNCHANGED <<thread, turns, tasks, node, crashes, request>>
      /\ flow' = [flow EXCEPT ![c] = NoFlow]
  BY DEF GiveUp, StopLoop, WaitTimesOut, Finish, rows
<1>2. flow'[c] = NoFlow /\ OthersRest(c) /\ flow' \in [Clients -> Flow]
  BY <1>1, FlowSet, NoFlowIs DEF ThreadInv
<1> QED  BY <1>1, <1>2 DEF Turns

\* continueThreadAutoHandoff.
LEMMA HandsOff ==
  ASSUME ThreadInv, NEW c \in Clients, NextTurn(c)
  PROVE  Turns(c) /\ flow' \in [Clients -> Flow] /\ UNCHANGED <<crashes, request>>
<1>1. /\ UNCHANGED <<thread, turns, tasks, node, crashes, request>> /\ ThreadsTypeOK
      /\ flow[c].at = "waiting" /\ MayGoOn(c)
  BY DEF NextTurn, At, rows, ThreadInv
<1>2. PICK from : from = (IF thread.target # None THEN thread.target ELSE "a")
  OBVIOUS
<1>3. Derive(None, None) = <<from, Other(from)>>
  BY <1>2, DeriveIs
<1>4. from \in Pair /\ Other(from) \in Pair
  BY <1>1, <1>2, PairIs, RowsAre DEF Agents
<1> DEFINE f == [flow[c] EXCEPT !.at = "derived", !.sender = from, !.target = Other(from),
                                !.seen = Len(turns), !.asked = FALSE]
<1>5. flow' = [flow EXCEPT ![c] = f]
  <2>1. flow' = [flow EXCEPT ![c].at = "derived", ![c].sender = from,
                             ![c].target = Other(from), ![c].seen = Len(turns),
                             ![c].asked = FALSE]
    BY <1>3 DEF NextTurn, HandOff
  <2>2. flow \in [Clients -> Flow]
    BY <1>1 DEF ThreadsTypeOK
  <2> QED  BY <2>1, <2>2
<1>6. /\ f \in Flow
      /\ f.at = "derived" /\ f.sender = from /\ f.target = Other(from)
      /\ f.seen = Len(turns) /\ f.asked = FALSE
      /\ f.mine = flow[c].mine /\ f.max = flow[c].max
      /\ f.strict = flow[c].strict /\ f.polite = flow[c].polite
  <2>1. flow[c] \in Flow /\ Len(turns) \in Nat
    BY <1>1, FlowIs, RowsAre
  <2> QED  BY <1>4, <2>1, PairIs DEF Flow
<1> HIDE DEF f
<1>7. flow'[c] = f /\ OthersRest(c) /\ flow' \in [Clients -> Flow]
  BY <1>1, <1>5, <1>6, FlowSet
<1>8. /\ tasks[Newest(c)].ended # None
      /\ f.strict => tasks[Newest(c)].ended = "completed"
      /\ f.polite => f.sender # tasks[Newest(c)].sender
  <2>1. /\ Outcome(Newest(c))
        /\ f.strict => tasks[Newest(c)].status = "completed"
        /\ f.polite => f.sender # tasks[Newest(c)].sender
    BY <1>1, <1>3, <1>6 DEF MayGoOn
  <2>2. TaskFits(Newest(c))
    BY <1>1, NewestIs DEF ThreadInv, PairFits
  <2> QED  BY <2>1, <2>2 DEF TaskFits
<1>9. Derives(c)
  BY <1>1, <1>2, <1>4, <1>6, <1>7, <1>8 DEF Derives
<1> QED  BY <1>1, <1>7, <1>9 DEF Turns

\* The insert of a task.
LEMMA InsertIs ==
  ASSUME ThreadInv, NEW c \in Clients, InsertTask(c)
  PROVE  /\ Inserts(c) /\ flow' \in [Clients -> Flow] /\ tasks' \in Seq(Task)
         /\ UNCHANGED <<crashes, request>>
<1> DEFINE n == Len(tasks)
           x == [sender |-> flow[c].sender, target |-> flow[c].target,
                 status |-> "created", ended |-> None, runner |-> "none"]
           f == [flow[c] EXCEPT !.at = "inserted", !.mine = Append(@, n + 1)]
<1>1. /\ UNCHANGED <<thread, turns, node, crashes, request>> /\ node = "up"
      /\ flow[c].at = "derived" /\ ThreadsTypeOK /\ tasks' = Append(tasks, x)
      /\ flow' = [flow EXCEPT ![c].at = "inserted", ![c].mine = Append(@, n + 1)]
  BY DEF InsertTask, At, ThreadInv
<1>2. flow[c].sender \in Pair /\ flow[c].target \in Pair
  BY <1>1 DEF ThreadInv, PairFits
<1>3. /\ x \in Task /\ x.sender = flow[c].sender
      /\ x.status = "created" /\ x.ended = None /\ x.runner = "none"
  BY <1>2 DEF Task, Statuses
<1> HIDE DEF x
<1>4. /\ tasks' \in Seq(Task) /\ DOMAIN tasks' = 1..(n + 1) /\ tasks'[n + 1] = x
      /\ \A t \in 1..n : tasks'[t] = tasks[t]
  BY <1>1, <1>3, RowsAre
<1>5. flow' = [flow EXCEPT ![c] = f]
  <2>1. flow \in [Clients -> Flow]
    BY <1>1 DEF ThreadsTypeOK
  <2> QED  BY <1>1, <2>1
<1>6. f \in Flow
  <2>1. n + 1 \in Nat /\ Append(flow[c].mine, n + 1) \in Seq(Nat)
    BY <1>1, RowsAre, FlowIs
  <2> QED  BY <1>1, <2>1, FlowIs DEF Flow
<1>7. flow'[c] = f /\ OthersRest(c) /\ flow' \in [Clients -> Flow]
  BY <1>1, <1>5, <1>6, FlowSet
<1> QED  BY <1>1, <1>3, <1>4, <1>7 DEF Inserts

\* The append of a turn.
LEMMA AppendIs ==
  ASSUME ThreadInv, NEW c \in Clients, AppendTurn(c)
  PROVE  /\ Appends(c) /\ flow' \in [Clients -> Flow] /\ turns' \in Seq(Turn)
         /\ thread' \in [status : {None, "active", "interrupted"}, last : Nat,
                          actor : Agents, target : Agents]
         /\ UNCHANGED <<crashes, request>>
<1> DEFINE n == Len(turns)
           x == [index |-> n + 1, task |-> Newest(c), sender |-> flow[c].sender,
                 target |-> flow[c].target, seen |-> flow[c].seen, asked |-> flow[c].asked]
           f == [flow[c] EXCEPT !.at = "appended"]
<1>1. /\ UNCHANGED <<tasks, node, crashes, request>> /\ node = "up"
      /\ flow[c].at = "inserted" /\ ThreadsTypeOK /\ turns' = Append(turns, x)
      /\ thread' = [status |-> "active", last |-> Newest(c), actor |-> flow[c].sender,
                    target |-> flow[c].target]
      /\ flow' = [flow EXCEPT ![c].at = "appended"]
  BY DEF AppendTurn, AppendAt, At, ThreadInv
<1>2. /\ flow[c].sender \in Pair /\ flow[c].target \in Pair /\ flow[c].mine # <<>>
  BY <1>1 DEF ThreadInv, PairFits
<1>3. Newest(c) \in Nat /\ n + 1 \in Nat /\ n \in Nat
  BY <1>1, <1>2, NewestIs, RowsAre
<1>4. /\ x \in Turn /\ x.index = n + 1 /\ x.task = Newest(c)
      /\ x.sender = flow[c].sender /\ x.target = flow[c].target
      /\ x.seen = flow[c].seen /\ x.asked = flow[c].asked
  BY <1>1, <1>2, <1>3, FlowIs DEF Turn
<1> HIDE DEF x
<1>5. /\ turns' \in Seq(Turn) /\ DOMAIN turns' = 1..(n + 1) /\ turns'[n + 1] = x
      /\ Len(turns') = n + 1 /\ \A i \in 1..n : turns'[i] = turns[i]
  BY <1>1, <1>4, RowsAre
<1>6. thread' \in [status : {None, "active", "interrupted"}, last : Nat,
                   actor : Agents, target : Agents]
  BY <1>1, <1>2, <1>3, PairIs
<1>7. flow' = [flow EXCEPT ![c] = f]
  <2>1. flow \in [Clients -> Flow]
    BY <1>1 DEF ThreadsTypeOK
  <2> QED  BY <1>1, <2>1
<1>8. f \in Flow
  BY <1>1, FlowIs DEF Flow
<1>9. flow'[c] = f /\ OthersRest(c) /\ flow' \in [Clients -> Flow]
  BY <1>1, <1>7, <1>8, FlowSet
<1> QED  BY <1>1, <1>4, <1>5, <1>6, <1>9 DEF Appends

\* The start of the goroutine.
LEMMA StartIs ==
  ASSUME ThreadInv, NEW c \in Clients, StartTask(c)
  PROVE  /\ Starts(c) /\ flow' \in [Clients -> Flow] /\ tasks' \in Seq(Task)
         /\ UNCHANGED <<crashes, request>>
<1> DEFINE f == [flow[c] EXCEPT !.at = "waiting"]
<1>1. /\ UNCHANGED <<thread, turns, node, crashes, request>> /\ node = "up"
      /\ flow[c].at = "appended" /\ ThreadsTypeOK
      /\ tasks' = [tasks EXCEPT ![Newest(c)].runner = "live"]
      /\ IF Len(flow[c].mine) < flow[c].max
           THEN flow' = [flow EXCEPT ![c].at = "waiting"]
           ELSE flow' = [flow EXCEPT ![c] = NoFlow]
  BY DEF StartTask, Finish, At, ThreadInv
<1>2. PICK t : t = Newest(c)
  OBVIOUS
<1>3. t \in DOMAIN tasks
  BY <1>1, <1>2, NewestIs DEF ThreadInv, PairFits
<1>4. tasks' \in Seq(Task)
  <2>1. [tasks[t] EXCEPT !.runner = "live"] \in Task
    BY <1>1, <1>3, RowsAre DEF Task
  <2>2. tasks' = [tasks EXCEPT ![t] = [tasks[t] EXCEPT !.runner = "live"]]
    BY <1>1, <1>2
  <2>3. tasks \in [1..Len(tasks) -> Task] /\ t \in 1..Len(tasks) /\ Len(tasks) \in Nat
    BY <1>1, <1>3, RowsAre
  <2>4. tasks' \in [1..Len(tasks) -> Task]
    BY <2>1, <2>2, <2>3
  <2> QED  BY <2>3, <2>4
<1>5. flow \in [Clients -> Flow]
  BY <1>1 DEF ThreadsTypeOK
<1>6. f \in Flow
  BY <1>1, FlowIs DEF Flow
<1>7. CASE Len(flow[c].mine) < flow[c].max
  <2>1. flow' = [flow EXCEPT ![c] = f]
    BY <1>1, <1>5, <1>7
  <2>2. flow'[c] = f /\ OthersRest(c) /\ flow' \in [Clients -> Flow]
    BY <1>1, <1>6, <2>1, FlowSet
  <2> QED  BY <1>1, <1>4, <1>7, <2>2 DEF Starts
<1>8. CASE ~(Len(flow[c].mine) < flow[c].max)
  <2>1. flow'[c] = NoFlow /\ OthersRest(c) /\ flow' \in [Clients -> Flow]
    BY <1>1, <1>8, FlowSet, NoFlowIs
  <2> QED  BY <1>1, <1>4, <2>1 DEF Starts
<1> QED  BY <1>7, <1>8

\* Another record for one task.
LEMMA TaskSet ==
  ASSUME ThreadsTypeOK, NEW t \in DOMAIN tasks, NEW x \in Task,
         tasks' = [tasks EXCEPT ![t] = x]
  PROVE  /\ tasks' \in Seq(Task) /\ DOMAIN tasks' = DOMAIN tasks /\ tasks'[t] = x
         /\ \A u \in DOMAIN tasks \ {t} : tasks'[u] = tasks[u]
<1>1. tasks \in [1..Len(tasks) -> Task] /\ t \in 1..Len(tasks) /\ Len(tasks) \in Nat
  BY RowsAre
<1>2. tasks' \in [1..Len(tasks) -> Task] /\ DOMAIN tasks' = DOMAIN tasks
  BY <1>1
<1>3. tasks' \in Seq(Task)
  BY <1>1, <1>2
<1> QED  BY <1>1, <1>2, <1>3

\* The last task of the thread is one of its tasks.
LEMMA LastIs ==
  ASSUME ThreadInv, thread.last # 0
  PROVE  /\ turns # <<>> /\ thread.last \in DOMAIN tasks
         /\ thread.status \in {"active", "interrupted"}
<1>1. ThreadsTypeOK /\ RowFits /\ \A i \in DOMAIN turns : TurnFits(i)
  BY DEF ThreadInv
<1>2. turns # <<>>
  BY <1>1 DEF RowFits
<1>3. Len(turns) \in DOMAIN turns
  BY <1>1, <1>2, RowsAre
<1> QED  BY <1>1, <1>2, <1>3, RowsAre DEF RowFits, TurnFits

\* A report is a record of its own ...
LEMMA ReportIs ==
  ASSUME ThreadsTypeOK, NEW t \in DOMAIN tasks, NEW s \in Statuses,
         NEW runner \in {"none", "live", "over", "lost", "killed"}
  PROVE  \E x \in Task :
           /\ Reported(t, s, runner) = [tasks EXCEPT ![t] = x]
           /\ Reported(t, s, runner)[t] = x
           /\ x.sender = tasks[t].sender /\ x.target = tasks[t].target
           /\ x.status = s /\ x.runner = runner
           /\ x.ended = IF tasks[t].ended = None /\ s \in Terminal THEN s
                        ELSE tasks[t].ended
<1>1. PICK ended : ended = IF tasks[t].ended = None /\ s \in Terminal THEN s
                           ELSE tasks[t].ended
  OBVIOUS
<1>2. tasks[t] \in Task /\ ended \in {None} \cup Terminal
  BY <1>1, RowsAre
<1> DEFINE x == [tasks[t] EXCEPT !.status = s, !.runner = runner, !.ended = ended]
<1>3. Reported(t, s, runner) = [tasks EXCEPT ![t] = x]
  BY <1>1, <1>2 DEF Reported, Task
<1>4. /\ x \in Task /\ x.sender = tasks[t].sender /\ x.target = tasks[t].target
      /\ x.status = s /\ x.runner = runner /\ x.ended = ended
  BY <1>2 DEF Task
<1> HIDE DEF x
<1>5. Reported(t, s, runner)[t] = x
  BY <1>3
<1> QED  BY <1>1, <1>3, <1>4, <1>5

\* ... and keeps the first outcome.
LEMMA ReportKeeps ==
  ASSUME ThreadInv, NEW t \in DOMAIN tasks, NEW s \in Statuses,
         NEW runner \in {"none", "live", "over", "lost", "killed"},
         s = "completed" => tasks[t].ended = None,
         tasks' = Reported(t, s, runner)
  PROVE  /\ tasks' \in Seq(Task) /\ DOMAIN tasks' = DOMAIN tasks /\ Keeps(t)
         /\ \A u \in DOMAIN tasks \ {t} : tasks'[u] = tasks[u]
         /\ tasks'[t].status = s /\ tasks'[t].runner = runner
         /\ s \notin Terminal => tasks'[t].ended = tasks[t].ended
<1>1. ThreadsTypeOK
  BY DEF ThreadInv
<1>2. PICK x \in Task :
        /\ tasks' = [tasks EXCEPT ![t] = x]
        /\ x.sender = tasks[t].sender /\ x.target = tasks[t].target
        /\ x.status = s /\ x.runner = runner
        /\ x.ended = IF tasks[t].ended = None /\ s \in Terminal THEN s
                     ELSE tasks[t].ended
  BY <1>1, ReportIs
<1>3. /\ tasks' \in Seq(Task) /\ DOMAIN tasks' = DOMAIN tasks /\ tasks'[t] = x
      /\ \A u \in DOMAIN tasks \ {t} : tasks'[u] = tasks[u]
  BY <1>1, <1>2, TaskSet
<1>4. Keeps(t)
  BY <1>2, <1>3 DEF Keeps, Terminal, None
<1> QED  BY <1>2, <1>3, <1>4

\* A goroutine that ends without another report.
LEMMA ReturnIs ==
  ASSUME ThreadInv, NEW t \in DOMAIN tasks, NEW runner \in {"over", "lost"},
         tasks' = [tasks EXCEPT ![t].runner = runner]
  PROVE  /\ tasks' \in Seq(Task) /\ DOMAIN tasks' = DOMAIN tasks /\ Keeps(t)
         /\ \A u \in DOMAIN tasks \ {t} : tasks'[u] = tasks[u]
         /\ tasks'[t].ended = tasks[t].ended /\ tasks'[t].runner = runner
<1>1. ThreadsTypeOK /\ TaskFits(t)
  BY DEF ThreadInv
<1>2. tasks[t] \in Task
  BY <1>1, RowsAre
<1> DEFINE x == [tasks[t] EXCEPT !.runner = runner]
<1>3. tasks' = [tasks EXCEPT ![t] = x]
  BY <1>2
<1>4. /\ x \in Task /\ x.sender = tasks[t].sender /\ x.target = tasks[t].target
      /\ x.status = tasks[t].status /\ x.runner = runner /\ x.ended = tasks[t].ended
  BY <1>2 DEF Task
<1> HIDE DEF x
<1>5. /\ tasks' \in Seq(Task) /\ DOMAIN tasks' = DOMAIN tasks /\ tasks'[t] = x
      /\ \A u \in DOMAIN tasks \ {t} : tasks'[u] = tasks[u]
  BY <1>1, <1>3, <1>4, TaskSet
<1>6. Keeps(t)
  BY <1>1, <1>4, <1>5 DEF Keeps, TaskFits, Outcome
<1> QED  BY <1>4, <1>5, <1>6

\* runTask or relayRemoteTask goes on.
LEMMA WorkIs ==
  ASSUME ThreadInv, NEW t \in DOMAIN tasks,
         RunTask(t) \/ Mirror(t) \/ RelayEnds(t) \/ LoseTask(t)
  PROVE  Works(t) /\ tasks' \in Seq(Task) /\ UNCHANGED <<crashes, request>>
<1>1. /\ UNCHANGED <<thread, turns, flow, node, crashes, request>> /\ node = "up"
      /\ tasks[t].runner = "live" /\ TaskFits(t)
  BY DEF RunTask, Mirror, RelayEnds, LoseTask, Live, ThreadInv
<1>2. CASE RunTask(t)
  <2>1. PICK s \in Reports : tasks' = Reported(t, s, IF s \in Terminal THEN "over" ELSE "live")
    BY <1>2 DEF RunTask
  <2>2. PICK runner \in {"over", "live"} : runner = IF s \in Terminal THEN "over" ELSE "live"
    OBVIOUS
  <2>3. tasks[t].ended = None
    BY <1>1, <1>2 DEF RunTask, TaskFits
  <2>4. /\ tasks' \in Seq(Task) /\ DOMAIN tasks' = DOMAIN tasks /\ Keeps(t)
        /\ \A u \in DOMAIN tasks \ {t} : tasks'[u] = tasks[u]
        /\ tasks'[t].status = s /\ tasks'[t].runner = runner
        /\ s \notin Terminal => tasks'[t].ended = tasks[t].ended
    BY <2>1, <2>2, <2>3, ReportKeeps, ThreadsAssumption
  <2> QED  BY <1>1, <2>2, <2>3, <2>4 DEF Works, Keeps
<1>3. CASE Mirror(t)
  <2>1. PICK s \in Reports : /\ tasks[t].ended # None => s \notin {"completed", "cancelled"}
                             /\ tasks' = Reported(t, s, "live")
    BY <1>3 DEF Mirror
  <2>2. /\ tasks' \in Seq(Task) /\ DOMAIN tasks' = DOMAIN tasks /\ Keeps(t)
        /\ \A u \in DOMAIN tasks \ {t} : tasks'[u] = tasks[u]
        /\ tasks'[t].runner = "live"
    BY <2>1, ReportKeeps, ThreadsAssumption
  <2> QED  BY <1>1, <1>3, <2>2 DEF Works, Mirror
<1>4. CASE RelayEnds(t)
  <2>1. CASE tasks[t].ended # None /\ tasks' = [tasks EXCEPT ![t].runner = "over"]
    <3>1. /\ tasks' \in Seq(Task) /\ DOMAIN tasks' = DOMAIN tasks /\ Keeps(t)
          /\ \A u \in DOMAIN tasks \ {t} : tasks'[u] = tasks[u]
          /\ tasks'[t].ended = tasks[t].ended /\ tasks'[t].runner = "over"
      BY <2>1, ReturnIs
    <3> QED  BY <1>1, <2>1, <3>1 DEF Works
  <2>2. CASE tasks' = Reported(t, "failed", "over")
    <3>1. /\ tasks' \in Seq(Task) /\ DOMAIN tasks' = DOMAIN tasks /\ Keeps(t)
          /\ \A u \in DOMAIN tasks \ {t} : tasks'[u] = tasks[u]
          /\ tasks'[t].status = "failed" /\ tasks'[t].runner = "over"
      BY <2>2, ReportKeeps DEF Statuses, Terminal
    <3> QED  BY <1>1, <3>1 DEF Works, Keeps, Terminal
  <2> QED  BY <1>4, <2>1, <2>2 DEF RelayEnds
<1>5. CASE LoseTask(t)
  <2>1. /\ tasks' \in Seq(Task) /\ DOMAIN tasks' = DOMAIN tasks /\ Keeps(t)
        /\ \A u \in DOMAIN tasks \ {t} : tasks'[u] = tasks[u]
        /\ tasks'[t].runner = "lost"
    BY <1>5, ReturnIs DEF LoseTask
  <2> QED  BY <1>1, <2>1 DEF Works
<1> QED  BY <1>1, <1>2, <1>3, <1>4, <1>5

\* CancelTask or ResumeTask ends, with its event or without one.
LEMMA RequestEnds ==
  ASSUME ThreadInv, NEW h \in Handlers, EndRequest(h)
  PROVE  /\ Steps /\ tasks' \in Seq(Task) /\ request' = [request EXCEPT ![h] = NoRequest]
         /\ UNCHANGED <<thread, turns, flow, node, crashes>>
<1>1. /\ UNCHANGED <<thread, turns, flow, node, crashes>> /\ node = "up"
      /\ request[h].task # 0 /\ request' = [request EXCEPT ![h] = NoRequest]
      /\ ThreadsTypeOK /\ RequestFits(h)
  BY DEF EndRequest, ThreadInv
<1>2. PICK t : t = request[h].task
  OBVIOUS
<1>3. /\ t \in DOMAIN tasks /\ tasks[t].runner # "none" /\ request[h].seen \notin Terminal
      /\ request[h].seen \in Statuses
  BY <1>1, <1>2 DEF RequestFits, ThreadsTypeOK
<1>4. CASE tasks' = Reported(t, request[h].seen, tasks[t].runner)
  <2>1. PICK s \in Statuses : s = request[h].seen /\ s \notin Terminal
    BY <1>3
  <2>2. PICK runner \in {"none", "live", "over", "lost", "killed"} : runner = tasks[t].runner
    BY <1>1, <1>3, RowsAre
  <2>3. /\ tasks' \in Seq(Task) /\ DOMAIN tasks' = DOMAIN tasks /\ Keeps(t)
        /\ \A u \in DOMAIN tasks \ {t} : tasks'[u] = tasks[u]
        /\ tasks'[t].status = s /\ tasks'[t].runner = runner
        /\ tasks'[t].ended = tasks[t].ended
    BY <1>3, <1>4, <2>1, <2>2, ReportKeeps DEF Terminal
  <2>4. Works(t)
    BY <1>1, <1>3, <2>1, <2>2, <2>3 DEF Works
  <2> QED  BY <1>1, <1>3, <2>3, <2>4 DEF Steps
<1>5. CASE UNCHANGED tasks
  BY <1>1, <1>5, RowsAre DEF Steps, Stays
<1> QED  BY <1>1, <1>2, <1>4, <1>5 DEF EndRequest

\* The node crashes.
LEMMA CrashIs ==
  ASSUME ThreadInv, Crash
  PROVE  /\ Dies /\ tasks' \in Seq(Task) /\ flow' \in [Clients -> Flow]
         /\ request' = [h \in Handlers |-> NoRequest] /\ crashes' \in 0..MaxCrashes
<1> DEFINE Left(t) == IF tasks[t].runner \in {"over", "killed"} THEN tasks[t].runner
                      ELSE IF Outcome(t) THEN "over" ELSE "killed"
           Cut(t) == CASE tasks[t].runner \in {"over", "killed"} -> tasks[t]
                       [] OTHER -> [tasks[t] EXCEPT !.runner =
                                      IF Outcome(t) THEN "over" ELSE "killed"]
<1>1. /\ UNCHANGED <<thread, turns>> /\ node = "up" /\ node' = "down" /\ ThreadsTypeOK
      /\ crashes < MaxCrashes /\ crashes' = crashes + 1
      /\ tasks' = [t \in DOMAIN tasks |-> Cut(t)]
      /\ flow' = [c \in Clients |-> NoFlow]
      /\ request' = [h \in Handlers |-> NoRequest]
  BY DEF Crash, ThreadInv
<1>2. ASSUME NEW t \in DOMAIN tasks
      PROVE  /\ Cut(t) \in Task /\ Cut(t).runner = Left(t)
             /\ Cut(t).sender = tasks[t].sender /\ Cut(t).target = tasks[t].target
             /\ Cut(t).status = tasks[t].status /\ Cut(t).ended = tasks[t].ended
  <2>1. tasks[t] \in Task
    BY <1>1, RowsAre
  <2>2. CASE tasks[t].runner \in {"over", "killed"}
    BY <2>1, <2>2
  <2>3. CASE tasks[t].runner \notin {"over", "killed"}
    <3>1. PICK left \in {"over", "killed"} : left = IF Outcome(t) THEN "over" ELSE "killed"
      OBVIOUS
    <3>2. Cut(t) = [tasks[t] EXCEPT !.runner = left] /\ Left(t) = left
      BY <2>3, <3>1
    <3> QED  BY <2>1, <3>2 DEF Task
  <2> QED  BY <2>2, <2>3
<1> HIDE DEF Cut
<1>3. tasks' \in Seq(Task)
  <2>1. tasks' \in [1..Len(tasks) -> Task] /\ Len(tasks) \in Nat
    BY <1>1, <1>2, RowsAre
  <2> QED  BY <2>1
<1>4. Dies
  BY <1>1, <1>2 DEF Dies
<1>5. flow' \in [Clients -> Flow]
  BY <1>1, NoFlowIs
<1>6. crashes' \in 0..MaxCrashes
  BY <1>1, ThreadsAssumption DEF ThreadsTypeOK
<1> QED  BY <1>1, <1>3, <1>4, <1>5, <1>6

\* reconcileRestartState: proxies that were cut off fail, the others stay.
LEMMA FailIs ==
  ASSUME ThreadInv, node = "down", FailRelayed
  PROVE  /\ tasks' \in Seq(Task) /\ DOMAIN tasks' = DOMAIN tasks
         /\ \A t \in DOMAIN tasks : tasks'[t] = tasks[t] \/ Fails(t)
<1>1. ThreadsTypeOK
  BY DEF ThreadInv
<1>2. PICK failed \in SUBSET Relayed :
        tasks' = [t \in DOMAIN tasks |->
          IF t \in failed THEN Reported(t, "failed", "killed")[t] ELSE tasks[t]]
  BY DEF FailRelayed
<1>3. ASSUME NEW t \in DOMAIN tasks
      PROVE  tasks'[t] \in Task /\ (tasks'[t] = tasks[t] \/ Fails(t))
  <2>1. CASE t \notin failed
    BY <1>1, <1>2, <2>1, RowsAre
  <2>2. CASE t \in failed
    <3>1. PICK x \in Task :
            /\ Reported(t, "failed", "killed")[t] = x
            /\ x.sender = tasks[t].sender /\ x.target = tasks[t].target
            /\ x.status = "failed" /\ x.runner = "killed"
            /\ x.ended = IF tasks[t].ended = None /\ "failed" \in Terminal THEN "failed"
                         ELSE tasks[t].ended
      BY <1>1, ReportIs DEF Statuses, Terminal
    <3>2. tasks'[t] = x
      BY <1>2, <2>2, <3>1
    <3>3. tasks[t].runner = "killed"
      BY <2>2 DEF Relayed
    <3>4. Keeps(t)
      BY <3>1, <3>2 DEF Keeps, Terminal, None
    <3> QED  BY <3>1, <3>2, <3>3, <3>4 DEF Fails
  <2> QED  BY <2>1, <2>2
<1>4. tasks' \in [1..Len(tasks) -> Task] /\ Len(tasks) \in Nat /\ DOMAIN tasks' = DOMAIN tasks
  BY <1>1, <1>2, <1>3, RowsAre
<1> QED  BY <1>3, <1>4

\* The row is created, or marked after a restart.
LEMMA MarkIs ==
  ASSUME ThreadInv, CreateThread \/ Restart
  PROVE  /\ Marks /\ UNCHANGED <<crashes, request>> /\ tasks' \in Seq(Task)
         /\ thread' \in [status : {None, "active", "interrupted"}, last : Nat,
                          actor : Agents, target : Agents]
<1>1. /\ thread \in [status : {None, "active", "interrupted"}, last : Nat,
                     actor : Agents, target : Agents]
      /\ ThreadsTypeOK
  BY DEF ThreadInv, ThreadsTypeOK
<1>2. /\ UNCHANGED <<turns, flow, crashes, request>>
  BY DEF CreateThread, Restart
<1>3. /\ tasks' \in Seq(Task) /\ DOMAIN tasks' = DOMAIN tasks
      /\ \A t \in DOMAIN tasks : tasks'[t] = tasks[t] \/ Fails(t)
  <2>1. CASE CreateThread
    BY <1>1, <2>1, RowsAre DEF CreateThread
  <2>2. CASE Restart
    BY <2>2, FailIs DEF Restart
  <2> QED  BY <2>1, <2>2
<1>4. PICK s : /\ thread' = [thread EXCEPT !.status = s]
               /\ \/ thread.status = None /\ s = "active" /\ node' = node
                  \/ /\ node = "down" /\ node' = "up"
                     /\ s = IF /\ thread.status = "active" /\ thread.last # 0
                              /\ ~Outcome(thread.last)
                             THEN "interrupted" ELSE thread.status
  <2>1. CASE CreateThread
    BY <2>1 DEF CreateThread
  <2>2. CASE Restart
    <3>1. PICK marked : marked = (/\ thread.status = "active" /\ thread.last # 0
                                  /\ tasks[thread.last].status \in Statuses \ Terminal)
      OBVIOUS
    <3>2. thread.last # 0 => tasks[thread.last].status \in Statuses
      BY <1>1, LastIs, RowsAre
    <3>3. marked = (/\ thread.status = "active" /\ thread.last # 0 /\ ~Outcome(thread.last))
      BY <3>1, <3>2 DEF Outcome
    <3>4. thread' = [thread EXCEPT !.status = IF marked THEN "interrupted" ELSE @]
      BY <2>2, <3>1 DEF Restart, MarkThread
    <3> QED  BY <1>1, <2>2, <3>3, <3>4 DEF Restart
  <2> QED  BY <2>1, <2>2
<1>5. s \in {None, "active", "interrupted"}
  BY <1>1, <1>4
<1>6. /\ thread'.status = s /\ thread'.last = thread.last
      /\ thread'.actor = thread.actor /\ thread'.target = thread.target
      /\ thread' \in [status : {None, "active", "interrupted"}, last : Nat,
                       actor : Agents, target : Agents]
  BY <1>1, <1>4, <1>5
<1>7. Marks
  BY <1>2, <1>3, <1>4, <1>6 DEF Marks
<1> QED  BY <1>2, <1>3, <1>6, <1>7

\* A request that has ended.
LEMMA NoRequestIs ==
  /\ NoRequest \in [task : Nat, seen : Statuses] /\ NoRequest.task = 0
BY DEF NoRequest, Statuses

\* Every step is one of these, and keeps the types.
LEMMA AllSteps ==
  ASSUME ThreadInv, [Next]_vars
  PROVE  Steps /\ ThreadsTypeOK' /\ \A h \in Handlers : HasLoaded(h)
<1> DEFINE T == [status : {None, "active", "interrupted"}, last : Nat,
                 actor : Agents, target : Agents]
           R == [Handlers -> [task : Nat, seen : Statuses]]
<1>1. /\ thread \in T /\ turns \in Seq(Turn) /\ tasks \in Seq(Task)
      /\ flow \in [Clients -> Flow] /\ request \in R /\ node \in {"up", "down"}
      /\ crashes \in 0..MaxCrashes
  BY DEF ThreadInv, ThreadsTypeOK
<1>2. ASSUME thread' \in T, turns' \in Seq(Turn), tasks' \in Seq(Task),
             flow' \in [Clients -> Flow], request' \in R, node' \in {"up", "down"},
             crashes' \in 0..MaxCrashes
      PROVE  ThreadsTypeOK'
  BY <1>2 DEF ThreadsTypeOK
<1>3. UNCHANGED request => \A h \in Handlers : HasLoaded(h)
  BY DEF HasLoaded
<1> HIDE DEF T
<1>4. ASSUME NEW c \in Clients, Continue(c) \/ GiveUp(c) \/ FlowStep(c)
      PROVE  Steps /\ ThreadsTypeOK' /\ UNCHANGED request
  <2>1. CASE \/ Continue(c) \/ GiveUp(c) \/ NextTurn(c) \/ StopLoop(c) \/ WaitTimesOut(c)
    <3>1. Turns(c) /\ flow' \in [Clients -> Flow] /\ UNCHANGED <<crashes, request>>
      BY <2>1, Continues, Finishes, HandsOff
    <3> QED  BY <1>1, <1>2, <3>1 DEF Steps, Turns
  <2>2. CASE InsertTask(c)
    <3>1. /\ Inserts(c) /\ flow' \in [Clients -> Flow] /\ tasks' \in Seq(Task)
          /\ UNCHANGED <<crashes, request>>
      BY <2>2, InsertIs
    <3> QED  BY <1>1, <1>2, <3>1 DEF Steps, Inserts
  <2>3. CASE AppendTurn(c)
    <3>1. /\ Appends(c) /\ flow' \in [Clients -> Flow] /\ turns' \in Seq(Turn)
          /\ thread' \in T /\ UNCHANGED <<crashes, request>>
      BY <2>3, AppendIs DEF T
    <3> QED  BY <1>1, <1>2, <3>1 DEF Steps, Appends
  <2>4. CASE StartTask(c)
    <3>1. /\ Starts(c) /\ flow' \in [Clients -> Flow] /\ tasks' \in Seq(Task)
          /\ UNCHANGED <<crashes, request>>
      BY <2>4, StartIs
    <3> QED  BY <1>1, <1>2, <3>1 DEF Steps, Starts
  <2> QED  BY <1>4, <2>1, <2>2, <2>3, <2>4 DEF FlowStep
<1>5. ASSUME NEW t \in DOMAIN tasks, RunTask(t) \/ Mirror(t) \/ RelayEnds(t) \/ LoseTask(t)
      PROVE  Steps /\ ThreadsTypeOK' /\ UNCHANGED request
  <2>1. Works(t) /\ tasks' \in Seq(Task) /\ UNCHANGED <<crashes, request>>
    BY <1>5, WorkIs
  <2> QED  BY <1>1, <1>2, <2>1 DEF Steps, Works
<1>6. ASSUME NEW h \in Handlers, EndRequest(h)
      PROVE  Steps /\ ThreadsTypeOK' /\ \A g \in Handlers : HasLoaded(g)
  <2>1. /\ Steps /\ tasks' \in Seq(Task) /\ request' = [request EXCEPT ![h] = NoRequest]
        /\ UNCHANGED <<thread, turns, flow, node, crashes>>
    BY <1>6, RequestEnds
  <2>2. request' \in R /\ \A g \in Handlers : HasLoaded(g)
    BY <1>1, <2>1, NoRequestIs DEF HasLoaded
  <2> QED  BY <1>1, <1>2, <2>1, <2>2
<1>7. ASSUME NEW h \in Handlers, NEW t \in DOMAIN tasks, LoadRequest(h, t)
      PROVE  Steps /\ ThreadsTypeOK' /\ \A g \in Handlers : HasLoaded(g)
  <2> DEFINE r == [task |-> t, seen |-> tasks[t].status]
  <2>1. /\ UNCHANGED <<thread, turns, tasks, flow, node, crashes>>
        /\ tasks[t].runner # "none" /\ tasks[t].status \notin Terminal
        /\ request' = [request EXCEPT ![h] = r]
    BY <1>7 DEF LoadRequest, Outcome, rows
  <2>2. r \in [task : Nat, seen : Statuses]
    BY RowsAre DEF ThreadInv
  <2>3. request' \in R /\ request'[h] = r /\ \A g \in Handlers \ {h} : request'[g] = request[g]
    BY <1>1, <2>1, <2>2
  <2>4. \A g \in Handlers : HasLoaded(g)
    BY <2>1, <2>3 DEF HasLoaded
  <2> QED  BY <1>1, <1>2, <2>1, <2>3, <2>4 DEF Steps, Stays
<1>8. CASE Crash
  <2>1. /\ Dies /\ tasks' \in Seq(Task) /\ flow' \in [Clients -> Flow]
        /\ request' = [h \in Handlers |-> NoRequest] /\ crashes' \in 0..MaxCrashes
    BY <1>8, CrashIs
  <2>2. request' \in R /\ \A h \in Handlers : HasLoaded(h)
    BY <2>1, NoRequestIs DEF HasLoaded
  <2> QED  BY <1>1, <1>2, <2>1, <2>2 DEF Steps, Dies
<1>9. CASE CreateThread \/ Restart
  <2>1. Marks /\ UNCHANGED <<crashes, request>> /\ thread' \in T /\ tasks' \in Seq(Task)
    BY <1>9, MarkIs DEF T
  <2> QED  BY <1>1, <1>2, <1>3, <2>1 DEF Steps, Marks
<1>10. CASE UNCHANGED vars
  BY <1>1, <1>2, <1>3, <1>10 DEF vars, Steps, Stays
<1> QED  BY <1>3, <1>4, <1>5, <1>6, <1>7, <1>8, <1>9, <1>10 DEF Next

-----------------------------------------------------------------------------
(* What every step keeps *)

\* A task stays what it is and keeps its first outcome; what has begun has begun.
LEMMA TasksPersist ==
  ASSUME ThreadInv, Steps, NEW t \in DOMAIN tasks
  PROVE  /\ t \in DOMAIN tasks' /\ tasks'[t].sender = tasks[t].sender
         /\ tasks[t].ended # None => tasks'[t].ended = tasks[t].ended
         /\ tasks[t].runner # "none" => tasks'[t].runner # "none"
<1>1. ThreadsTypeOK
  BY DEF ThreadInv
<1>2. /\ Len(tasks) \in Nat /\ DOMAIN tasks = 1..Len(tasks) /\ tasks[t] \in Task
  BY <1>1, RowsAre
<1>3. CASE tasks' = tasks
  BY <1>3
<1>4. ASSUME NEW c \in Clients, Inserts(c)
      PROVE  t \in DOMAIN tasks' /\ tasks'[t] = tasks[t]
  BY <1>2, <1>4 DEF Inserts
<1>5. ASSUME NEW c \in Clients, Starts(c)
      PROVE  /\ t \in DOMAIN tasks' /\ tasks'[t].sender = tasks[t].sender
             /\ tasks'[t].ended = tasks[t].ended
             /\ tasks[t].runner # "none" => tasks'[t].runner # "none"
  <2>1. PICK u : u = Newest(c)
    OBVIOUS
  <2>2. tasks' = [tasks EXCEPT ![u].runner = "live"]
    BY <1>5, <2>1 DEF Starts
  <2> QED  BY <1>2, <2>2 DEF Task
<1>6. ASSUME NEW u \in DOMAIN tasks, Works(u)
      PROVE  /\ t \in DOMAIN tasks' /\ tasks'[t].sender = tasks[t].sender
             /\ tasks[t].ended # None => tasks'[t].ended = tasks[t].ended
             /\ tasks[t].runner # "none" => tasks'[t].runner # "none"
  BY <1>6 DEF Works, Keeps
<1>7. CASE Dies
  BY <1>7 DEF Dies
<1>8. CASE Marks
  BY <1>8 DEF Marks, Fails, Keeps
<1> QED  BY <1>3, <1>4, <1>5, <1>6, <1>7, <1>8 DEF Steps, Turns, Appends, Stays

\* A turn stays where it is.
LEMMA TurnsPersist ==
  ASSUME ThreadInv, Steps, NEW i \in DOMAIN turns
  PROVE  i \in DOMAIN turns' /\ turns'[i] = turns[i]
<1>1. CASE turns' = turns
  BY <1>1
<1>2. ASSUME NEW c \in Clients, Appends(c)
      PROVE  i \in DOMAIN turns' /\ turns'[i] = turns[i]
  <2>1. Len(turns) \in Nat /\ DOMAIN turns = 1..Len(turns)
    BY RowsAre DEF ThreadInv
  <2> QED  BY <1>2, <2>1 DEF Appends
<1> QED  BY <1>1, <1>2 DEF Steps, Turns, Inserts, Starts, Works, Dies, Marks, Stays

\* Turns change only by an append.
LEMMA TurnsBy ==
  ASSUME Steps
  PROVE  turns' = turns \/ \E c \in Clients : Appends(c)
BY DEF Steps, Turns, Inserts, Starts, Works, Dies, Marks, Stays

\* Turns stay numbered, apart, and alternating.
LEMMA TurnsStep ==
  ASSUME ThreadInv, Steps
  PROVE  (\A i \in DOMAIN turns : TurnFits(i))' /\ TurnsApart'
<1>1. /\ Len(turns) \in Nat /\ DOMAIN turns = 1..Len(turns)
      /\ \A i \in DOMAIN turns : TurnFits(i)
      /\ TurnsApart
  BY RowsAre DEF ThreadInv
<1>2. CASE turns' = turns
  <2>1. ASSUME NEW i \in DOMAIN turns
        PROVE  TurnFits(i)'
    BY <1>1, <1>2, <2>1, TasksPersist DEF TurnFits
  <2> QED  BY <1>1, <1>2, <2>1 DEF TurnsApart
<1>3. ASSUME NEW c \in Clients, Appends(c)
      PROVE  (\A i \in DOMAIN turns : TurnFits(i))' /\ TurnsApart'
  <2>1. PICK n : n = Len(turns)
    OBVIOUS
  <2>2. PICK t : t = Newest(c)
    OBVIOUS
  <2>3. /\ DOMAIN turns' = 1..(n + 1) /\ \A i \in 1..n : turns'[i] = turns[i]
        /\ turns'[n + 1].index = n + 1 /\ turns'[n + 1].task = t
        /\ turns'[n + 1].sender = flow[c].sender
        /\ turns'[n + 1].seen = flow[c].seen /\ turns'[n + 1].asked = flow[c].asked
        /\ tasks' = tasks /\ flow[c].at = "inserted"
    BY <1>3, <2>1, <2>2 DEF Appends
  <2>4. t \in DOMAIN tasks /\ ~InTurn(t)
    BY <2>2, <2>3, NewestIs DEF ThreadInv, NewestFits, PairFits
  <2>5. ASSUME n + 1 > 1, ~flow[c].asked, flow[c].seen = n
        PROVE  flow[c].sender = turns[n].target
    <3>1. turns # <<>>
      BY <1>1, <2>1, <2>5
    <3>2. flow[c].sender = thread.target
      BY <2>1, <2>3, <2>5, <3>1 DEF ThreadInv, AnswerFits
    <3>3. thread.target = turns[n].target
      BY <2>1, <3>1 DEF ThreadInv, RowFits
    <3> QED  BY <3>2, <3>3
  <2>6. ASSUME NEW i \in 1..(n + 1)
        PROVE  TurnFits(i)'
    <3>1. CASE i = n + 1
      <4>1. n + 1 > 1 => turns'[n] = turns[n]
        BY <1>1, <2>1, <2>3
      <4> QED  BY <1>1, <2>1, <2>3, <2>4, <2>5, <3>1, <4>1 DEF TurnFits
    <3>2. CASE i \in 1..n
      <4>1. TurnFits(i) /\ turns'[i] = turns[i] /\ (i > 1 => turns'[i - 1] = turns[i - 1])
        BY <1>1, <2>1, <2>3, <3>2
      <4> QED  BY <2>3, <4>1 DEF TurnFits
    <3> QED  BY <1>1, <2>1, <3>1, <3>2
  <2>7. TurnsApart'
    <3> SUFFICES ASSUME NEW i \in 1..(n + 1), NEW j \in 1..(n + 1),
                        turns'[i].task = turns'[j].task
                 PROVE  i = j
      BY <2>3 DEF TurnsApart
    <3>1. \A k \in 1..n : turns[k].task # t
      BY <1>1, <2>1, <2>4 DEF InTurn
    <3>2. CASE i \in 1..n /\ j \in 1..n
      BY <1>1, <2>1, <2>3, <3>2 DEF TurnsApart
    <3>3. CASE i = n + 1 \/ j = n + 1
      BY <1>1, <2>1, <2>3, <3>1, <3>3
    <3> QED  BY <1>1, <2>1, <3>2, <3>3
  <2> QED  BY <2>3, <2>6, <2>7
<1> QED  BY <1>2, <1>3, TurnsBy

\* The row shows the last turn.
LEMMA RowStep ==
  ASSUME ThreadInv, Steps
  PROVE  RowFits'
<1>1. RowFits /\ Len(turns) \in Nat /\ DOMAIN turns = 1..Len(turns)
  BY RowsAre DEF ThreadInv
<1>2. CASE UNCHANGED <<thread, turns>>
  BY <1>1, <1>2 DEF RowFits
<1>3. CASE Marks
  <2>1. /\ turns' = turns /\ thread'.last = thread.last /\ thread'.actor = thread.actor
        /\ thread'.target = thread.target
        /\ thread.status # None => thread'.status # None
    BY <1>3 DEF Marks, None
  <2> QED  BY <1>1, <2>1 DEF RowFits
<1>4. ASSUME NEW c \in Clients, Appends(c)
      PROVE  RowFits'
  <2>1. PICK n : n = Len(turns)
    OBVIOUS
  <2>2. /\ Len(turns') = n + 1 /\ DOMAIN turns' = 1..(n + 1)
        /\ turns'[n + 1].task = Newest(c)
        /\ turns'[n + 1].sender = flow[c].sender /\ turns'[n + 1].target = flow[c].target
        /\ thread'.status = "active" /\ thread'.last = Newest(c)
        /\ thread'.actor = flow[c].sender /\ thread'.target = flow[c].target
    BY <1>4, <2>1 DEF Appends
  <2>3. turns' # <<>>
    BY <1>1, <2>1, <2>2
  <2> QED  BY <2>2, <2>3 DEF RowFits, None
<1> QED  BY <1>2, <1>3, <1>4 DEF Steps, Turns, Inserts, Starts, Works, Dies, Stays

\* The row stays honest about a crash.
LEMMA HonestStep ==
  ASSUME ThreadInv, Steps
  PROVE  HonestFits'
<1>1. /\ ThreadsTypeOK /\ HonestFits /\ RowFits
      /\ \A t \in DOMAIN tasks : TaskFits(t)
      /\ \A c \in Clients : PairFits(c) /\ NewestFits(c)
  BY DEF ThreadInv
<1>2. CASE UNCHANGED <<thread, tasks, node>>
  BY <1>1, <1>2 DEF HonestFits
<1>3. ASSUME NEW c \in Clients, Inserts(c)
      PROVE  HonestFits'
  <2>1. UNCHANGED <<thread, node>> /\ \A t \in DOMAIN tasks : tasks'[t] = tasks[t]
    BY <1>1, <1>3, RowsAre DEF Inserts
  <2> QED  BY <1>1, <2>1, LastIs DEF HonestFits
<1>4. ASSUME NEW c \in Clients, Appends(c)
      PROVE  HonestFits'
  <2>1. tasks[Newest(c)].runner = "none"
    BY <1>1, <1>4 DEF Appends, NewestFits
  <2>2. tasks' = tasks /\ thread'.last = Newest(c) /\ thread'.status = "active"
    BY <1>4 DEF Appends
  <2> QED  BY <2>1, <2>2 DEF HonestFits
<1>5. ASSUME NEW c \in Clients, Starts(c)
      PROVE  HonestFits'
  <2>1. PICK t : t = Newest(c)
    OBVIOUS
  <2>2. t \in DOMAIN tasks /\ tasks[t].runner = "none"
    BY <1>1, <1>5, <2>1, NewestIs DEF Starts, NewestFits, PairFits
  <2>3. /\ UNCHANGED <<thread, node>>
        /\ \A u \in DOMAIN tasks \ {t} : tasks'[u] = tasks[u]
        /\ tasks'[t].runner = "live"
    <3>1. tasks[t] \in Task
      BY <1>1, <2>2, RowsAre
    <3>2. UNCHANGED <<thread, node>> /\ tasks' = [tasks EXCEPT ![t].runner = "live"]
      BY <1>5, <2>1 DEF Starts
    <3> QED  BY <2>2, <3>1, <3>2 DEF Task
  <2>4. CASE thread.last = t
    BY <1>1, <2>2, <2>3, <2>4 DEF HonestFits
  <2>5. CASE thread.last # t
    BY <1>1, <2>3, <2>5, LastIs DEF HonestFits
  <2> QED  BY <2>4, <2>5
<1>6. ASSUME NEW t \in DOMAIN tasks, Works(t)
      PROVE  HonestFits'
  <2>1. /\ UNCHANGED <<thread, node>> /\ node = "up"
        /\ \/ tasks[t].runner = "live" /\ tasks'[t].runner # "killed"
           \/ tasks'[t].runner = tasks[t].runner /\ tasks'[t].status \notin Terminal
        /\ \A u \in DOMAIN tasks \ {t} : tasks'[u] = tasks[u]
    BY <1>6 DEF Works
  <2>2. CASE thread.last = t
    BY <1>1, <2>1, <2>2 DEF HonestFits
  <2>3. CASE thread.last # t
    BY <1>1, <2>1, <2>3, LastIs DEF HonestFits
  <2> QED  BY <2>2, <2>3
<1>7. CASE Dies
  <2> SUFFICES ASSUME thread.last # 0
               PROVE  HonestFits'
    BY <1>7 DEF HonestFits, Dies
  <2>1. PICK t \in DOMAIN tasks : t = thread.last
    BY LastIs
  <2>2. /\ thread' = thread /\ node = "up" /\ tasks'[t].status = tasks[t].status
        /\ tasks'[t].runner = IF tasks[t].runner \in {"over", "killed"} THEN tasks[t].runner
                              ELSE IF Outcome(t) THEN "over" ELSE "killed"
    BY <1>7 DEF Dies
  <2>3. /\ thread.status = "interrupted" =>
             tasks[t].runner = "killed" \/ (tasks[t].runner = "over" /\ tasks[t].status \notin Terminal)
        /\ tasks[t].runner = "killed" => thread.status = "interrupted"
    BY <1>1, <2>1, <2>2 DEF HonestFits
  <2>4. /\ thread.status = "interrupted" =>
             tasks'[t].runner = "killed" \/ (tasks'[t].runner = "over" /\ tasks'[t].status \notin Terminal)
        /\ tasks'[t].runner = "killed" /\ tasks'[t].status \in Terminal =>
             thread.status = "interrupted"
    BY <2>2, <2>3 DEF Outcome
  <2>5. node' # "up"
    BY <1>7 DEF Dies
  <2> QED  BY <2>1, <2>2, <2>4, <2>5 DEF HonestFits
<1>8. CASE Marks
  <2>1. /\ thread'.last = thread.last
        /\ \/ thread.status = None
           \/ /\ node = "down"
              /\ thread'.status = IF /\ thread.status = "active" /\ thread.last # 0
                                     /\ ~Outcome(thread.last)
                                   THEN "interrupted" ELSE thread.status
    BY <1>8 DEF Marks
  <2>2. ASSUME thread.last # 0
        PROVE  LET t == tasks'[thread.last] IN
               /\ thread'.status = "interrupted" =>
                    t.runner = "killed" \/ (t.runner = "over" /\ t.status \notin Terminal)
               /\ t.runner = "killed" => thread'.status = "interrupted"
    <3>1. thread.last \in DOMAIN tasks /\ thread.status \in {"active", "interrupted"}
      BY <2>2, LastIs
    <3>2. thread.status # None
      BY <3>1 DEF None
    <3>3. PICK t \in DOMAIN tasks : t = thread.last
      BY <3>1
    <3>4. tasks[t].runner \in {"over", "killed"}
      BY <1>1, <2>1, <3>2 DEF TaskFits
    <3>5. \/ tasks'[t] = tasks[t]
          \/ tasks[t].runner = "killed" /\ tasks'[t].runner = "killed"
      BY <1>8 DEF Marks, Fails
    <3> QED  BY <1>1, <2>1, <2>2, <3>1, <3>2, <3>3, <3>4, <3>5 DEF HonestFits, Outcome
  <2> QED  BY <2>1, <2>2 DEF HonestFits
<1> QED
  BY <1>2, <1>3, <1>4, <1>5, <1>6, <1>7, <1>8 DEF Steps, Turns, Stays

\* A turn that names a task stays.
LEMMA InTurnPersists ==
  ASSUME ThreadInv, Steps, NEW t, InTurn(t)
  PROVE  InTurn(t)'
BY TurnsPersist DEF InTurn

\* Tasks keep to their life.
LEMMA TaskStep ==
  ASSUME ThreadInv, Steps
  PROVE  (\A t \in DOMAIN tasks : TaskFits(t))'
<1>1. /\ ThreadsTypeOK /\ \A t \in DOMAIN tasks : TaskFits(t)
      /\ \A c \in Clients : PairFits(c) /\ NewestFits(c)
  BY DEF ThreadInv
<1>2. ASSUME NEW t \in DOMAIN tasks, tasks'[t] = tasks[t], node' = "down" => node = "down"
      PROVE  TaskFits(t)'
  BY <1>1, <1>2, InTurnPersists DEF TaskFits, Outcome
<1>3. CASE tasks' = tasks /\ (node' = "down" => node = "down")
  BY <1>2, <1>3
<1>4. ASSUME NEW c \in Clients, Inserts(c)
      PROVE  (\A t \in DOMAIN tasks : TaskFits(t))'
  <2>1. PICK n : n = Len(tasks)
    OBVIOUS
  <2>2. /\ DOMAIN tasks = 1..n /\ n \in Nat /\ DOMAIN tasks' = 1..(n + 1)
        /\ \A t \in 1..n : tasks'[t] = tasks[t]
        /\ node = "up" /\ node' = "up"
        /\ tasks'[n + 1].status = "created" /\ tasks'[n + 1].runner = "none"
        /\ tasks'[n + 1].ended = None
    BY <1>1, <1>4, <2>1, RowsAre DEF Inserts
  <2>3. TaskFits(n + 1)'
    BY <2>2 DEF TaskFits, Outcome, Terminal
  <2>4. \A t \in 1..n : TaskFits(t)'
    BY <1>2, <2>2
  <2> QED  BY <2>2, <2>3, <2>4
<1>5. ASSUME NEW c \in Clients, Starts(c)
      PROVE  (\A t \in DOMAIN tasks : TaskFits(t))'
  <2>1. PICK t : t = Newest(c)
    OBVIOUS
  <2>2. t \in DOMAIN tasks /\ tasks[t].runner = "none" /\ InTurn(t) /\ node = "up"
    BY <1>1, <1>5, <2>1, NewestIs DEF Starts, NewestFits, PairFits
  <2>3. /\ node' = node /\ turns' = turns /\ DOMAIN tasks' = DOMAIN tasks
        /\ \A u \in DOMAIN tasks \ {t} : tasks'[u] = tasks[u]
        /\ tasks'[t].runner = "live" /\ tasks'[t].status = tasks[t].status
        /\ tasks'[t].ended = tasks[t].ended
    <3>1. tasks[t] \in Task
      BY <1>1, <2>2, RowsAre
    <3>2. /\ node' = node /\ turns' = turns
          /\ tasks' = [tasks EXCEPT ![t].runner = "live"]
      BY <1>5, <2>1 DEF Starts
    <3> QED  BY <2>2, <3>1, <3>2 DEF Task
  <2>4. TaskFits(t)'
    BY <1>1, <2>2, <2>3 DEF TaskFits, Outcome, InTurn
  <2>5. \A u \in DOMAIN tasks \ {t} : TaskFits(u)'
    BY <1>2, <2>3
  <2> QED  BY <2>3, <2>4, <2>5
<1>6. ASSUME NEW t \in DOMAIN tasks, Works(t)
      PROVE  (\A u \in DOMAIN tasks : TaskFits(u))'
  <2>1. /\ node' = node /\ turns' = turns /\ DOMAIN tasks' = DOMAIN tasks /\ node = "up"
        /\ \A u \in DOMAIN tasks \ {t} : tasks'[u] = tasks[u]
    BY <1>6 DEF Works
  <2>2. TaskFits(t)'
    BY <1>1, <1>6, <2>1 DEF TaskFits, Outcome, InTurn, Works, Keeps
  <2>3. \A u \in DOMAIN tasks \ {t} : TaskFits(u)'
    BY <1>2, <2>1
  <2> QED  BY <2>1, <2>2, <2>3
<1>7. CASE Dies
  <2> SUFFICES ASSUME NEW t \in DOMAIN tasks
               PROVE  TaskFits(t)'
    BY <1>7 DEF Dies
  <2>1. /\ tasks'[t].status = tasks[t].status /\ tasks'[t].ended = tasks[t].ended
        /\ turns' = turns
        /\ tasks'[t].runner = IF tasks[t].runner \in {"over", "killed"} THEN tasks[t].runner
                              ELSE IF Outcome(t) THEN "over" ELSE "killed"
    BY <1>7 DEF Dies
  <2>2. tasks[t].runner \in {"none", "live", "over", "lost", "killed"}
    BY <1>1, RowsAre
  <2>3. CASE tasks[t].runner \in {"over", "killed"}
    BY <1>1, <2>1, <2>3, InTurnPersists DEF TaskFits, Outcome
  <2>4. CASE tasks[t].runner \notin {"over", "killed"} /\ ~Outcome(t)
    BY <1>1, <2>1, <2>4 DEF TaskFits, Outcome
  <2>5. CASE tasks[t].runner \notin {"over", "killed"} /\ Outcome(t)
    <3>1. tasks[t].runner # "none"
      BY <1>1, <2>5 DEF TaskFits
    <3>2. InTurn(t)'
      BY <1>1, <2>2, <2>5, <3>1, InTurnPersists DEF TaskFits
    <3> QED  BY <1>1, <2>1, <2>5, <3>2 DEF TaskFits, Outcome
  <2> QED  BY <2>3, <2>4, <2>5
<1>8. CASE Marks
  <2> SUFFICES ASSUME NEW t \in DOMAIN tasks
               PROVE  TaskFits(t)'
    BY <1>8 DEF Marks
  <2>1. turns' = turns /\ (node' = "down" => node = "down")
    BY <1>8 DEF Marks
  <2>2. CASE tasks'[t] = tasks[t]
    BY <1>2, <2>1, <2>2
  <2>3. CASE Fails(t)
    BY <2>1, <2>3 DEF Fails, Keeps, TaskFits, Outcome
  <2> QED  BY <1>8, <2>2, <2>3 DEF Marks
<1> QED
  BY <1>3, <1>4, <1>5, <1>6, <1>7, <1>8 DEF Steps, Turns, Appends, Stays

\* What others, goroutines and the row do while a request does nothing.
Rests(c) ==
  /\ flow'[c] = flow[c]
  /\ \/ \E d \in Clients \ {c} : Turns(d) \/ Inserts(d) \/ Appends(d) \/ Starts(d)
     \/ \E t \in DOMAIN tasks : Works(t)
     \/ Marks \/ Stays

\* A request ends, takes one of its steps, or rests.
LEMMA FlowSteps ==
  ASSUME ThreadInv, Steps, NEW c \in Clients
  PROVE  \/ flow'[c] = NoFlow \/ Rests(c)
         \/ Turns(c) /\ Derives(c)
         \/ Inserts(c) \/ Appends(c)
         \/ /\ Starts(c) /\ Len(flow[c].mine) < flow[c].max
            /\ flow'[c] = [flow[c] EXCEPT !.at = "waiting"]
<1>1. ASSUME NEW d \in Clients, Turns(d) \/ Inserts(d) \/ Appends(d) \/ Starts(d), d # c
      PROVE  Rests(c)
  <2>1. flow'[c] = flow[c]
    BY <1>1 DEF Turns, Inserts, Appends, Starts, OthersRest
  <2> QED  BY <1>1, <2>1 DEF Rests
<1>2. CASE Turns(c) \/ Inserts(c) \/ Appends(c)
  BY <1>2 DEF Turns
<1>3. CASE Starts(c)
  BY <1>3 DEF Starts
<1>4. ASSUME NEW t \in DOMAIN tasks, Works(t)
      PROVE  Rests(c)
  BY <1>4 DEF Rests, Works
<1>5. CASE Marks \/ Stays
  BY <1>5 DEF Rests, Marks, Stays
<1>6. CASE Dies
  BY <1>6 DEF Dies
<1> QED  BY <1>1, <1>2, <1>3, <1>4, <1>5, <1>6 DEF Steps

\* A request that has ended satisfies all that is asked of it.
LEMMA NoFlowFits ==
  ASSUME NEW c \in Clients, flow'[c] = NoFlow
  PROVE  (PairFits(c) /\ NewestFits(c) /\ LoopFits(c) /\ AnswerFits(c))'
<1>1. /\ flow'[c].at = "idle" /\ flow'[c].mine = <<>> /\ flow'[c].max = 1
      /\ Len(flow'[c].mine) = 0 /\ DOMAIN flow'[c].mine = {}
  BY DEF NoFlow
<1>2. PairFits(c)'
  BY <1>1 DEF PairFits
<1>3. NewestFits(c)'
  BY <1>1 DEF NewestFits
<1>4. LoopFits(c)'
  BY <1>1 DEF LoopFits
<1>5. AnswerFits(c)'
  BY <1>1 DEF AnswerFits
<1> QED  BY <1>2, <1>3, <1>4, <1>5

\* What the steps of a request make of its record.
LEMMA FlowBecomes ==
  ASSUME ThreadsTypeOK, NEW c \in Clients
  PROVE  /\ Inserts(c) =>
              /\ flow'[c].at = "inserted" /\ flow'[c].mine = Append(flow[c].mine, Len(tasks) + 1)
              /\ flow'[c].sender = flow[c].sender /\ flow'[c].target = flow[c].target
              /\ flow'[c].seen = flow[c].seen /\ flow'[c].asked = flow[c].asked
              /\ flow'[c].max = flow[c].max /\ flow'[c].strict = flow[c].strict
              /\ flow'[c].polite = flow[c].polite
         /\ \A step \in {"appended", "waiting"} :
              flow'[c] = [flow[c] EXCEPT !.at = step] =>
                /\ flow'[c].at = step /\ flow'[c].mine = flow[c].mine
                /\ flow'[c].sender = flow[c].sender /\ flow'[c].target = flow[c].target
                /\ flow'[c].max = flow[c].max /\ flow'[c].strict = flow[c].strict
                /\ flow'[c].polite = flow[c].polite
BY FlowIs DEF Inserts, Flow

\* A request keeps its pair and its room.
LEMMA PairStep ==
  ASSUME ThreadInv, Steps, NEW c \in Clients
  PROVE  PairFits(c)'
<1>1. /\ ThreadsTypeOK /\ PairFits(c) /\ flow[c].mine \in Seq(Nat)
      /\ Len(flow[c].mine) \in Nat /\ flow[c].max \in Nat
  BY FlowIs DEF ThreadInv
<1>2. CASE flow'[c] = NoFlow
  BY <1>2, NoFlowFits
<1>3. CASE Rests(c)
  BY <1>1, <1>3 DEF PairFits, Rests
<1>4. CASE Derives(c)
  <2>1. CASE flow'[c].mine = <<>> /\ flow'[c].max \in Nat \ {0}
    BY <1>4, <2>1 DEF PairFits, Derives
  <2>2. CASE /\ flow[c].at = "waiting" /\ flow'[c].mine = flow[c].mine
             /\ flow'[c].max = flow[c].max
    <3>1. Len(flow[c].mine) < flow[c].max
      BY <1>1, <2>2 DEF PairFits
    <3> QED  BY <1>1, <1>4, <2>2, <3>1 DEF PairFits, Derives
  <2> QED  BY <1>4, <2>1, <2>2 DEF Derives
<1>5. CASE Inserts(c)
  <2>1. PICK n : n = Len(tasks) + 1
    OBVIOUS
  <2>2. n \in Nat
    BY <1>1, <2>1, RowsAre
  <2>3. /\ flow'[c].at = "inserted" /\ flow'[c].mine = Append(flow[c].mine, n)
        /\ flow'[c].sender = flow[c].sender /\ flow'[c].target = flow[c].target
        /\ flow'[c].max = flow[c].max /\ flow[c].at = "derived"
    BY <1>1, <1>5, <2>1, FlowBecomes DEF Inserts
  <2>4. /\ Append(flow[c].mine, n) # <<>>
        /\ Len(Append(flow[c].mine, n)) = Len(flow[c].mine) + 1
    BY <1>1, <2>2
  <2> QED  BY <1>1, <2>3, <2>4 DEF PairFits
<1>6. CASE Appends(c)
  <2>1. /\ flow'[c].at = "appended" /\ flow'[c].mine = flow[c].mine
        /\ flow'[c].sender = flow[c].sender /\ flow'[c].target = flow[c].target
        /\ flow'[c].max = flow[c].max /\ flow[c].at = "inserted"
    BY <1>1, <1>6, FlowBecomes DEF Appends
  <2> QED  BY <1>1, <2>1 DEF PairFits
<1>7. CASE /\ Starts(c) /\ Len(flow[c].mine) < flow[c].max
           /\ flow'[c] = [flow[c] EXCEPT !.at = "waiting"]
  <2>1. /\ flow'[c].at = "waiting" /\ flow'[c].mine = flow[c].mine
        /\ flow'[c].sender = flow[c].sender /\ flow'[c].target = flow[c].target
        /\ flow'[c].max = flow[c].max /\ flow[c].at = "appended"
    BY <1>1, <1>7, FlowBecomes DEF Starts
  <2> QED  BY <1>1, <1>7, <2>1 DEF PairFits
<1> QED  BY <1>2, <1>3, <1>4, <1>5, <1>6, <1>7, FlowSteps

\* Tasks of two requests differ.
LEMMA NewestApart ==
  ASSUME ThreadInv, NEW c \in Clients, NEW d \in Clients, c # d,
         flow[c].mine # <<>>, flow[d].mine # <<>>
  PROVE  Newest(c) # Newest(d)
BY NewestIs DEF ThreadInv, OwnersApart

\* The newest task of a request waits for it.
LEMMA NewestStep ==
  ASSUME ThreadInv, Steps, NEW c \in Clients
  PROVE  NewestFits(c)'
<1>1. /\ ThreadsTypeOK /\ NewestFits(c) /\ PairFits(c)
      /\ \A i \in DOMAIN turns : TurnFits(i)
      /\ \A d \in Clients : PairFits(d)
  BY DEF ThreadInv
<1>2. CASE flow'[c] = NoFlow
  BY <1>2, NoFlowFits
<1>3. CASE Rests(c)
  <2> SUFFICES ASSUME flow[c].at \in {"inserted", "appended"}
               PROVE  NewestFits(c)'
    BY <1>3 DEF NewestFits, Rests
  <2>1. PICK n : n = Newest(c)
    OBVIOUS
  <2>2. /\ n \in DOMAIN tasks /\ tasks[n].runner = "none"
        /\ tasks[n].sender = flow[c].sender
        /\ InTurn(n) <=> flow[c].at = "appended"
        /\ flow[c].mine # <<>>
    BY <1>1, <2>1, NewestIs DEF NewestFits, PairFits
  <2>3. flow'[c] = flow[c] /\ n = Newest(c)'
    BY <1>3, <2>1 DEF Rests, Newest
  <2>4. tasks'[n] = tasks[n] /\ (InTurn(n)' <=> InTurn(n))
    <3>1. CASE tasks' = tasks /\ turns' = turns
      BY <3>1 DEF InTurn
    <3>2. ASSUME NEW d \in Clients \ {c}, Inserts(d)
          PROVE  tasks'[n] = tasks[n] /\ turns' = turns
      BY <1>1, <2>2, <3>2, RowsAre DEF Inserts
    <3>3. ASSUME NEW d \in Clients \ {c}, Appends(d)
          PROVE  tasks' = tasks /\ (InTurn(n)' <=> InTurn(n))
      <4>1. Newest(d) # n
        BY <1>1, <2>1, <2>2, <3>3, NewestApart DEF Appends, PairFits
      <4>2. PICK k : k = Len(turns)
        OBVIOUS
      <4>3. /\ DOMAIN turns = 1..k /\ k \in Nat /\ DOMAIN turns' = 1..(k + 1)
            /\ \A i \in 1..k : turns'[i] = turns[i]
            /\ turns'[k + 1].task # n
        BY <1>1, <3>3, <4>1, <4>2, RowsAre DEF Appends
      <4>4. InTurn(n) => InTurn(n)'
        BY InTurnPersists
      <4>5. ASSUME NEW i \in 1..(k + 1), turns'[i].task = n
            PROVE  InTurn(n)
        <5>1. i \in 1..k
          BY <4>3, <4>5
        <5> QED  BY <4>3, <4>5, <5>1 DEF InTurn
      <4> QED  BY <3>3, <4>3, <4>4, <4>5 DEF Appends, InTurn
    <3>4. ASSUME NEW d \in Clients \ {c}, Starts(d)
          PROVE  tasks'[n] = tasks[n] /\ turns' = turns
      <4>1. PICK u : u = Newest(d)
        OBVIOUS
      <4>2. u # n
        BY <1>1, <2>1, <2>2, <3>4, <4>1, NewestApart DEF Starts, PairFits
      <4> QED  BY <2>2, <3>4, <4>1, <4>2 DEF Starts
    <3>5. ASSUME NEW t \in DOMAIN tasks, Works(t)
          PROVE  tasks'[n] = tasks[n] /\ turns' = turns
      BY <2>2, <3>5 DEF Works
    <3>6. CASE Marks
      BY <2>2, <3>6 DEF Marks, Fails, InTurn
    <3> QED
      BY <1>3, <3>1, <3>2, <3>3, <3>4, <3>5, <3>6 DEF Rests, Turns, Stays, InTurn
  <2> QED  BY <2>2, <2>3, <2>4 DEF NewestFits
<1>4. CASE Derives(c)
  BY <1>4 DEF NewestFits, Derives
<1>5. CASE Inserts(c)
  <2>1. PICK n : n = Len(tasks) + 1
    OBVIOUS
  <2>2. /\ flow'[c].at = "inserted" /\ flow'[c].mine = Append(flow[c].mine, n)
        /\ flow'[c].sender = flow[c].sender
        /\ tasks'[n].runner = "none" /\ tasks'[n].sender = flow[c].sender
        /\ turns' = turns
    BY <1>1, <1>5, <2>1, FlowBecomes DEF Inserts
  <2>3. n \in Nat /\ n \notin DOMAIN tasks /\ flow[c].mine \in Seq(Nat)
    BY <1>1, <2>1, RowsAre, FlowIs
  <2>4. Newest(c)' = n
    BY <2>2, <2>3 DEF Newest
  <2>5. ~InTurn(n)'
    BY <1>1, <2>2, <2>3 DEF InTurn, TurnFits
  <2> QED  BY <2>2, <2>4, <2>5 DEF NewestFits
<1>6. CASE Appends(c)
  <2>1. PICK n : n = Newest(c)
    OBVIOUS
  <2>2. /\ tasks[n].runner = "none" /\ tasks[n].sender = flow[c].sender
    BY <1>1, <1>6, <2>1 DEF Appends, NewestFits
  <2>3. /\ flow'[c].at = "appended" /\ flow'[c].mine = flow[c].mine
        /\ flow'[c].sender = flow[c].sender /\ tasks' = tasks
    BY <1>1, <1>6, FlowBecomes DEF Appends
  <2>4. InTurn(n)'
    <3>1. PICK k : k = Len(turns)
      OBVIOUS
    <3>2. k \in Nat /\ DOMAIN turns' = 1..(k + 1) /\ turns'[k + 1].task = n
      BY <1>1, <1>6, <2>1, <3>1, RowsAre DEF Appends
    <3>3. k + 1 \in DOMAIN turns'
      BY <3>2
    <3> QED  BY <3>2, <3>3 DEF InTurn
  <2>5. Newest(c)' = n
    BY <2>1, <2>3 DEF Newest
  <2> QED  BY <2>2, <2>3, <2>4, <2>5 DEF NewestFits
<1>7. CASE flow'[c] = [flow[c] EXCEPT !.at = "waiting"]
  BY <1>1, <1>7, FlowBecomes DEF NewestFits
<1> QED  BY <1>2, <1>3, <1>4, <1>5, <1>6, <1>7, FlowSteps

\* What a loop has seen of its tasks stays so.
LEMMA SeenPersists ==
  ASSUME ThreadInv, Steps, NEW c \in Clients,
         flow'[c].mine = flow[c].mine, flow'[c].strict = flow[c].strict,
         flow'[c].polite = flow[c].polite
  PROVE  LET f == flow'[c]
         IN /\ \A i \in DOMAIN f.mine : f.mine[i] \in DOMAIN tasks'
            /\ \A i \in 1..(Len(f.mine) - 1) :
                 /\ tasks'[f.mine[i]].ended # None
                 /\ f.strict => tasks'[f.mine[i]].ended = "completed"
                 /\ f.polite => tasks'[f.mine[i]].sender # tasks'[f.mine[i + 1]].sender
            /\ Newest(c)' = Newest(c)
<1>1. LoopFits(c) /\ DOMAIN flow[c].mine = 1..Len(flow[c].mine)
      /\ Len(flow[c].mine) \in Nat
  BY FlowIs DEF ThreadInv
<1>2. PICK m : m = flow[c].mine
  OBVIOUS
<1>3. \A i \in DOMAIN m : m[i] \in DOMAIN tasks /\ m[i] \in DOMAIN tasks'
  BY <1>1, <1>2, TasksPersist DEF LoopFits
<1>4. ASSUME NEW i \in 1..(Len(m) - 1)
      PROVE  /\ tasks'[m[i]].ended # None
             /\ flow[c].strict => tasks'[m[i]].ended = "completed"
             /\ flow[c].polite => tasks'[m[i]].sender # tasks'[m[i + 1]].sender
  <2>1. i \in DOMAIN m /\ i + 1 \in DOMAIN m
    BY <1>1, <1>2
  <2>2. /\ tasks[m[i]].ended # None
        /\ flow[c].strict => tasks[m[i]].ended = "completed"
        /\ flow[c].polite => tasks[m[i]].sender # tasks[m[i + 1]].sender
    BY <1>1, <1>2 DEF LoopFits
  <2>3. /\ tasks'[m[i]].ended = tasks[m[i]].ended
        /\ tasks'[m[i]].sender = tasks[m[i]].sender
        /\ tasks'[m[i + 1]].sender = tasks[m[i + 1]].sender
    BY <1>3, <2>1, <2>2, TasksPersist
  <2> QED  BY <2>2, <2>3
<1>5. Newest(c)' = Newest(c)
  BY DEF Newest
<1> QED  BY <1>2, <1>3, <1>4, <1>5

\* A loop keeps to its request.
LEMMA LoopStep ==
  ASSUME ThreadInv, Steps, NEW c \in Clients
  PROVE  LoopFits(c)'
<1>1. /\ ThreadsTypeOK /\ LoopFits(c) /\ flow[c].mine \in Seq(Nat)
      /\ Len(flow[c].mine) \in Nat /\ DOMAIN flow[c].mine = 1..Len(flow[c].mine)
  BY FlowIs DEF ThreadInv
<1>2. CASE flow'[c] = NoFlow
  BY <1>2, NoFlowFits
<1>3. CASE Rests(c)
  <2>1. flow'[c] = flow[c]
    BY <1>3 DEF Rests
  <2>2. ASSUME flow[c].at = "derived", flow[c].mine # <<>>
        PROVE  /\ tasks'[Newest(c)].ended # None
               /\ flow[c].strict => tasks'[Newest(c)].ended = "completed"
               /\ flow[c].polite => tasks'[Newest(c)].sender # flow[c].sender
    <3>1. Newest(c) \in DOMAIN tasks
      BY <2>2, NewestIs
    <3>2. /\ tasks[Newest(c)].ended # None
          /\ flow[c].strict => tasks[Newest(c)].ended = "completed"
          /\ flow[c].polite => tasks[Newest(c)].sender # flow[c].sender
      BY <1>1, <2>2 DEF LoopFits
    <3>3. PICK n : n = Newest(c)
      OBVIOUS
    <3>4. tasks'[n].ended = tasks[n].ended /\ tasks'[n].sender = tasks[n].sender
      BY <3>1, <3>2, <3>3, TasksPersist
    <3> QED  BY <3>2, <3>3, <3>4
  <2>3. Newest(c)' = Newest(c)
    BY <2>1 DEF Newest
  <2> QED  BY <2>1, <2>2, <2>3, SeenPersists DEF LoopFits
<1>4. CASE Turns(c) /\ Derives(c)
  <2>1. CASE flow'[c].mine = <<>>
    BY <2>1 DEF LoopFits
  <2>2. CASE /\ tasks[Newest(c)].ended # None
             /\ flow'[c].mine = flow[c].mine /\ flow'[c].strict = flow[c].strict
             /\ flow'[c].polite = flow[c].polite
             /\ flow'[c].strict => tasks[Newest(c)].ended = "completed"
             /\ flow'[c].polite => flow'[c].sender # tasks[Newest(c)].sender
    <3>1. tasks' = tasks
      BY <1>4 DEF Turns
    <3> QED  BY <2>2, <3>1, SeenPersists DEF LoopFits
  <2> QED  BY <1>4, <2>1, <2>2 DEF Derives
<1>5. CASE Inserts(c)
  <2>1. PICK n : n = Len(tasks) + 1
    OBVIOUS
  <2>2. PICK m : m = flow[c].mine
    OBVIOUS
  <2>3. PICK k : k = Len(m)
    OBVIOUS
  <2>4. /\ flow'[c].at = "inserted" /\ flow'[c].mine = Append(m, n)
        /\ flow'[c].strict = flow[c].strict /\ flow'[c].polite = flow[c].polite
    BY <1>1, <1>5, <2>1, <2>2, FlowBecomes
  <2>5. /\ flow[c].at = "derived" /\ tasks'[n].sender = flow[c].sender
        /\ n \in DOMAIN tasks' /\ DOMAIN tasks = 1..(n - 1) /\ n \in Nat
        /\ \A t \in DOMAIN tasks : t \in DOMAIN tasks' /\ tasks'[t] = tasks[t]
    BY <1>1, <1>5, <2>1, RowsAre DEF Inserts
  <2>6. /\ k \in Nat /\ DOMAIN m = 1..k /\ Len(Append(m, n)) = k + 1
        /\ DOMAIN Append(m, n) = 1..(k + 1) /\ Append(m, n)[k + 1] = n
        /\ \A i \in 1..k : Append(m, n)[i] = m[i]
    BY <1>1, <2>2, <2>3, <2>5
  <2>7. PICK a : a = Append(m, n)
    OBVIOUS
  <2>8. \A i \in 1..k : m[i] \in DOMAIN tasks
    BY <1>1, <2>2, <2>6 DEF LoopFits
  <2>9. ASSUME NEW i \in 1..k
        PROVE  /\ tasks[m[i]].ended # None
               /\ flow[c].strict => tasks[m[i]].ended = "completed"
               /\ flow[c].polite => tasks[m[i]].sender # tasks'[a[i + 1]].sender
    <3>1. CASE i = k
      <4>1. m # <<>> /\ Newest(c) = m[k]
        BY <2>2, <2>3, <2>6, <3>1 DEF Newest
      <4> QED  BY <1>1, <2>2, <2>5, <2>6, <2>7, <3>1, <4>1 DEF LoopFits
    <3>2. CASE i # k
      <4>1. i \in 1..(k - 1) /\ i + 1 \in 1..k
        BY <2>6, <3>2
      <4>2. tasks'[a[i + 1]] = tasks[m[i + 1]]
        BY <2>5, <2>6, <2>7, <2>8, <4>1
      <4> QED  BY <1>1, <2>2, <2>3, <4>1, <4>2 DEF LoopFits
    <3> QED  BY <3>1, <3>2
  <2>10. \A i \in 1..(k + 1) : a[i] \in DOMAIN tasks'
    <3>1. a[k + 1] \in DOMAIN tasks'
      BY <2>5, <2>6, <2>7
    <3>2. \A i \in 1..k : a[i] \in DOMAIN tasks'
      BY <2>5, <2>6, <2>7, <2>8
    <3> QED  BY <2>6, <3>1, <3>2
  <2>11. \A i \in 1..k : tasks'[a[i]] = tasks[m[i]]
    BY <2>5, <2>6, <2>7, <2>8
  <2>12. \A i \in 1..k :
           /\ tasks'[a[i]].ended # None
           /\ flow'[c].strict => tasks'[a[i]].ended = "completed"
           /\ flow'[c].polite => tasks'[a[i]].sender # tasks'[a[i + 1]].sender
    BY <2>4, <2>9, <2>11
  <2>13. (k + 1) - 1 = k /\ Len(a) = k + 1 /\ DOMAIN a = 1..(k + 1)
         /\ flow'[c].mine = a /\ flow'[c].at # "derived"
    BY <2>4, <2>6, <2>7
  <2> QED  BY <2>10, <2>12, <2>13 DEF LoopFits
<1>6. CASE \E step \in {"appended", "waiting"} : flow'[c] = [flow[c] EXCEPT !.at = step]
  <2>1. /\ flow'[c].at # "derived" /\ flow'[c].mine = flow[c].mine
        /\ flow'[c].strict = flow[c].strict /\ flow'[c].polite = flow[c].polite
    BY <1>1, <1>6, FlowBecomes
  <2> QED  BY <2>1, SeenPersists DEF LoopFits
<1> QED  BY <1>2, <1>3, <1>4, <1>5, <1>6, FlowSteps DEF Appends

\* A pair nobody named answers the last turn.
LEMMA AnswerStep ==
  ASSUME ThreadInv, Steps, NEW c \in Clients
  PROVE  AnswerFits(c)'
<1>1. /\ ThreadsTypeOK /\ AnswerFits(c) /\ RowFits /\ flow[c].seen \in Nat
      /\ Len(turns) \in Nat /\ DOMAIN turns = 1..Len(turns)
  BY FlowIs, RowsAre DEF ThreadInv
<1>2. CASE flow'[c] = NoFlow
  BY <1>2, NoFlowFits
<1>3. CASE Rests(c)
  <2> SUFFICES ASSUME flow[c].at \in {"derived", "inserted"}
               PROVE  AnswerFits(c)'
    BY <1>3 DEF AnswerFits, Rests
  <2>1. flow'[c] = flow[c]
    BY <1>3 DEF Rests
  <2>2. CASE turns' = turns /\ thread'.target = thread.target
    BY <1>1, <2>1, <2>2 DEF AnswerFits
  <2>3. ASSUME NEW d \in Clients \ {c}, Appends(d)
        PROVE  AnswerFits(c)'
    <3>1. Len(turns') = Len(turns) + 1
      BY <2>3 DEF Appends
    <3> QED  BY <1>1, <2>1, <3>1 DEF AnswerFits
  <2> QED
    BY <1>3, <2>2, <2>3 DEF Rests, Turns, Inserts, Starts, Works, Marks, Stays
<1>4. CASE Turns(c) /\ Derives(c)
  <2>1. /\ turns' = turns /\ thread' = thread /\ flow'[c].seen = Len(turns)
        /\ ~flow'[c].asked => flow'[c].sender = (IF thread.target # None
                                                  THEN thread.target ELSE "a")
    BY <1>4 DEF Turns, Derives
  <2>2. turns # <<>> => thread.target # None
    <3> SUFFICES ASSUME turns # <<>>
                 PROVE  thread.target # None
      OBVIOUS
    <3>1. thread.target = turns[Len(turns)].target
      BY <1>1 DEF RowFits
    <3>2. turns[Len(turns)] \in Turn
      BY <1>1, RowsAre
    <3> QED  BY <3>1, <3>2, PairIs DEF Turn
  <2> QED  BY <1>1, <2>1, <2>2 DEF AnswerFits
<1>5. CASE Inserts(c)
  <2>1. /\ flow'[c].sender = flow[c].sender /\ flow'[c].seen = flow[c].seen
        /\ flow'[c].asked = flow[c].asked /\ flow[c].at = "derived"
        /\ turns' = turns /\ thread' = thread
    BY <1>1, <1>5, FlowBecomes DEF Inserts
  <2> QED  BY <1>1, <2>1 DEF AnswerFits
<1>6. CASE \E step \in {"appended", "waiting"} : flow'[c] = [flow[c] EXCEPT !.at = step]
  <2>1. flow'[c].at \notin {"derived", "inserted"}
    BY <1>1, <1>6, FlowBecomes
  <2> QED  BY <2>1 DEF AnswerFits
<1> QED  BY <1>2, <1>3, <1>4, <1>5, <1>6, FlowSteps DEF Appends

\* Only an insert gives a request another task, and that one is new.
LEMMA MineIs ==
  ASSUME ThreadInv, Steps, NEW c \in Clients
  PROVE  /\ Mine(c) \subseteq DOMAIN tasks
         /\ \/ Mine(c)' \subseteq Mine(c)
            \/ Inserts(c) /\ Mine(c)' = Mine(c) \cup {Len(tasks) + 1}
<1>1. /\ ThreadsTypeOK /\ LoopFits(c) /\ flow[c].mine \in Seq(Nat)
      /\ Len(flow[c].mine) \in Nat /\ DOMAIN flow[c].mine = 1..Len(flow[c].mine)
  BY FlowIs DEF ThreadInv
<1>2. Mine(c) \subseteq DOMAIN tasks
  BY <1>1 DEF Mine, LoopFits
<1>3. CASE flow'[c].mine = <<>>
  <2>1. DOMAIN flow'[c].mine = {}
    BY <1>3
  <2>2. Mine(c)' = {}
    BY <2>1 DEF Mine
  <2> QED  BY <1>2, <2>2
<1>4. CASE flow'[c].mine = flow[c].mine
  <2>1. Mine(c)' = Mine(c)
    BY Zenon, <1>4 DEF Mine
  <2> QED  BY <1>2, <2>1
<1>5. CASE Inserts(c)
  <2>1. PICK n : n = Len(tasks) + 1
    OBVIOUS
  <2>2. PICK m : m = flow[c].mine
    OBVIOUS
  <2>3. n \in Nat
    BY <1>1, <2>1, RowsAre
  <2>4. flow'[c].mine = Append(m, n)
    BY <1>1, <1>5, <2>1, <2>2, FlowBecomes
  <2>5. /\ DOMAIN m = 1..Len(m) /\ Len(m) \in Nat
        /\ DOMAIN Append(m, n) = 1..(Len(m) + 1) /\ Append(m, n)[Len(m) + 1] = n
        /\ \A i \in 1..Len(m) : Append(m, n)[i] = m[i]
    BY <1>1, <2>2, <2>3
  <2>6. PICK a : a = Append(m, n)
    OBVIOUS
  <2>7. {a[i] : i \in DOMAIN a} = {m[i] : i \in DOMAIN m} \cup {n}
    BY <2>5, <2>6
  <2>8. Mine(c)' = {a[i] : i \in DOMAIN a}
    BY Zenon, <2>4, <2>6 DEF Mine
  <2>9. Mine(c) = {m[i] : i \in DOMAIN m}
    BY Zenon, <2>2 DEF Mine
  <2> QED  BY <1>2, <1>5, <2>1, <2>7, <2>8, <2>9
<1>6. \/ flow'[c].mine = <<>> \/ flow'[c].mine = flow[c].mine \/ Inserts(c)
  <2>1. NoFlow.mine = <<>>
    BY DEF NoFlow
  <2> QED  BY <1>1, <2>1, FlowSteps, FlowBecomes DEF Rests, Derives, Appends
<1> QED  BY <1>2, <1>3, <1>4, <1>5, <1>6

\* Tasks keep their creators.
LEMMA OwnersStep ==
  ASSUME ThreadInv, Steps
  PROVE  OwnersApart'
<1> SUFFICES ASSUME NEW c \in Clients, NEW d \in Clients, c # d
             PROVE  Mine(c)' \cap Mine(d)' = {}
  BY DEF OwnersApart
<1>1. ThreadsTypeOK /\ Mine(c) \cap Mine(d) = {}
  BY DEF ThreadInv, OwnersApart
<1>2. Len(tasks) + 1 \notin DOMAIN tasks
  BY <1>1, RowsAre
<1>3. ASSUME NEW e \in Clients, NEW f \in Clients, e # f, Inserts(e)
      PROVE  Mine(f)' = Mine(f)
  BY <1>3 DEF Inserts, OthersRest, Mine
<1>4. CASE Inserts(c)
  BY <1>1, <1>2, <1>3, <1>4, MineIs
<1>5. CASE Inserts(d)
  BY <1>1, <1>2, <1>3, <1>5, MineIs
<1>6. CASE ~Inserts(c) /\ ~Inserts(d)
  BY <1>1, <1>6, MineIs
<1> QED  BY <1>4, <1>5, <1>6

\* A request keeps to what it has loaded.
LEMMA RequestStep ==
  ASSUME ThreadInv, Steps, NEW h \in Handlers, HasLoaded(h)
  PROVE  RequestFits(h)'
<1>1. RequestFits(h)
  BY DEF ThreadInv
<1>2. CASE request'[h] = request[h]
  <2> SUFFICES ASSUME request[h].task # 0
               PROVE  RequestFits(h)'
    BY <1>2 DEF RequestFits
  <2>1. PICK t : t = request[h].task
    OBVIOUS
  <2>2. t \in DOMAIN tasks' /\ tasks'[t].runner # "none" /\ request[h].seen \notin Terminal
    BY <1>1, <2>1, TasksPersist DEF RequestFits
  <2> QED  BY <1>2, <2>1, <2>2 DEF RequestFits
<1>3. CASE request'[h] # request[h]
  BY <1>3 DEF HasLoaded, RequestFits
<1> QED  BY <1>2, <1>3

-----------------------------------------------------------------------------
(* The invariant and what it says *)

\* There is no thread at first.
LEMMA ThreadInvInit == Init => ThreadInv
<1> SUFFICES ASSUME Init
             PROVE  ThreadInv
  OBVIOUS
<1>1. /\ thread = [status |-> None, last |-> 0, actor |-> None, target |-> None]
      /\ turns = <<>> /\ tasks = <<>> /\ node = "up" /\ crashes = 0
      /\ flow = [c \in Clients |-> NoFlow]
      /\ request = [h \in Handlers |-> NoRequest]
      /\ DOMAIN turns = {} /\ DOMAIN tasks = {}
  BY DEF Init
<1>2. ThreadsTypeOK
  <2>1. /\ turns \in Seq(Turn) /\ tasks \in Seq(Task) /\ node \in {"up", "down"}
        /\ crashes \in 0..MaxCrashes
    BY <1>1, ThreadsAssumption
  <2>2. flow \in [Clients -> Flow]
    BY <1>1, NoFlowIs
  <2>3. thread \in [status : {None, "active", "interrupted"}, last : Nat,
                    actor : Agents, target : Agents]
    BY <1>1 DEF Agents
  <2>4. request \in [Handlers -> [task : Nat, seen : Statuses]]
    BY <1>1, NoRequestIs
  <2> QED  BY <2>1, <2>2, <2>3, <2>4 DEF ThreadsTypeOK
<1>3. RowFits /\ TurnsApart /\ HonestFits
  BY <1>1 DEF RowFits, TurnsApart, HonestFits
<1>4. \A c \in Clients : flow[c] = NoFlow
  BY <1>1
<1>5. NoFlow.at = "idle" /\ NoFlow.mine = <<>> /\ NoFlow.max = 1
      /\ Len(<<>>) = 0 /\ DOMAIN <<>> = {}
  BY DEF NoFlow
<1>6. OwnersApart
  <2>1. \A c \in Clients : Mine(c) = {}
    BY <1>4, <1>5 DEF Mine
  <2> QED  BY <2>1 DEF OwnersApart
<1>7. ASSUME NEW c \in Clients
      PROVE  PairFits(c) /\ NewestFits(c) /\ LoopFits(c) /\ AnswerFits(c)
  <2>1. flow[c].at = "idle" /\ flow[c].mine = <<>> /\ flow[c].max = 1
    BY <1>4, <1>5
  <2>2. PairFits(c)
    BY <1>5, <2>1 DEF PairFits
  <2>3. NewestFits(c) /\ AnswerFits(c)
    BY <2>1 DEF NewestFits, AnswerFits
  <2>4. LoopFits(c)
    BY <1>5, <2>1 DEF LoopFits
  <2> QED  BY <2>2, <2>3, <2>4
<1>8. \A h \in Handlers : RequestFits(h)
  BY <1>1, NoRequestIs DEF RequestFits
<1> QED  BY <1>1, <1>2, <1>3, <1>6, <1>7, <1>8 DEF ThreadInv

\* The invariant is inductive.
LEMMA ThreadInvStep == ThreadInv /\ [Next]_vars => ThreadInv'
<1> SUFFICES ASSUME ThreadInv, [Next]_vars
             PROVE  ThreadInv'
  OBVIOUS
<1>1. Steps /\ ThreadsTypeOK' /\ \A h \in Handlers : HasLoaded(h)
  BY AllSteps
<1>2. RowFits' /\ HonestFits' /\ OwnersApart'
  BY <1>1, RowStep, HonestStep, OwnersStep
<1>3. (\A i \in DOMAIN turns : TurnFits(i))' /\ TurnsApart'
  BY <1>1, TurnsStep
<1>4. (\A t \in DOMAIN tasks : TaskFits(t))'
  BY <1>1, TaskStep
<1>5. \A c \in Clients :
        (PairFits(c) /\ NewestFits(c) /\ LoopFits(c) /\ AnswerFits(c))'
  BY <1>1, PairStep, NewestStep, LoopStep, AnswerStep
<1>6. \A h \in Handlers : RequestFits(h)'
  BY <1>1, RequestStep
<1> QED  BY <1>1, <1>2, <1>3, <1>4, <1>5, <1>6 DEF ThreadInv

(***************************************************************************)
(* However many requests and loops continue the thread at once, and        *)
(* wherever the node crashes, row, turns, tasks and loops fit each other.  *)
(***************************************************************************)
THEOREM ThreadInvariant == Spec => []ThreadInv
<1>1. Init => ThreadInv
  BY ThreadInvInit
<1>2. ThreadInv /\ [Next]_vars => ThreadInv'
  BY ThreadInvStep
<1> QED  BY <1>1, <1>2, PTL DEF Spec

(***************************************************************************)
(* Turns are numbered without a gap, the row shows the last of them, a     *)
(* task is in at most one, and none runs that is not in the thread         *)
(* (AppendTaskToThread chooses the index in its transaction).              *)
(***************************************************************************)
THEOREM ThreadIsCoherent == Spec => []TurnsAreTheThread
<1>1. ThreadInv => TurnsAreTheThread
  BY DEF ThreadInv, TurnsAreTheThread, TurnFits, TurnsApart, RowFits, TaskFits, InTurn
<1> QED  BY <1>1, ThreadInvariant, PTL

(***************************************************************************)
(* A node that serves shows the thread as interrupted when its last task   *)
(* had no outcome as the node crashed, and else only when that task had    *)
(* its outcome and was open again, by a request that had loaded it before  *)
(* or by its relay (MarkInterruptedThreadsOnRestart, CancelTask).          *)
(***************************************************************************)
THEOREM InterruptionsAreHonest == Spec => []InterruptedIsHonest
<1>1. ThreadInv => InterruptedIsHonest
  <2> SUFFICES ASSUME ThreadInv, node = "up", thread.last # 0
               PROVE  LET t == tasks[thread.last] IN
                      /\ t.runner = "killed" => thread.status = "interrupted"
                      /\ thread.status = "interrupted" =>
                           \/ t.runner = "killed"
                           \/ t.runner = "over" /\ t.ended # None /\ t.status \notin Terminal
    BY DEF InterruptedIsHonest
  <2>1. HonestFits /\ TaskFits(thread.last)
    BY LastIs DEF ThreadInv
  <2> QED  BY <2>1 DEF HonestFits, TaskFits
<1> QED  BY <1>1, ThreadInvariant, PTL

(***************************************************************************)
(* No loop takes more turns than its request allows, or one before the     *)
(* outcome of the turn before (continueThreadAutoHandoff).                 *)
(***************************************************************************)
THEOREM LoopsKeepToRequests == Spec => []LoopKeepsToRequest
<1>1. ThreadInv => LoopKeepsToRequest
  BY DEF ThreadInv, LoopKeepsToRequest, LoopFits, PairFits
<1> QED  BY <1>1, ThreadInvariant, PTL

(***************************************************************************)
(* A turn for which no agent was named is spoken by the target of the one  *)
(* before, unless a turn came in between (deriveThreadContinuationPair).   *)
(***************************************************************************)
THEOREM SpeakersAlternate == Spec => []AlternatesUnlessRaced
<1>1. ThreadInv => AlternatesUnlessRaced
  BY DEF ThreadInv, AlternatesUnlessRaced, TurnFits
<1> QED  BY <1>1, ThreadInvariant, PTL
=============================================================================
