# A TLA+ development of aethrolink-core

AethroLink routes *tasks* between agents. One Go process, a node, keeps tasks in
SQLite, drives local agent runtimes over ACP on stdio, and relays tasks to peer
nodes over HTTP. These modules model the part of `src/` that decides what a task
is at any moment: the task log and who writes it, the life of a local task, the
ACP run and the worker process that carry it, the streams that show it, the
relay that mirrors it on another node, the thread it is a turn of, and the way
it finds its agent. Every definition is translated from the source;
`PROJECT.json` maps each one to the lines it stands for and lists runs, mutants,
findings, hazards and theorems.

1. [Inventory](#1-inventory)
2. [Modules and code](#2-modules-and-code)
3. [Runs](#3-runs)
4. [What the code does not keep](#4-what-the-code-does-not-keep)
5. [Proofs](#5-proofs)
6. [What is left out](#6-what-is-left-out)
7. [Plan](#7-plan)

## 1. Inventory

| component | state | operations | correct when | module |
|---|---|---|---|---|
| **Task log and fan-out** (`internal/core/orchestrator.go` `appendEvent`, `internal/storage/sqlite.go`, `internal/storage/threads.go`) | `tasks`, `task_events`, `thread_turns`; the subscriber channels | insert a task, append an event, update the turn, publish, subscribe | events are numbered 1, 2, 3; the row shows the last event; nothing is streamed that is not committed | TaskLog |
| **Local lifecycle** (`orchestrator.go` `CreateTask`, `runTask`, `CancelTask`, `ResumeTask`; `internal/adapters/acp_control.go`) | the goroutine of each task, the requests being served | create, launch, submit, stream, cancel, resume, restart | a task goes through its stages once, ends once, and stays ended | TaskLifecycle |
| **ACP adapter run** (`internal/adapters/acp_submit.go`, `acp_runs.go`, `acp_run_tracker.go`, `internal/adaptersupport/session.go`) | the scope locks, the persisted sessions, the registry of runs, two pairs of channels per run | acquire a scope, load or open a session, prompt, consume notifications, forward events | one run per scope; no leaked scope or run; events arrive in order, the outcome last | AcpRun |
| **Runtime manager, stdio RPC** (`internal/runtime/manager.go`, `internal/adapters/acp_runtime_host.go`, `acp_session_transport.go`) | workers by key, leases, launch history, pending RPCs, the write mutex | ensure a worker, probe it, call, time out, stop, exit | no caller gets a worker that is being stopped, an answer reaches its call, no caller is stranded | RuntimeManager |
| **Event streams** (`internal/api/router.go`) | a replayed history and a live subscription | `handleTaskEvents` (SSE), `handleNodeTaskEvents` (NDJSON) | a peer stream shows the log in order but for what the fan-out lost, and ends | EventStream |
| **Node-to-node relay** (`orchestrator.go` `createRemoteProxyTask` to `mirrorRemoteEvents`, `internal/nodetransport`, `internal/nodeproto`, `internal/storage/peers.go`) | proxy tasks and their remote bindings | submit to a peer, bind, mirror its frames, restart | the proxy says nothing the destination did not; every relay is accounted for after a crash | Relay |
| **Threads** (`internal/core/threads.go`, `internal/storage/threads.go`) | threads and turns; automatic loops | create, continue, hand off, restart | row, turns and tasks agree; speakers alternate; loops stop | Threads |
| **Peer synchronisation** (`internal/core/peers.go`, `internal/storage/peers.go`) | peers, their cached targets | add a peer, probe it, sync one or all | what the cache says of a peer comes from one probe of it | Discovery |
| **Agent registry and routing** (`internal/agents/service.go`, `orchestrator.go` `routeRequest`) | agents with leases | register, heartbeat, unregister, resolve, list | a task reaches a node that has its agent | Discovery |
| **Artifacts, drivers, text recovery** | files; none | store a file; wrap an HTTP call; read a replayed session | thin | - |
| **Command-line tools, fakes** (`cmd/`, `internal/testsupport`) | none | flags, start-up, doubles | out of scope | - |

How they interact. An API handler calls `CreateTask`, which routes the task by
the local agents and the cached targets of peers. A local task gets its row, two
events and the goroutine `runTask`; a task of a peer's agent gets a proxy row and
the goroutine `relayRemoteTask`. `runTask` asks the adapter to bring the runtime
up (runtime manager) and to `Submit`; the adapter takes a scope in
`SessionCoordinator`, calls the worker over RPC and starts `consumeRun`, which
reads the worker's notifications from a subscription and writes events to
channels; a forwarding goroutine copies these to the channels `runTask` reads.
`relayRemoteTask` submits to the peer's API, which runs the task as one of its
own, and reads the peer's event stream back into the proxy's log. `CancelTask`
and `ResumeTask` run on the goroutines of other requests and append to the same
log. Event streams read the log and subscribe to the fan-out on behalf of HTTP
clients and of the relays of peer nodes. `ContinueThread` creates a task as the
next turn of a thread, and a loop goroutine may create the ones after it.

What is hard. No lock spans more than one statement of `appendEvent`, so all
writers of a task race for sequence numbers; cancel and resume act on a row they
loaded up to twenty seconds earlier; every channel is bounded, some senders
block and others drop; selects choose freely between a value and a closed
channel; the scope is released by hand in seven places; the registry of workers
is unlocked while a worker starts; a late answer races a timeout and an exit;
peers hang, move and cut streams; syncs overlap; the process may die between any
two statements, also while it repairs what an earlier death left; the client of
a request may go away between any two. `PROJECT.json` lists each hazard at the
line where it bites, and the properties that watch it.

## 2. Modules and code

```
TaskTypes ── TaskHistory            what the store promises (abstract)
    │             ▲ KeepsHistory: current <- status, history <- log
    ├──────── TaskLog ─── TaskLogProofs
    │             ▲ EXTENDS; every step is one of the log's or leaves it alone
    │             ├── TaskLifecycle ─── TaskLifecycleProofs (EXTENDS TaskLogProofs)
    │             └── EventStream ───── EventStreamProofs   (EXTENDS TaskLogProofs)
    │                     ▼ PeersAreFed:  history <- log[t], frames <- sent
    ├──────── FrameFeed             what a peer stream promises (abstract)
    │                     ▲ PeerIsFeed:   history <- dest, frames <- wire
    ├──────── Relay ──────┴── RelayProofs
    ├──────── AcpRun ─── AcpRunProofs
    └──────── Threads ── ThreadsProofs

RuntimeManager ── RuntimeManagerProofs    workers, leases and RPC
Discovery ─────── DiscoveryProofs         several nodes: agents, peers, caches, routes
```

**TaskTypes** has the statuses and event kinds of `pkg/types/types.go`. An event
is its number, kind and state; messages, sources and payloads are left out.

**TaskHistory** is the abstract specification of the store: a history that grows
by one numbered event at a time, and a status that is the last event's.

**TaskLog** is `appendEvent`. The store has one SQL connection
(`SetMaxOpenConns(1)`), so a statement or a transaction is atomic, and the
goroutines interleave between them: `BeginAppend` (NextSeq), `Insert` or
`InsertConflict` (the transaction of `AppendEventAndUpdateTask`, with the UNIQUE
constraint), `UpdateTurn`, `Publish`. `call[w]` is the activation of writer `w`:
the goroutine of a task, or a request. `ContextCancelled` is a client that goes
away, `Crash` the process that dies. The writers may append anything in
`Inputs`.

**TaskLifecycle** EXTENDS TaskLog and says who appends what. `runner[t]` is the
program counter of CreateTask and runTask, labelled with the last thing
started; `request[r]` a cancel or resume with what it loaded; `stream[t]` the two
channels `StreamEvents` returned. The adapter is any implementation of
`RuntimeAdapter`: it reports progress, then an outcome, an error, or nothing.
`LifecycleAppends` lists what these four functions may append; TaskLog's `Inputs`
must contain it, and `lifecycle` runs with `Inputs` equal to it.

**AcpRun** is that adapter in detail: `at` is where `runTask` stands in
`Submit`, `loop` is `consumeRun` with its local variables, `prompt` the
goroutine that waits for `session/prompt`, `remote` what the runtime still does
about it, `feed` the worker subscription, `inner` and `outer` the two pairs of
channels with `fwd` between them, `owner` and `bound` the lock and the persisted
session of the scope, `runs` the registry. All tasks target one sticky scope;
tasks of different scopes share nothing in this code but the worker's feed,
where the filter on the session id separates them. A stale binding is a
nondeterministic `OpenSession`: the idle timeout is an option of each task.

**RuntimeManager** is what AcpRun takes for granted: `entries` the registry
under its mutex, `proc` a process that a `Kill` has signalled before `Wait`
reaps it (`IsAlive` still says yes), `lease` and `launch` its rows, `loop` the
`readLoop`, `writer` the holder of `writeMu`, `calls` what is pending, answered
or closed by id, and `caller` a goroutine in `EnsureStdioWorker`, in
`EnsureReady` with its probe and second probe, in one call, or in a stop.
A write that blocks is a `Write` that does not happen.

**EventStream** EXTENDS TaskLog with one HTTP handler per subscriber. A client
stream loads the task, replays, then subscribes; a peer stream subscribes, lists,
replays while it keeps what arrives, and filters by number. `fanout` records
which events the fan-out lost to a stream, for the properties only.

**FrameFeed** is the abstract specification of a peer stream, on which the two
nodes meet: EventStream implements it (`PeersAreFed`), Relay assumes it and shows
that it assumes no more (`PeerIsFeed`).

**Relay** is the origin's side: `relay[p]` is the program counter of
`createRemoteProxyTask` and of the relay goroutine, `binding[p]` the status of
the row in `remote_task_bindings`, `log[p]` the proxy's log, where `from` is the
destination's number of a mirrored event. The peer is its log `dest` and the
stream `wire`. `node` and `todo` are a start of the node in progress, which a
second crash may interrupt. An append is one step, because a proxy has one
writer: cancel and resume do not resolve a remote target, as long as no local
agent of the same id registers after the task was relayed.

**Threads** has one thread, its row, turns and tasks, and in `flow` each request
that continues it with the loop it starts. `CreateTask` is two steps,
`InsertTask` and `AppendTurn`, then `StartTask`. Of a task only the status is
here, and who may move it: its goroutine (`RunTask` for a local target; `Mirror`
and `RelayEnds` for one in `Remote`), and a cancel or a resume, which `request[h]`
holds with what it loaded. An outcome is therefore not the end of it: the event
of a request that loaded the task before moves it again (`EndRequest`), and so
do the frames a destination sends after its outcome (`Mirror`) and the failure of
a broken stream (`RelayEnds`). `ended`, the first outcome, and `seen` and `asked`
in a turn are for the properties.

**Discovery** has several nodes with a database each. A base URL is the node that
answers there, so that `AddPeer` may move a peer. `sync` is `syncPeerTargets` or
`SyncAllPeerTargets`, one statement of the store a step, for a loop or for the
request of a client, who may leave between two peers. `task` is the route of a
task from `CreateTask` over the cached targets to another node's API. `answered`,
`from`, `alone` and `via` are for the properties.

Definitions introduced by "A variant" or "Plausible bug" are mutated forms of
the action that follows them. No specification uses them: each is put in the
place of the real one to show that the property listed with it in
`PROJECT.json` can tell the difference.

## 3. Runs

All instances are exhaustive. `CHECK_DEADLOCK FALSE` is set because the system
really stops: every task has ended and no client calls. The type invariant of a
module is the first conjunct of one of its invariants.

| run | instance | states | shows |
|---|---|---|---|
| `lifecycle` | 1 task, 1 cancel or resume, a crash, a pause | 222 k | `LifecycleOrder`: the log never goes back in the lifecycle, nothing follows the outcome, a resume follows a pause; `KeptUntilRequest` and `ReopenedOnlyByRequest`: only a request can lose or undo an outcome; `TurnEchoesLog`; `UsesLog`; `KeepsHistory`: the log implements TaskHistory; `AllFinish`: every started task and every request ends, but for one whose call of the adapter never returns |
| `acp_run` | 2 tasks, 2 sessions, channels of capacity 1 | 3.16 M | `ScopeHeldByLiveRun`, `BindingIsLiveSession`, `RegistryMatchesRuns`, `StreamIsOrdered`: events in order, the outcome last |
| `acp_liveness` | 1 task, up to 3 notifications, channels of capacity 1 | 8.8 k | `RunWindsUp`: every goroutine of a run ends, scope and registry entry are given back, also without an answer to the prompt; but for a call of `Submit` that never returns |
| `runtime_manager` | 1 key, 2 callers, 2 workers, 2 calls | 1.06 M | `RegistryIsSound`, `AnswersOwnCall`, `NoCallIsStranded`, and `DeadWorkerFreesCallers` |
| `event_stream` | 1 task with 2 writers, 1 stream, 3 events, a channel of capacity 1 | 608 k | the log: `SeqContiguous`, `RowMatchesLog`, `CallMatchesLog`, `FanOutIsCommitted`; the streams: `PeerMissesOnlyLost`: the hand-over from history to live events loses nothing; `ClosedHasOutcome`; `PeersAreFed`: a peer stream implements FrameFeed; `PeerStreamEnds` |
| `relay` | 2 proxies, 3 events of the peer, 2 crashes | 373 k | `RestartAccountsForAll`, `BindingShowsOutcome`, `ProxyTellsTruth`, `OwnFailureIsLast`, `PeerIsFeed`, `StreamEndGivesOutcome` |
| `threads` | 1 thread of a local and a remote agent, 2 requests with loops, up to 3 turns, 1 cancel or resume, a crash | 799 k | `TurnsAreTheThread`, `InterruptedIsHonest`, `LoopKeepsToRequest`, `AlternatesUnlessRaced`; `HandoffEnds`: every request and every loop ends |
| `discovery` | 3 nodes, 2 peers of one of them, one of which moves, a loop, a request and a task | 785 k | `OnlineWasProbed`, `LoneSyncIsExact`, `RelayReachesOwner`; `SyncAllEnds`: the loop's sync ends and comes to every peer, whichever are mute |

and four runs, one per statement of the documentation, that are expected to be
violated (section 4).

**Bounds.** `MaxSeq` bounds the log of `event_stream` through the MC module's
next-state relation: three events let two writers collide on a number, and one of
them once more with its next append; and they let one be replayed, one be kept
during the replay and one arrive live. What more writers do to the log is proved
(section 5). `MaxProgress` bounds the progress events of a stream: one allows a pause and a resume. `MaxCrashes` is 1 where a
restart leaves nothing running, so that a second one finds nothing new, and 2 in
`relay`, where the second may hit the repair of the first. Channels of capacity 1
(32 and 64 in the code) fill after one event, the case that matters; the code
never looks at the capacity. `MaxNotes` is 1 for each of two tasks, which fills a
feed of capacity 1 with the other task's notification, and 3 for one task, more
than any of its channels holds. `MaxSessions` is one per task: the second opens a
session, or loads the first's. Two workers for one key are a worker and its
replacement, or the two of a double launch; two calls are one that is given up
and the one its answer must not reach. `MaxDest` is shared by both destination
tasks: one may say more after its outcome. `MaxTasks` bounds the turns requests
ask for together: three are a turn of each and one of a loop between them.
`Asks` is a turn for which no one or its sender is named, a loop without options
and one with both. In `threads` agent a is local and b on a peer, so that each kind of goroutine runs a
turn; what a task reports is a pause or a completion, to which a relay adds its
failures; and one handler is enough to move a task after its outcome, before the
crash or between two turns of a loop.
`Hosts`, `Fronts`, `Loops` and `Requests` of `discovery` say at which nodes
agents register and clients call and how many syncs overlap; the chain n1, n2, n3
with n1's peer moving between the other two is the shortest in which a node could
export what it only knows of its own peer, and in which a sync can write back the
address the peer had before. n1's second peer is there for the loop, which has to
go on to it after the first did not answer: `Bounded` in MCDiscovery leaves only
the loop and the operators to act once n1 knows it. Symmetry is used for the
tasks of `acp_run`, which are interchangeable; not where liveness is checked.

**Fairness.** Weak fairness of each goroutine that can step: the Go scheduler
runs runnable goroutines, and each one has no alternative but to go on. Beyond
that:

- A call to a worker need not return. It has a timeout, but the request is
  written to the worker's stdin under `writeMu` before the timer starts
  (`internal/runtime/manager.go:228-234`), and a worker that lives and does not
  read keeps its writer, and each caller that waits for `writeMu`, for ever.
- TaskLifecycle: so nothing makes `EnsureReady`, `Submit`, `Cancel` or `Resume` of
  an adapter return, and `AllFinish` names a task or a request that stays in such
  a call for ever as its only exception. A stream does end (`Ends`): `consumeRun`
  writes nothing to the worker.
- AcpRun: so nothing makes a call of `Submit` return (`at` stays "acquired", the
  exception of `RunWindsUp`) or the prompt (`PromptEnds` is not fair). The loop of
  `consumeRun` goes on without the prompt: it is a goroutine of its own, and the
  loop's ticker finds the session idle at last, because the idle timeout is never
  zero (`SessionIdleTimeout`). A runtime that notifies without end is cut off by
  `MaxNotes`.
- EventStream: the handlers and the appends under way go on; no client need come
  and no writer need write.
- RuntimeManager: nothing of the runtime, not even a write, and no timeout: what
  `DeadWorkerFreesCallers` says has to come from the exit alone.
- Relay: the relay's goroutine, and the start of a node that went down. Nothing
  of the peer, hence `StreamEndGivesOutcome` begins where its stream ends.
- Threads: the goroutines, the timeout of
  `waitForThreadTaskStop`, and the restart. No task need end.
- Discovery: the local steps of a loop's sync, and the deadline the code sets for
  each of its probes (`peerSyncRequestTimeout`, in `SyncAllPeerTargets` only). No
  peer need answer.

Nothing is assumed of clients, notifications or crashes.

## 4. What the code does not keep

Met while modelling. Four are the counterexample of a run, with the statement
quoted in `PROJECT.json`:

- `TerminalIsFinal`: a cancel whose adapter call spans the outcome appends the
  status it had loaded, and a completed task is running again.
- `CompletionRecorded`: `consumeRun` closes both its channels, and a select may
  see the closed error channel before the completion that waits beside it.
- `OneWorkerPerKey`: two tasks that find no worker each launch one; the registry
  keeps the second, and no Stop reaches the first.
- `OutcomeEndsProxy`: a stream that breaks after the frame of the outcome makes
  the relay mark the binding interrupted and append a failure of its own
  (`orchestrator.go:360-363`) to a proxy that has completed
  (`docs/state_machine.md:29` and `:281`).

The others are stated at the end of their modules. They are not among the runs;
a configuration that names one as its invariant or property shows the
counterexample.

- `OutcomeRecorded` (TaskLifecycle): `runTask` ignores the error of its append;
  when a request took the number first, the outcome is gone and the task never
  ends (`docs/state_machine.md:29`, "A task ends in exactly one terminal state").
- `EarlyCancelIsFinal` (TaskLifecycle): a cancel before dispatch is acknowledged
  and changes nothing (`docs/state_machine.md:150-166`, "cancellation is
  immediate").
- `BindingPreserved` (TaskLifecycle): a request that loaded the task before
  `Submit` returned writes an empty binding over the stored one; COALESCE only
  guards NULL (`internal/storage/sqlite.go:373`).
- `OnePromptPerSession` (AcpRun): an idle session or a terminal notification
  frees the scope while `session/prompt` is unanswered; the next task prompts the
  same session (`internal/adaptersupport/session.go:35`).
- `LateSubscriberSeesAll` (EventStream): an event committed between the replay
  and the subscription of a client stream is shown neither way
  (`internal/api/router.go:401`).
- `RelayedRunsLocally` (Discovery): a task that came from a peer is relayed on
  when the peer moved since its targets were cached, or when the agent of that
  name has no adapter (`internal/api/router.go:83`, "executes it through local
  routing"). Two nodes that list each other's adapterless agent of one id would
  pass a task to and fro.

The passing properties say what is left of each promise. An outcome is lost only
when a request logged its event (`KeptUntilRequest`) and undone only by a request
(`ReopenedOnlyByRequest`). What `runTask` read is an ordered prefix of what
`consumeRun` sent (`StreamIsOrdered`), lost events being a tail nobody reads. The
*run* still has the scope for itself (`ScopeHeldByLiveRun`), only the prompt does
not. A forgotten worker never comes back into the registry (`RegistryIsSound`).
A peer stream, unlike a client's, misses only what the fan-out lost
(`PeerMissesOnlyLost`). A relay fails a finished proxy once and then records no
more, and a restart does it never (`OwnFailureIsLast`). A task sent to the address
its target was listed at comes to a node that has the agent (`RelayReachesOwner`);
that is not one hop, because an agent without an adapter is listed as well
(`internal/agents/service.go:137-155`) and its node passes the task on, also from
a fresh listing.

Also seen, and not contradicted by any statement: `stop_on_awaiting_input` of a
continuation is never read, a pause always stops the loop; no step sets the
thread statuses `paused`, `completed`, `failed` or `cancelled`; a task whose turn
could not be appended exists outside its thread and never runs; a restart shows a
thread as interrupted when its last task had ended but a late cancel, resume or
frame had moved its row again (the second case of `InterruptedIsHonest`); an
operator who moves a peer during a sync may find the old address back; a process
whose lease cannot be stored runs on unregistered; after the answer to a submit is
lost, the peer's task runs on without a proxy that follows it.

## 5. Proofs

### TaskLogProofs

For any tasks, requests, subscribers and inputs, under `LogAssumption` (None is
no task, tasks and requests are disjoint, channels hold at least one event).

The inductive invariant `LogInv` is the conjunction of `TypeOK`, of the facts
that pin down the subscriber table (a free one has an empty channel), and of
`SeqContiguous`, `RowMatchesLog`, `CallMatchesLog`, `FanOutIsCommitted` and
`TurnEchoesLog`. None of the last five is inductive alone. `CallMatchesLog`
carries the argument: between NextSeq and the insert the log may grow, so all
one knows of the number of an append is that it is taken or the next one
(`1..Len + 1`); with the UNIQUE constraint, the one that is not taken is the next
(`InsertIsNext`). Past the insert the event stands in the log for good, because
the log only grows (`LogGrows`), so what `UpdateTurn` and `Publish` copy is
committed. `NextSeqIsNext` shows that MAX(seq) + 1 is Len + 1 on a contiguous
log.

Proved: `LogInvariant`; from it `TypeCorrect`, `SeqIsContiguous`,
`RowIsLastEvent`, `CallIsCommitted`, `StreamsAreCommitted`, `TurnsAreSeen`; and
`LogKeepsHistory`, the refinement, where an `Insert` is a `Record`, an
`InsertTask` a `Create`, and any other step a stutter.

### TaskLifecycleProofs

For any number of tasks, requests and crashes and any adapter, under
`LogAssumption` and `LifecycleAssumption` (an adapter reports progress and
outcomes of the kinds `runTask` translates, and `LifecycleAppends \subseteq
Inputs`: the log accepts what the lifecycle says).

`LifeInv` is `LogInv` with where everybody stands. The two go together: that a
step is one of the log's (`LifecycleUsesLog`) rests on what the labels say, and
`LogInv` is kept because it is:

- `RunnerFits`: a goroutine whose append is under way appends to its own task,
  and what the label of its program counter says (`Script`). A label names the
  last stage it has come to (`Level`).
- `EventsFit`: every event of a log was said by a request, or by the goroutine at
  a label it has reached; and once an outcome is there the goroutine has nothing
  left to insert. A log only knows events, so without the link to the labels
  nothing would forbid the goroutine to say one of them again.
- `OrderFits`: the log is ordered, and the event the goroutine is about to insert
  is not behind what it inserted before. Its number may be old by then, its place
  in the lifecycle never is.
- `RequestFits`: what a handler loaded was not terminal, and a resume loaded a
  pause the log shows. `PausedBy` keeps this true after the row has moved on.
- `KeptFits`: while neither a request nor a crash has interfered the goroutine
  finds its number free and the row where it left it. It is stated for the middle
  of an append too, which `KeptUntilRequest` leaves out.

Proved: `LifeInvariant`, `LifecycleUsesLog`, `LogsAreOrdered`,
`UndisturbedIsKept`, and the action property `OnlyRequestsReopen`: the insert
that changes a terminal row belongs to a request, because a goroutine has nothing
to insert after an outcome (`EventsFit`) and a request never carries a terminal
status.

### EventStreamProofs

For any number of tasks, writers and streams, any capacity and any number of
events, under `LogAssumption`. `StreamInv` adds to `LogInv`, for each stream:

- `PhaseFits` and `FramesFit`: at each step of a handler, what it holds, and that
  this is committed;
- `RestFollows`: what is left to replay goes on from the last frame without a gap;
- `AllCovered`: from the moment the history is read, each committed event is
  sent, still to be replayed, pending in the buffer or the channel, or excused
  (lost by the fan-out, or not published yet). This is the hand-over itself;
- `PendingInOrder`: what is pending rises but for the numbers the fan-out passed
  out of order, so that the filter by number drops only what was sent or lost;
- `EndFits`: a stream that is about to close has a terminal event to show. For a
  client stream that is the row it loaded first, and `RowMatchesLog` turns that
  into an event of the log it reads afterwards.

Proved: `StreamInvariant`, `StreamsUseLog` (EventStream implements TaskLog),
`ClosedShowsOutcome`, `PeersMissOnlyLost`, and the refinement `StreamsFeedPeers`.
With `RelayFeeds` both sides of a relay now meet on FrameFeed by proof: what a
node serves is what the mirroring node relies on.

### AcpRunProofs

For any number of tasks on the scope, any capacities, notifications and
sessions, under `RunAssumption`. `ScopeInv` is `ScopeHeldByLiveRun`,
`BindingIsLiveSession` and `RegistryMatchesRuns` with two facts they need:
`NotYetLooping` (before `Launch` the loop of a task is off, so that a task that
gives up in `Submit` is not holding the scope through its loop as well) and the
types of the variables they read. The three are proved together because
`BindingIsLiveSession` rests on `ScopeHeldByLiveRun`: a task that rebinds the
scope holds it, so no other run is live.

`RunInv` adds the pipe from `consumeRun` to `runTask`. `Counted` is the heart of
`StreamIsOrdered`: what was read, then the outer channel, then the event in the
forwarder's hands, then the inner channel, is 1, 2, 3 up to what was sent.
It needs three more facts: nothing is sent before `Submit` returns (`Quiet`), so
that the count starts at the first event; the forwarder holds an event only
between its receive and its send, and does not run before `runTask` reads
(`HandsFit`); and a loop about to emit a terminal state knows that it is the last
(`HandsFit` again), so that nothing follows an outcome. Each step is one of nine
kinds (`PipeStep`) for one task and leaves the others alone.

Proved: `ScopeInvariant`, `ScopeIsExclusive`, `BindingStaysOwn`,
`RegistryIsExact`; `RunInvariant`, `StreamStaysOrdered`.

### RelayProofs

For any number of proxies, events of the peer and crashes, under
`RelayAssumption`. Two invariants, the second on top of the first:

- `BooksInv` relates log, binding and restart. `BindingShowsOutcome`,
  `RestartAccountsForAll` and `OwnFailureIsLast` need these facts between them:
  while the node is down or starting no relay is live, and a listed proxy has a
  binding (`OnlyWhileStarting`); a live relay has not failed its proxy
  (`LiveHasNotFailed`), so a failure ends the log (`FailureAtEnd`); a proxy whose
  log ends in an outcome is failed by the end of its relay alone, because a
  restart looks at the status first (`RestartSparesOutcome`); before a binding is
  marked
  the outcome is the last event of the log (`MarkedShowsOutcome`), so what is
  written is an outcome; and during a start each interrupted proxy is on the list
  or accounted for (`ListedOrAccounted`), which a second crash falsifies and the
  next start restores. Each step is one of four kinds (`KindsOfStep`): quiet, a
  record, elsewhere, or a reconciliation, and each kind keeps the books.
- `MirrorInv` relates log, stream and destination. `ProxyTellsTruth` is inductive
  together with `PeerTold` (frames are events of the destination with rising
  numbers) and `MirroredIsRead` (no entry of the log mirrors more than was read),
  which puts the number of the next frame above all mirrored ones.

Proved: `RestartAccounts`, `BindingOutcome`, `OwnFailureEnds`, `ProxyTruth`, and
the refinement `RelayFeeds`: what the peer does to the stream of a proxy is a step
of FrameFeed, and a stream is opened once (`IdleUntilOpened`).

### RuntimeManagerProofs

For any number of keys, goroutines, workers and requests, under
`ManagerAssumption`. `ManagerInv` is `RuntimeTypeOK` and two groups.

- `RegistryInv`: `RegistryIsSound` says nothing of a worker before it is
  registered, and is not inductive: the worker registered next might already be
  somebody's victim. `StarterOwns` closes this: between its start and its
  registration a worker belongs to the goroutine that started it, is in no entry
  and on no list. `FreshIsNobodys` says the same of a worker not started yet, and
  `OneKeyPerWorker` that taking one entry out leaves no second one behind.
- `CallInv`: `CallIsRequest` (a call has an id its worker knows, and until it is
  written the runtime has not seen it) and `AnswerWasGiven` (what lies in a
  channel was answered) carry `AnswersOwnCall`; `NoCallIsStranded` follows with
  the order in which the loop marks its end and drains the map.

Proved: `RegistryStaysSound`, `AnswersFindTheirCall`, `CallersAreReached`.

### ThreadsProofs

For any number of requests, loops, cancels, resumes, turns and restarts and any
split of the pair into local and remote agents, under `ThreadsAssumption`.
`ThreadInv` ties the row to the turns (`RowFits`, `TurnFits`, `TurnsApart`), the
tasks to the turns and each status to the first outcome (`TaskFits`: a completed
task completed first), each flow to what it has made (`NewestFits`, `LoopFits`,
`AnswerFits`) and each cancel or resume to a task that was started and what it
loaded of it, which is no outcome (`RequestFits`). Three parts are there for induction only.
`OwnersApart`: no two flows have made the same task, hence the turn one of them
appends is of a task no other will append. `AnswerFits`: a pair that was derived
from the turn which is still the last names its target as the sender, which
becomes `AlternatesUnlessRaced` when the turn is appended. `HonestFits`: also in
a node that is down, a thread is shown as interrupted only for a task that was cut
off or one that is over and open again, and a task that was cut off and has failed
since has had its thread marked; the next start completes the other direction.
`InterruptionsAreHonest` says both directions: a crash that cut a task off always
shows, and the only other reason to show it is an outcome that was moved. Steps are classified by what they
do to the thread (`AllSteps`).

Proved: `ThreadInvariant`, `ThreadIsCoherent`, `InterruptionsAreHonest`,
`LoopsKeepToRequests`, `SpeakersAlternate`.

### DiscoveryProofs

For any graph of nodes, any agents, syncs, requests and tasks, under
`DiscoveryAssumption` (an address belongs to a node; None is different from
nodes, peers, agent ids and the labels a task or an agent carries, without which
"no agent" could not be told from one). `DiscoveryInv` follows a target from the
node that has it to the task that is sent there: a sync lists agents of the
address it probed (`ListedExist`), so a cache holds targets that exist
(`CachedExist`; no row of `agents` is ever deleted), so a task that chose a
listed target at the address where it was listed knows of an agent there
(`TaskKnowsWay`). `LoneSyncIsExact` needs, at every step of the sync, that alone
means alone (`AloneIsAlone`: two syncs of one peer both lose the flag) and that
the targets written so far are in the cache under this address (`DoneIsCached`).

Proved: `OnlinePeersAnswered`, `LoneSyncsAreExact`, `RelaysReachOwners`.

### Only model-checked

Every safety invariant, action property and refinement among the runs has a
theorem. What TLC alone shows:

- liveness (`AllFinish`, `RunWindsUp`, `DeadWorkerFreesCallers`,
  `PeerStreamEnds`, `StreamEndGivesOutcome`, `HandoffEnds`, `SyncAllEnds`): TLAPS
  has no rules for ENABLED here and proves nothing under fairness;
- the counterexamples of section 4.

The inductive invariants above were checked by TLC on the instances of section 3,
or on smaller ones of the same module, before they were proved. No theorem is
about what a recursion computes.

## 6. What is left out

- In the modelled components: messages, results, artifacts, lease and session
  columns; readiness probing and session reuse prediction (`acp_readiness.go`,
  `acp_session_reuse.go`), which decide between branches the models leave open;
  the payloads of the dialects; `context.Done` of `consumeRun` and of the
  forwarding goroutine, because `runTask` passes a background context that is
  never cancelled.
- A crash in AcpRun: all its state but `bound` is in memory, and TaskLifecycle
  has the restart. A crash in RuntimeManager: its state is in memory, and leases
  of an earlier process are never read again. A crash in Discovery is an `Abort`
  of the syncs of the node.
- A store that fails. The code discards the error of most appends of the relay
  and of `runTask`; they are taken to succeed, but for a number that is taken.
- In Relay, a peer that closes its stream before a terminal frame: EventStream
  shows that a peer running this code does not.
- In Threads, which agents are on a peer is fixed, as is the refusal of a cancel
  or resume of their tasks; whether a proxy that was cut off has a binding, hence
  fails at the restart, is left open, because Relay has it. Reads that change
  nothing: inspection, and the prediction of what
  a continuation would reuse. In Discovery, the lease of an agent, Heartbeat and
  Unregister: routing reads neither status nor lease. Routing by intent picks
  among local agents without state of its own.
- `EnsureProcess` of the runtime manager, which only tests call.
- Artifacts, drivers, tools and fakes have no control worth a model: pure I/O,
  flag parsing and test doubles.

## 7. Plan

*(done)* All modules of section 2; a theorem for every safety invariant, action
property and refinement that a run checks. Twelve distinct questions are what the
project keeps as runs; lesser counterexamples stay as statements in the modules.

Next, in order of what it would add:

1. The refinement of TaskLifecycle's `stream` by AcpRun's outer channels: what
   TaskLifecycle allows any adapter is what the ACP adapter does. `RunInv` has
   the facts it needs.
2. The step from FrameFeed to the two nodes together: Relay's mirror of a task
   whose destination is an EventStream, from `StreamsFeedPeers` and `ProxyTruth`.
3. The parts of RuntimeManager, AcpRun and Threads that the inventory leaves
   out, where a property needs them.
