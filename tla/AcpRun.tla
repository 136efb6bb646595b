------------------------------- MODULE AcpRun -------------------------------
(***************************************************************************)
(* The ACP adapter between runTask and a runtime on stdio: Submit          *)
(* (internal/adapters/acp_submit.go), the goroutines that carry a run      *)
(* (acp_runs.go), the session scope they hold                              *)
(* (internal/adaptersupport/session.go), and the loop at the end of        *)
(* runTask (internal/core/orchestrator.go) that reads what arrives.        *)
(*                                                                         *)
(* All tasks here target one sticky scope: the same runtime, subcontext    *)
(* and sticky key.  Four goroutines serve a task: runTask, consumeRun, the *)
(* one that waits for the prompt's answer, and the one that forwards the   *)
(* run's channels to runTask.                                              *)
(***************************************************************************)
EXTENDS TaskTypes, Sequences, FiniteSets

CONSTANTS Tasks,
          Notes,        \* what a runtime may notify: "chunk" or a task state
          ChanCap,      \* capacity of run.events and of its copy (64)
          NoteCap,      \* capacity of a subscription to the worker (64)
          MaxNotes,     \* bound: notifications of one prompt
          MaxSessions   \* bound: session/new calls

ASSUME RunAssumption ==
  /\ None \notin Tasks
  /\ Notes \subseteq {"chunk", "running", "awaiting_input"} \cup Terminal
  /\ ChanCap \in Nat \ {0} /\ NoteCap \in Nat \ {0}
  /\ MaxNotes \in Nat /\ MaxSessions \in Nat \ {0}

VARIABLES owner,     \* the task that holds the scope in SessionCoordinator.active
          bound,     \* the persisted session of the scope, 0 without one
          opened,    \* sessions the runtime has opened
          at,        \* runTask: see Steps
          sess,      \* the session a task was submitted to
          runs,      \* ACPAdapter.runs
          loop,      \* consumeRun
          prompt,    \* what promptResult knows of session/prompt
          remote,    \* the prompt as the runtime sees it
          feed,      \* the subscription of consumeRun to the worker
          inner,     \* run.events and run.errs
          fwd,       \* the forwarding goroutine of StreamEvents
          outer,     \* the channels StreamEvents returned
          taken      \* the events runTask has appended, in order

runVars == <<owner, bound, opened, at, sess, runs, loop, prompt, remote, feed,
             inner, fwd, outer, taken>>

\* The last thing runTask finished.  In Submit: acquired .. registered.  After
\* it: settled with an outcome, gone without one.
Submitting == {"acquired", "opened", "bound", "registered"}
Returned   == {"settled", "gone"}
Steps      == {"idle", "submitted", "reading"} \cup Submitting \cup Returned

\* In consumeRun before the scope is released, and after.
Holding == {"accept", "select", "emit", "release"}
Loops   == {"off", "close", "unregister", "done"} \cup Holding

\* The local variables of consumeRun: the event to send next and whether it is
\* the last one, whether the prompt has returned, whether the runtime reported
\* events of its own, how many events were sent.
LoopState == [pc : Loops, state : {None} \cup Statuses, last : BOOLEAN,
              finished : BOOLEAN, structured : BOOLEAN, sent : Nat]

\* A notification: the session it is about and what it says.
Note == [sess : 0..MaxSessions, what : Notes]

Prompt == [working : BOOLEAN, notes : 0..MaxNotes]
Feed   == [open : BOOLEAN, notes : Seq(Note)]

\* An event of a run: its place in the run and its state.
RunEvent == [n : Nat \ {0}, state : {"running", "awaiting_input"} \cup Terminal]
Channels == [events : Seq(RunEvent), err : BOOLEAN, closed : BOOLEAN]

\* The forwarding goroutine and the event it has taken and not yet sent.
Forwarder == [pc : {"off", "select", "holding", "done"}, event : Seq(RunEvent)]

Fresh == [events |-> <<>>, err |-> FALSE, closed |-> FALSE]

(***************************************************************************)
(* Everything has its type; no channel exceeds its capacity.               *)
(***************************************************************************)
RunTypeOK ==
  /\ owner \in Tasks \cup {None}
  /\ bound \in 0..MaxSessions /\ opened \in 0..MaxSessions
  /\ at \in [Tasks -> Steps]
  /\ sess \in [Tasks -> 0..MaxSessions]
  /\ runs \subseteq Tasks
  /\ loop \in [Tasks -> LoopState]
  /\ prompt \in [Tasks -> {"none", "calling", "ok", "error"}]
  /\ remote \in [Tasks -> Prompt]
  /\ feed \in [Tasks -> Feed]
  /\ inner \in [Tasks -> Channels] /\ outer \in [Tasks -> Channels]
  /\ fwd \in [Tasks -> Forwarder]
  /\ taken \in [Tasks -> Seq(RunEvent)]
  /\ \A t \in Tasks : /\ Len(inner[t].events) <= ChanCap
                      /\ Len(outer[t].events) <= ChanCap
                      /\ Len(feed[t].notes) <= NoteCap
                      /\ Len(fwd[t].event) <= 1

Init ==
  /\ owner = None /\ bound = 0 /\ opened = 0
  /\ at = [t \in Tasks |-> "idle"]
  /\ sess = [t \in Tasks |-> 0]
  /\ runs = {}
  /\ loop = [t \in Tasks |-> [pc |-> "off", state |-> None, last |-> FALSE,
                              finished |-> FALSE, structured |-> FALSE, sent |-> 0]]
  /\ prompt = [t \in Tasks |-> "none"]
  /\ remote = [t \in Tasks |-> [working |-> FALSE, notes |-> 0]]
  /\ feed = [t \in Tasks |-> [open |-> FALSE, notes |-> <<>>]]
  /\ inner = [t \in Tasks |-> Fresh]
  /\ fwd = [t \in Tasks |-> [pc |-> "off", event |-> <<>>]]
  /\ outer = [t \in Tasks |-> Fresh]
  /\ taken = [t \in Tasks |-> <<>>]

scopeVars  == <<owner, bound, opened>>
callerVars == <<at, sess, taken>>
loopVars   == <<loop, prompt, remote, feed, runs>>
pipeVars   == <<inner, fwd, outer>>

-----------------------------------------------------------------------------
(* Submit, on the goroutine of runTask *)

Goto(t, from, to) == at[t] = from /\ at' = [at EXCEPT ![t] = to]

\* Release looks at the owner before it deletes the entry.
Release(t) == owner' = IF owner = t THEN None ELSE owner

\* submit_failed
SubmitFails(t) ==
  /\ at' = [at EXCEPT ![t] = "settled"]
  /\ taken' = [taken EXCEPT ![t] = <<[n |-> 1, state |-> "failed"]>>]
  /\ UNCHANGED <<bound, opened, sess, loop, prompt, remote, feed, pipeVars>>

\* A variant that does not look at the holder of the scope.
AcquireAnyway(t) ==
  /\ Goto(t, "idle", "acquired")
  /\ owner' = t
  /\ UNCHANGED <<bound, opened, sess, taken, loopVars, pipeVars>>

TryAcquire(t) ==
  /\ owner \in {None, t}
  /\ Goto(t, "idle", "acquired")
  /\ owner' = t
  /\ UNCHANGED <<bound, opened, sess, taken, loopVars, pipeVars>>

ScopeBusy(t) ==
  /\ at[t] = "idle"
  /\ owner \notin {None, t}
  /\ SubmitFails(t)
  /\ UNCHANGED <<owner, runs>>

\* Initialize, then session/load of the bound session ...
LoadSession(t) ==
  /\ bound # 0
  /\ Goto(t, "acquired", "opened")
  /\ sess' = [sess EXCEPT ![t] = bound]
  /\ UNCHANGED <<scopeVars, taken, loopVars, pipeVars>>

\* ... or session/new: nothing is bound, or it is stale by the idle timeout this
\* task asks for, or the runtime refuses to load it.
OpenSession(t) ==
  /\ opened < MaxSessions
  /\ Goto(t, "acquired", "opened")
  /\ opened' = opened + 1
  /\ sess' = [sess EXCEPT ![t] = opened + 1]
  /\ UNCHANGED <<owner, bound, taken, loopVars, pipeVars>>

PersistBinding(t) ==
  /\ Goto(t, "opened", "bound")
  /\ bound' = sess[t]
  /\ UNCHANGED <<owner, opened, sess, taken, loopVars, pipeVars>>

Register(t) ==
  /\ Goto(t, "bound", "registered")
  /\ runs' = runs \cup {t}
  /\ UNCHANGED <<scopeVars, sess, taken, loop, prompt, remote, feed, pipeVars>>

\* A variant without deleteRun.
GiveUpRegistered(t) ==
  /\ at[t] \in Submitting \ {"bound"}
  /\ Release(t)
  /\ SubmitFails(t)
  /\ UNCHANGED runs

\* Initialize, the session calls, PersistBinding or Stream fail.
GiveUp(t) ==
  /\ at[t] \in Submitting \ {"bound"}
  /\ Release(t)
  /\ runs' = runs \ {t}
  /\ SubmitFails(t)

\* Stream subscribes to the worker and consumeRun starts; Submit returns.
Launch(t) ==
  /\ Goto(t, "registered", "submitted")
  /\ feed' = [feed EXCEPT ![t].open = TRUE]
  /\ loop' = [loop EXCEPT ![t].pc = "accept"]
  /\ UNCHANGED <<scopeVars, sess, taken, prompt, remote, runs, pipeVars>>

Submit(t) ==
  \/ TryAcquire(t) \/ ScopeBusy(t)
  \/ LoadSession(t) \/ OpenSession(t) \/ PersistBinding(t) \/ Register(t)
  \/ GiveUp(t) \/ Launch(t)

-----------------------------------------------------------------------------
(* consumeRun *)

\* Sends an event to run.events, which blocks while the channel is full.
Emit(t, s) ==
  /\ Len(inner[t].events) < ChanCap
  /\ inner' = [inner EXCEPT ![t].events =
                 Append(@, [n |-> loop[t].sent + 1, state |-> s])]

\* The accepted event, then the goroutine that sends session/prompt.
LoopAccept(t) ==
  /\ loop[t].pc = "accept"
  /\ Emit(t, "running")
  /\ loop' = [loop EXCEPT ![t].pc = "select", ![t].sent = @ + 1]
  /\ prompt' = [prompt EXCEPT ![t] = "calling"]
  /\ remote' = [remote EXCEPT ![t].working = TRUE]
  /\ UNCHANGED <<scopeVars, callerVars, feed, runs, fwd, outer>>

\* A variant without the release.
FailHoldingScope(t) ==
  /\ inner' = [inner EXCEPT ![t].err = TRUE]
  /\ loop' = [loop EXCEPT ![t].pc = "close"]
  /\ UNCHANGED <<scopeVars, callerVars, prompt, remote, feed, runs, fwd, outer>>

\* The scope is released, the error goes to run.errs (never full), and the
\* deferred calls follow.
LoopFails(t) ==
  /\ Release(t)
  /\ inner' = [inner EXCEPT ![t].err = TRUE]
  /\ loop' = [loop EXCEPT ![t].pc = "close"]
  /\ UNCHANGED <<bound, opened, callerVars, prompt, remote, feed, runs, fwd, outer>>

LoopPromptFailed(t) ==
  /\ loop[t].pc = "select"
  /\ prompt[t] = "error"
  /\ LoopFails(t)

\* The ticker may find the session idle at any time: the idle timeout is an
\* option of the task (an hour without it) and can be shorter than the prompt.
LoopIdle(t) ==
  /\ loop[t].pc = "select"
  /\ LoopFails(t)

LoopPromptReturned(t) ==
  /\ loop[t].pc = "select"
  /\ prompt[t] = "ok" /\ ~loop[t].finished
  /\ loop' = [loop EXCEPT ![t].finished = TRUE]
  /\ UNCHANGED <<scopeVars, callerVars, prompt, remote, feed, runs, pipeVars>>

\* The drain time after the prompt's answer is over.  A completion is
\* synthesised unless a structured runtime left no text.
LoopDrained(t) ==
  /\ loop[t].pc = "select"
  /\ loop[t].finished
  /\ \/ loop' = [loop EXCEPT ![t].pc = "emit", ![t].state = "completed", ![t].last = TRUE]
     \/ /\ loop[t].structured
        /\ loop' = [loop EXCEPT ![t].pc = "release"]
  /\ UNCHANGED <<scopeVars, callerVars, prompt, remote, feed, runs, pipeVars>>

\* A notification of another session is skipped; a chunk is only collected; any
\* other becomes an event, and a terminal one the last.
LoopNote(t) ==
  LET note == Head(feed[t].notes)
  IN /\ loop[t].pc = "select"
     /\ feed[t].notes # <<>>
     /\ feed' = [feed EXCEPT ![t].notes = Tail(@)]
     /\ loop' = IF note.sess # sess[t] \/ note.what = "chunk" THEN loop
                ELSE [loop EXCEPT ![t].pc = "emit", ![t].state = note.what,
                        ![t].last = note.what \in Terminal, ![t].structured = TRUE]
     /\ UNCHANGED <<scopeVars, callerVars, prompt, remote, runs, pipeVars>>

LoopEmit(t) ==
  /\ loop[t].pc = "emit"
  /\ Emit(t, loop[t].state)
  /\ loop' = [loop EXCEPT ![t].pc = IF loop[t].last THEN "release" ELSE "select",
                ![t].state = None, ![t].sent = @ + 1]
  /\ UNCHANGED <<scopeVars, callerVars, prompt, remote, feed, runs, fwd, outer>>

LoopRelease(t) ==
  /\ loop[t].pc = "release"
  /\ Release(t)
  /\ loop' = [loop EXCEPT ![t].pc = "close"]
  /\ UNCHANGED <<bound, opened, callerVars, prompt, remote, feed, runs, pipeVars>>

\* A variant without the two deferred close calls.
LoopLeavesOpen(t) ==
  /\ loop[t].pc = "close"
  /\ loop' = [loop EXCEPT ![t].pc = "unregister"]
  /\ UNCHANGED <<scopeVars, callerVars, prompt, remote, feed, runs, pipeVars>>

\* The deferred calls, in their order: run.errs and run.events are closed (no
\* reader can tell the first from both), the subscription is cancelled, the run
\* is deleted from the registry.
LoopClose(t) ==
  /\ loop[t].pc = "close"
  /\ inner' = [inner EXCEPT ![t].closed = TRUE]
  /\ loop' = [loop EXCEPT ![t].pc = "unregister"]
  /\ UNCHANGED <<scopeVars, callerVars, prompt, remote, feed, runs, fwd, outer>>

LoopUnregister(t) ==
  /\ loop[t].pc = "unregister"
  /\ feed' = [feed EXCEPT ![t] = [open |-> FALSE, notes |-> <<>>]]
  /\ runs' = runs \ {t}
  /\ loop' = [loop EXCEPT ![t].pc = "done"]
  /\ UNCHANGED <<scopeVars, callerVars, prompt, remote, pipeVars>>

ConsumeRun(t) ==
  \/ LoopAccept(t) \/ LoopPromptFailed(t) \/ LoopPromptReturned(t)
  \/ LoopDrained(t) \/ LoopNote(t) \/ LoopEmit(t)
  \/ LoopRelease(t) \/ LoopClose(t) \/ LoopUnregister(t)

-----------------------------------------------------------------------------
(* The runtime, as far as the adapter sees it *)

\* The worker's read loop offers a notification to every subscription and drops
\* it where the channel is full.
Notify(t, what) ==
  /\ remote[t].working
  /\ remote[t].notes < MaxNotes
  /\ remote' = [remote EXCEPT ![t].notes = @ + 1]
  /\ feed' = [u \in Tasks |->
       IF feed[u].open /\ Len(feed[u].notes) < NoteCap
         THEN [feed[u] EXCEPT !.notes = Append(@, [sess |-> sess[t], what |-> what])]
         ELSE feed[u]]
  /\ UNCHANGED <<scopeVars, callerVars, loop, prompt, runs, pipeVars>>

\* session/prompt is answered; or it fails, or times out and the worker is
\* stopped.  Either way the runtime is done with it.
PromptEnds(t) ==
  /\ prompt[t] = "calling"
  /\ \/ prompt' = [prompt EXCEPT ![t] = "ok"]
     \/ prompt' = [prompt EXCEPT ![t] = "error"]
  /\ remote' = [remote EXCEPT ![t].working = FALSE]
  /\ UNCHANGED <<scopeVars, callerVars, loop, feed, runs, pipeVars>>

-----------------------------------------------------------------------------
(* StreamEvents and its forwarding goroutine *)

StreamEvents(t) ==
  /\ t \in runs
  /\ Goto(t, "submitted", "reading")
  /\ fwd' = [fwd EXCEPT ![t].pc = "select"]
  /\ UNCHANGED <<scopeVars, sess, taken, loopVars, inner, outer>>

\* "missing acp run": consumeRun has returned before runTask came to read.
MissingRun(t) ==
  /\ t \notin runs
  /\ Goto(t, "submitted", "reading")
  /\ fwd' = [fwd EXCEPT ![t].pc = "done"]
  /\ outer' = [outer EXCEPT ![t].err = TRUE, ![t].closed = TRUE]
  /\ UNCHANGED <<scopeVars, sess, taken, loopVars, inner>>

FwdTake(t) ==
  /\ fwd[t].pc = "select"
  /\ inner[t].events # <<>>
  /\ fwd' = [fwd EXCEPT ![t] = [pc |-> "holding", event |-> <<Head(inner[t].events)>>]]
  /\ inner' = [inner EXCEPT ![t].events = Tail(@)]
  /\ UNCHANGED <<scopeVars, callerVars, loopVars, outer>>

\* A variant that drops the event when the copy is full.
FwdSendOrDrop(t) ==
  /\ fwd[t].pc = "holding"
  /\ outer' = [outer EXCEPT ![t].events = IF Len(@) < ChanCap THEN @ \o fwd[t].event ELSE @]
  /\ fwd' = [fwd EXCEPT ![t] = [pc |-> "select", event |-> <<>>]]
  /\ UNCHANGED <<scopeVars, callerVars, loopVars, inner>>

FwdSend(t) ==
  /\ fwd[t].pc = "holding"
  /\ Len(outer[t].events) < ChanCap
  /\ outer' = [outer EXCEPT ![t].events = @ \o fwd[t].event]
  /\ fwd' = [fwd EXCEPT ![t] = [pc |-> "select", event |-> <<>>]]
  /\ UNCHANGED <<scopeVars, callerVars, loopVars, inner>>

FwdError(t) ==
  /\ fwd[t].pc = "select"
  /\ inner[t].err
  /\ inner' = [inner EXCEPT ![t].err = FALSE]
  /\ outer' = [outer EXCEPT ![t].err = TRUE, ![t].closed = TRUE]
  /\ fwd' = [fwd EXCEPT ![t].pc = "done"]
  /\ UNCHANGED <<scopeVars, callerVars, loopVars>>

\* A closed channel is readable once it is drained, and the other may not be.
FwdClosed(t) ==
  /\ fwd[t].pc = "select"
  /\ inner[t].closed
  /\ inner[t].events = <<>> \/ ~inner[t].err
  /\ outer' = [outer EXCEPT ![t].closed = TRUE]
  /\ fwd' = [fwd EXCEPT ![t].pc = "done"]
  /\ UNCHANGED <<scopeVars, callerVars, loopVars, inner>>

Forward(t) == FwdTake(t) \/ FwdSend(t) \/ FwdError(t) \/ FwdClosed(t)

-----------------------------------------------------------------------------
(* The loop at the end of runTask *)

ReadEvent(t) ==
  LET e == Head(outer[t].events)
  IN /\ outer[t].events # <<>>
     /\ Goto(t, "reading", IF e.state \in Terminal THEN "settled" ELSE "reading")
     /\ taken' = [taken EXCEPT ![t] = Append(@, e)]
     /\ outer' = [outer EXCEPT ![t].events = Tail(@)]
     /\ UNCHANGED <<scopeVars, sess, loopVars, inner, fwd>>

\* stream_failed
ReadError(t) ==
  /\ outer[t].err
  /\ Goto(t, "reading", "settled")
  /\ taken' = [taken EXCEPT ![t] = Append(@, [n |-> Len(@) + 1, state |-> "failed"])]
  /\ outer' = [outer EXCEPT ![t].err = FALSE]
  /\ UNCHANGED <<scopeVars, sess, loopVars, inner, fwd>>

ReadClosed(t) ==
  /\ outer[t].closed
  /\ outer[t].events = <<>> \/ ~outer[t].err
  /\ Goto(t, "reading", "gone")
  /\ UNCHANGED <<scopeVars, sess, taken, loopVars, pipeVars>>

Read(t) == StreamEvents(t) \/ MissingRun(t) \/ ReadEvent(t) \/ ReadError(t) \/ ReadClosed(t)

-----------------------------------------------------------------------------
Next ==
  \/ \E t \in Tasks : Submit(t) \/ ConsumeRun(t) \/ Forward(t) \/ Read(t)
  \/ \E t \in Tasks : LoopIdle(t) \/ PromptEnds(t)
  \/ \E t \in Tasks, what \in Notes : Notify(t, what)

Spec == Init /\ [][Next]_runVars

(***************************************************************************)
(* Fairness: every goroutine that can go on without the runtime goes on.   *)
(* Nothing makes a call to the worker return: RequestWithTimeout writes    *)
(* to stdin under writeMu before its timer starts                          *)
(* (internal/runtime/manager.go:228), and a worker that lives and does not *)
(* read holds the writer for ever.  So the calls of Submit may stay at     *)
(* "acquired", and session/prompt may stay unanswered for ever.            *)
(* consumeRun leaves that call to a goroutine of its own and waits with a  *)
(* ticker: the idle timeout is never zero (SessionIdleTimeout), so its     *)
(* loop goes on.                                                           *)
(* MaxNotes leaves out a runtime that notifies without end, which keeps a  *)
(* session from idling.  Nothing makes a client submit a task.             *)
(***************************************************************************)
Caller(t) == at[t] \notin {"idle", "acquired"} /\ (Submit(t) \/ Read(t))

Fairness ==
  \A t \in Tasks : /\ WF_runVars(Caller(t))
                   /\ WF_runVars(ConsumeRun(t) \/ LoopIdle(t))
                   /\ WF_runVars(Forward(t))

FairSpec == Spec /\ Fairness

-----------------------------------------------------------------------------
(* Properties *)

\* A task between TryAcquire and the end of its run's loop.
Live(t) == at[t] \in Submitting \/ loop[t].pc \in Holding

\* What consumeRun has sent and runTask has not read, oldest first.
Unread(t) == outer[t].events \o fwd[t].event \o inner[t].events

(***************************************************************************)
(* The scope belongs to the one task that is submitting or running, and to *)
(* nobody else: the seven places that release it neither leak it nor free  *)
(* the scope of a later task.                                              *)
(***************************************************************************)
ScopeHeldByLiveRun == \A t \in Tasks : owner = t <=> Live(t)

(***************************************************************************)
(* While a run goes on, the session persisted for its scope is its own: no *)
(* other task rebinds the scope under it, so a later task that loads the   *)
(* binding continues the conversation of the last run that got that far.   *)
(***************************************************************************)
BindingIsLiveSession ==
  \A t \in Tasks : at[t] \in {"bound", "registered"} \/ loop[t].pc \in Holding
                     => bound = sess[t]

(***************************************************************************)
(* The registry holds exactly the runs whose goroutine has not returned    *)
(* from its deferred calls, so StreamEvents finds every run that can still *)
(* send, and a run that ended in any way leaves no entry.                  *)
(***************************************************************************)
RegistryMatchesRuns ==
  \A t \in Tasks : t \in runs <=> \/ at[t] = "registered"
                                  \/ loop[t].pc \notin {"off", "done"}

(***************************************************************************)
(* Two channels and a goroutine between consumeRun and runTask neither     *)
(* reorder nor duplicate nor skip: as long as runTask has not failed the   *)
(* task itself, what it read followed by what is under way is what         *)
(* consumeRun sent.  Events are lost only as a tail nobody reads.  One     *)
(* outcome ends a stream (docs/adapter_contracts.md, stream_events):       *)
(* nothing follows a terminal event in the channels, nothing is read after *)
(* one, and runTask returns when it has read one.                          *)
(***************************************************************************)
StreamIsOrdered ==
  /\ RunTypeOK
  /\ \A t \in Tasks : at[t] \in {"submitted", "reading", "gone"} =>
       LET all == taken[t] \o Unread(t)
       IN Len(all) = loop[t].sent /\ \A i \in 1..Len(all) : all[i].n = i
  /\ \A t \in Tasks :
       /\ \A i \in 1..Len(Unread(t)) : Unread(t)[i].state \in Terminal =>
            i = Len(Unread(t)) /\ loop[t].pc \notin {"accept", "select", "emit"}
       /\ \A i \in 1..Len(taken[t]) : taken[t][i].state \in Terminal =>
            i = Len(taken[t]) /\ at[t] = "settled"

WoundUp(t) ==
  /\ at[t] \in Returned
  /\ owner # t /\ t \notin runs
  /\ fwd[t].pc \in {"off", "done"}

(***************************************************************************)
(* A run comes to an end: runTask returns, the scope is free for the next  *)
(* task, the registry entry is gone and the forwarding goroutine has       *)
(* ended.  No full channel, lost reader, failed prompt or prompt without   *)
(* an answer keeps one of them waiting.  The one exception is a call of    *)
(* Submit that the worker never reads: that task keeps the scope.          *)
(***************************************************************************)
RunWindsUp ==
  \A t \in Tasks : at[t] # "idle" ~> WoundUp(t) \/ [](at[t] = "acquired")

(***************************************************************************)
(* "running, adapter emitted completion: completed"                        *)
(* (docs/state_machine.md, the transition table).  The code does not keep  *)
(* it: the selects of StreamEvents and of runTask may prefer a closed      *)
(* error channel to the completion that waits in the event channel.        *)
(***************************************************************************)
CompletionRecorded ==
  \A t \in Tasks : at[t] \in Returned =>
    \A i \in 1..Len(Unread(t)) : Unread(t)[i].state # "completed"

(***************************************************************************)
(* "TryAcquire rejects concurrent prompts targeting the same sticky        *)
(* session scope" (session.go).  The code does not keep it: consumeRun     *)
(* releases the scope on a terminal notification and on an idle session    *)
(* while its session/prompt is still unanswered.                           *)
(***************************************************************************)
OnePromptPerSession ==
  \A t, u \in Tasks : prompt[t] = "calling" /\ prompt[u] = "calling" /\ t # u
                        => sess[t] # sess[u]
=============================================================================
