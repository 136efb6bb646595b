------------------------------- MODULE Relay -------------------------------
(***************************************************************************)
(* Node-to-node relay, seen from the origin node: createRemoteProxyTask    *)
(* stores a proxy task, relayRemoteTask submits it to the peer, stores the *)
(* binding and mirrors the frames of the peer's event stream into the log  *)
(* of the proxy, and reconcileRestartState accounts at the next start for  *)
(* the relays a crash interrupted.                                         *)
(*                                                                         *)
(* After CreateTask the relay goroutine is the only writer of its proxy:   *)
(* cancel and resume do not resolve a remote target.  So an appendEvent is *)
(* one step here (TaskLog shows what it does to row and log).  The peer is *)
(* its task's log and a stream that promises what FrameFeed says.          *)
(***************************************************************************)
EXTENDS TaskTypes, Sequences, FiniteSetsExt

CONSTANTS Proxies,      \* proxy tasks of the origin node
          DestInputs,   \* what the peer may record about a task
          MaxDest,      \* bound: events of all destination tasks together
          MaxCrashes    \* bound: crashes of the origin node

ASSUME RelayAssumption ==
  /\ DestInputs \subseteq [kind : Kinds, state : Statuses]
  /\ MaxDest \in Nat \ {0}
  /\ MaxCrashes \in Nat

VARIABLES dest,     \* the peer's log of the destination task, empty before it exists
          wire,     \* the event stream: where it is, its frames, how many were read
          log,      \* the log of the proxy; from is remote_event_seq, 0 for own events
          binding,  \* remote_task_bindings.status, None without a row
          relay,    \* where the goroutine of the proxy is
          node,     \* up, down, or starting and reconciling
          todo,     \* bindings reconcileRestartState still has to look at
          crashes   \* crashes so far

peerVars == <<dest, wire>>
vars == <<dest, wire, log, binding, relay, node, todo, crashes>>

Streaming   == "relay_streaming"
Interrupted == "relay_interrupted"

\* The label names what the goroutine has done last.  marked: a terminal frame
\* is in the log and not in the binding yet; cut: the reverse of a failure.
Creating == {"inserted", "created", "stored"}
Relaying == {"routed", "submitted", "accepted", "bound", "dispatched",
             "streaming", "marked", "cut"}
Relays == {"new", "lost", "over", "gone"} \cup Creating \cup Relaying

Own(kind, state) == [kind |-> kind, state |-> state, from |-> 0]

Wire == [at : {"idle", "open", "closed", "cut"}, frames : Seq(Event), read : Nat]

Entry == [kind : Kinds, state : Statuses, from : Nat]

RelayTypeOK ==
  /\ dest \in [Proxies -> Seq(Event)]
  /\ wire \in [Proxies -> Wire]
  /\ log \in [Proxies -> Seq(Entry)]
  /\ binding \in [Proxies -> {None, Streaming, Interrupted} \cup Terminal]
  /\ relay \in [Proxies -> Relays]
  /\ node \in {"up", "down", "reconciling"}
  /\ todo \subseteq Proxies
  /\ crashes \in 0..MaxCrashes

Init ==
  /\ dest = [p \in Proxies |-> <<>>]
  /\ wire = [p \in Proxies |-> [at |-> "idle", frames |-> <<>>, read |-> 0]]
  /\ log = [p \in Proxies |-> <<>>]
  /\ binding = [p \in Proxies |-> None]
  /\ relay = [p \in Proxies |-> "new"]
  /\ node = "up"
  /\ todo = {}
  /\ crashes = 0

-----------------------------------------------------------------------------
(* Helpers *)

Move(p, from, to) ==
  /\ node = "up"
  /\ relay[p] = from
  /\ relay' = [relay EXCEPT ![p] = to]
  /\ UNCHANGED <<node, todo, crashes>>

\* appendEvent
Record(p, e) == log' = [log EXCEPT ![p] = Append(@, e)]

\* UpdateRemoteTaskBindingStatus touches no row when there is none.
SetBinding(p, s) == binding' = [binding EXCEPT ![p] = IF @ = None THEN None ELSE s]

Status(p) == IF log[p] = <<>> THEN "created" ELSE log[p][Len(log[p])].state

RecordFailure(p) == Record(p, Own("task.failed", "failed"))

-----------------------------------------------------------------------------
(* createRemoteProxyTask, under the context of the API request *)

InsertProxy(p) ==
  /\ Move(p, "new", "inserted")
  /\ UNCHANGED <<peerVars, log, binding>>

RecordCreated(p) ==
  /\ Move(p, "inserted", "created")
  /\ Record(p, Own("task.created", "created"))
  /\ UNCHANGED <<peerVars, binding>>

RecordRouted(p) ==
  /\ Move(p, "created", "stored")
  /\ Record(p, Own("task.routed", "created"))
  /\ UNCHANGED <<peerVars, binding>>

\* The thread turn is stored, then "go relayRemoteTask".
StartRelay(p) ==
  /\ Move(p, "stored", "routed")
  /\ UNCHANGED <<peerVars, log, binding>>

\* The client disconnects: the next statement fails and no relay is started.
AbandonCreate(p) ==
  /\ relay[p] \in Creating
  /\ Move(p, relay[p], "lost")
  /\ UNCHANGED <<peerVars, log, binding>>

-----------------------------------------------------------------------------
(* The destination *)

\* handleNodeTaskSubmit runs CreateTask; the answer is on its way.
Accept(p) ==
  /\ relay[p] = "routed" /\ dest[p] = <<>>
  /\ Move(p, "routed", "submitted")
  /\ dest' = [dest EXCEPT ![p] =
                <<[seq |-> 1, kind |-> "task.created", state |-> "created"]>>]
  /\ UNCHANGED <<wire, log, binding>>

\* The destination task goes on without the origin.
DestRecords(p) ==
  /\ dest[p] # <<>>
  /\ MapThenSumSet(LAMBDA q : Len(dest[q]), Proxies) < MaxDest
  /\ \E in \in DestInputs :
        dest' = [dest EXCEPT ![p] = Append(@,
                   [seq |-> Len(@) + 1, kind |-> in.kind, state |-> in.state])]
  /\ UNCHANGED <<wire, log, binding, relay, node, todo, crashes>>

\* handleNodeTaskEvents writes a frame, and may close the stream after the end
\* of the task; what it may skip and when it may close is FrameFeed's promise.
LastFrame(p) ==
  IF wire[p].frames = <<>> THEN 0 ELSE wire[p].frames[Len(wire[p].frames)].seq

EndSent(frames) == \E i \in DOMAIN frames : frames[i].state \in Terminal

SendFrame(p) ==
  /\ wire[p].at = "open"
  /\ \E i \in (LastFrame(p) + 1)..Len(dest[p]) :
        wire' = [wire EXCEPT ![p].frames = Append(@, dest[p][i])]
  /\ UNCHANGED <<dest, log, binding, relay, node, todo, crashes>>

\* Plausible bug: the peer ends a stream that has shown no outcome.
CloseAnytime(p) ==
  /\ wire[p].at = "open"
  /\ wire' = [wire EXCEPT ![p].at = "closed"]
  /\ UNCHANGED <<dest, log, binding, relay, node, todo, crashes>>

CloseStream(p) ==
  /\ wire[p].at = "open" /\ EndSent(wire[p].frames)
  /\ wire' = [wire EXCEPT ![p].at = "closed"]
  /\ UNCHANGED <<dest, log, binding, relay, node, todo, crashes>>

\* The peer or the network fails.
CutStream(p) ==
  /\ wire[p].at = "open"
  /\ wire' = [wire EXCEPT ![p].at = "cut"]
  /\ UNCHANGED <<dest, log, binding, relay, node, todo, crashes>>

-----------------------------------------------------------------------------
(* relayRemoteTask *)

\* SubmitTask returns an error: the peer was not reached, it refused, or it
\* accepted and the answer did not arrive.
SubmitFails(p) ==
  /\ relay[p] \in {"routed", "submitted"}
  /\ Move(p, relay[p], "over")
  /\ RecordFailure(p)
  /\ UNCHANGED <<peerVars, binding>>

Accepted(p) ==
  /\ Move(p, "submitted", "accepted")
  /\ UNCHANGED <<peerVars, log, binding>>

\* UpsertRemoteTaskBinding
Bind(p) ==
  /\ Move(p, "accepted", "bound")
  /\ binding' = [binding EXCEPT ![p] = Streaming]
  /\ UNCHANGED <<peerVars, log>>

BindFails(p) ==
  /\ Move(p, "accepted", "over")
  /\ RecordFailure(p)
  /\ UNCHANGED <<peerVars, binding>>

\* UpdateThreadTurnRemoteBindingByTaskID succeeds, and the acceptance is recorded.
Dispatch(p) ==
  /\ Move(p, "bound", "dispatched")
  /\ Record(p, Own("task.dispatching", "dispatching"))
  /\ UNCHANGED <<peerVars, binding>>

TurnBindFails(p) ==
  /\ Move(p, "bound", "over")
  /\ RecordFailure(p)
  /\ UNCHANGED <<peerVars, binding>>

OpenStream(p) ==
  /\ Move(p, "dispatched", "streaming")
  /\ wire' = [wire EXCEPT ![p].at = "open"]
  /\ UNCHANGED <<dest, log, binding>>

-----------------------------------------------------------------------------
(* mirrorRemoteEvents *)

Unread(p) == wire[p].read < Len(wire[p].frames)

NextFrame(p) == wire[p].frames[wire[p].read + 1]

Mirrored(f) == [kind |-> f.kind, state |-> f.state, from |-> f.seq]

\* Plausible bug: the stream is read from its start again.
MirrorAgain(p) ==
  /\ wire[p].at # "idle" /\ wire[p].frames # <<>>
  /\ Move(p, "streaming", "streaming")
  /\ Len(log[p]) < MaxDest + 3
  /\ Record(p, Mirrored(wire[p].frames[1]))
  /\ UNCHANGED <<peerVars, binding>>

\* One frame is appended under the next number of the proxy's own log.
Mirror(p) ==
  /\ Unread(p)
  /\ Move(p, "streaming", IF NextFrame(p).state \in Terminal THEN "marked" ELSE "streaming")
  /\ Record(p, Mirrored(NextFrame(p)))
  /\ wire' = [wire EXCEPT ![p].read = @ + 1]
  /\ UNCHANGED <<dest, binding>>

\* Plausible bug: the binding is closed at any frame.
MarkOutcomeAhead(p) ==
  /\ relay[p] \in {"streaming", "marked"}
  /\ Move(p, relay[p], "streaming")
  /\ SetBinding(p, "completed")
  /\ UNCHANGED <<peerVars, log>>

MarkOutcome(p) ==
  /\ Move(p, "marked", "streaming")
  /\ SetBinding(p, Status(p))
  /\ UNCHANGED <<peerVars, log>>

\* The stream cannot be opened (dispatched), breaks, carries a frame that cannot
\* be decoded, or a frame cannot be appended.
StreamFails(p) ==
  /\ relay[p] = "dispatched" \/ wire[p].at = "cut" \/ Unread(p)
  /\ relay[p] \in {"dispatched", "streaming"}
  /\ Move(p, relay[p], "cut")
  /\ SetBinding(p, Interrupted)
  /\ wire' = [wire EXCEPT ![p].at = IF @ = "open" THEN "cut" ELSE @]
  /\ UNCHANGED <<dest, log>>

RecordCut(p) ==
  /\ Move(p, "cut", "over")
  /\ RecordFailure(p)
  /\ UNCHANGED <<peerVars, binding>>

\* Plausible bug: an interrupted stream is taken for one that ended.
StreamEndsEarly(p) ==
  /\ wire[p].at \in {"closed", "cut"}
  /\ Move(p, "streaming", "over")
  /\ UNCHANGED <<peerVars, log, binding>>

\* End of file: nothing is recorded.
StreamEnds(p) ==
  /\ wire[p].at = "closed" /\ ~Unread(p)
  /\ Move(p, "streaming", "over")
  /\ UNCHANGED <<peerVars, log, binding>>

-----------------------------------------------------------------------------
(* Restart *)

Crash ==
  /\ crashes < MaxCrashes
  /\ node # "down"
  /\ crashes' = crashes + 1
  /\ node' = "down"
  /\ todo' = {}
  /\ relay' = [p \in Proxies |->
                 IF relay[p] \in Creating \cup Relaying THEN "gone" ELSE relay[p]]
  /\ wire' = [p \in Proxies |->
                [wire[p] EXCEPT !.at = IF @ = "open" THEN "cut" ELSE @]]
  /\ UNCHANGED <<dest, log, binding>>

\* Bindings in no terminal status; relay_interrupted ones of an earlier restart
\* are among them.
Unsettled == {p \in Proxies : binding[p] \in {Streaming, Interrupted}}

\* Plausible bug: only the streaming ones are looked at.
RestartStreamingOnly ==
  /\ node = "down"
  /\ node' = "reconciling"
  /\ todo' = {p \in Proxies : binding[p] = Streaming}
  /\ binding' = [p \in Proxies |-> IF p \in Unsettled THEN Interrupted ELSE binding[p]]
  /\ UNCHANGED <<peerVars, log, relay, crashes>>

\* MarkInterruptedRemoteRelayBindingsOnRestart
Restart ==
  /\ node = "down"
  /\ node' = "reconciling"
  /\ todo' = Unsettled
  /\ binding' = [p \in Proxies |-> IF p \in Unsettled THEN Interrupted ELSE binding[p]]
  /\ UNCHANGED <<peerVars, log, relay, crashes>>

\* Plausible bug: every interrupted proxy is failed, finished or not.
ReconcileAlways(p) ==
  /\ node = "reconciling" /\ p \in todo
  /\ todo' = todo \ {p}
  /\ RecordFailure(p)
  /\ UNCHANGED <<peerVars, binding, relay, node, crashes>>

\* A finished proxy has its binding repaired, any other one fails.
Reconcile(p) ==
  /\ node = "reconciling" /\ p \in todo
  /\ todo' = todo \ {p}
  /\ IF Status(p) \in Terminal
       THEN SetBinding(p, Status(p)) /\ UNCHANGED log
       ELSE RecordFailure(p) /\ UNCHANGED binding
  /\ UNCHANGED <<peerVars, relay, node, crashes>>

Serve ==
  /\ node = "reconciling" /\ todo = {}
  /\ node' = "up"
  /\ UNCHANGED <<peerVars, log, binding, relay, todo, crashes>>

-----------------------------------------------------------------------------
CreateProxy(p) ==
  InsertProxy(p) \/ RecordCreated(p) \/ RecordRouted(p) \/ StartRelay(p)

RelayStep(p) ==
  \/ Accepted(p) \/ Bind(p) \/ Dispatch(p) \/ OpenStream(p)
  \/ Mirror(p) \/ MarkOutcome(p) \/ StreamEnds(p)
  \/ StreamFails(p) \/ RecordCut(p)

Destination(p) ==
  Accept(p) \/ DestRecords(p) \/ SendFrame(p) \/ CloseStream(p) \/ CutStream(p)

Next ==
  \/ \E p \in Proxies :
       \/ CreateProxy(p) \/ AbandonCreate(p)
       \/ Destination(p)
       \/ SubmitFails(p) \/ BindFails(p) \/ TurnBindFails(p)
       \/ RelayStep(p)
       \/ Reconcile(p)
  \/ Crash \/ Restart \/ Serve

Spec == Init /\ [][Next]_vars

\* Goroutines run on, and an operator starts a node that went down.  Nothing is
\* assumed of the peer.
FairSpec ==
  /\ Spec
  /\ \A p \in Proxies : WF_vars(RelayStep(p)) /\ WF_vars(Reconcile(p))
  /\ WF_vars(Restart) /\ WF_vars(Serve)

-----------------------------------------------------------------------------
HasOutcome(p) == \E i \in DOMAIN log[p] : log[p][i].state \in Terminal

(***************************************************************************)
(* A node that serves requests has accounted for every relay a crash       *)
(* interrupted: the proxy of a stored binding has an outcome in its log,   *)
(* and no binding claims a stream nobody reads.  A second crash in the     *)
(* middle of the reconciliation, and bindings left interrupted by an       *)
(* earlier one, must not be forgotten.                                     *)
(***************************************************************************)
RestartAccountsForAll ==
  node = "up" => \A p \in Proxies :
    relay[p] = "gone" /\ binding[p] # None => HasOutcome(p) /\ binding[p] # Streaming

(***************************************************************************)
(* A binding that shows an outcome shows one that is in the proxy's log:   *)
(* it is written after the event, never ahead of it, and repaired from it. *)
(***************************************************************************)
BindingShowsOutcome ==
  /\ RelayTypeOK
  /\ \A p \in Proxies : binding[p] \in Terminal =>
       \E i \in DOMAIN log[p] : log[p][i].state = binding[p]

(***************************************************************************)
(* The proxy never tells more than the destination did: its mirrored       *)
(* events are events of the destination task, in order and each at most    *)
(* once, and only they can say that the work was done.                     *)
(***************************************************************************)
ProxyTellsTruth ==
  \A p \in Proxies :
     /\ \A i, j \in DOMAIN log[p] :
          i < j /\ log[p][i].from > 0 /\ log[p][j].from > 0 =>
             log[p][i].from < log[p][j].from
     /\ \A i \in DOMAIN log[p] :
          LET e == log[p][i]
          IN IF e.from = 0 THEN e.state # "completed"
             ELSE /\ e.from \in DOMAIN dest[p]
                  /\ e.state = dest[p][e.from].state

FailedByOrigin(p, i) == log[p][i].from = 0 /\ log[p][i].state = "failed"

(***************************************************************************)
(* The origin fails a proxy at most once, and that is the last thing it    *)
(* records about it: neither the relay nor any later restart adds to it.   *)
(* A restart fails no proxy whose log ends in an outcome.  The relay       *)
(* itself may do that when the stream breaks: see OutcomeEndsProxy.        *)
(***************************************************************************)
OwnFailureIsLast ==
  \A p \in Proxies : \A i \in DOMAIN log[p] : FailedByOrigin(p, i) =>
     /\ i = Len(log[p])
     /\ i > 1 /\ log[p][i - 1].state \in Terminal => relay[p] = "over"

(***************************************************************************)
(* The peer this module assumes is one that keeps FrameFeed's promise.     *)
(***************************************************************************)
Feed(p) == INSTANCE FrameFeed WITH
  history <- dest[p], frames <- wire[p].frames, feed <- wire[p].at

PeerIsFeed ==
  /\ \A p \in Proxies : Feed(p)!FeedInit
  /\ [][\A p \in Proxies : [Feed(p)!FeedNext]_(Feed(p)!feedVars)]_vars

(***************************************************************************)
(* A proxy whose stream has ended, in whatever way, gets an outcome, even  *)
(* if the origin node crashes on the way.                                  *)
(***************************************************************************)
StreamEndGivesOutcome ==
  \A p \in Proxies : wire[p].at \in {"closed", "cut"} ~> HasOutcome(p)

-----------------------------------------------------------------------------
(* A statement of the documentation that the code does not keep *)

(***************************************************************************)
(* docs/state_machine.md 2 and 12: a task ends in exactly one terminal     *)
(* state and remains in it, so the origin does not fail a proxy that has   *)
(* mirrored the outcome of its destination.                                *)
(***************************************************************************)
OutcomeEndsProxy ==
  \A p \in Proxies : \A i, j \in DOMAIN log[p] :
     i < j /\ log[p][i].state \in Terminal => ~FailedByOrigin(p, j)
=============================================================================
