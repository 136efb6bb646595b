---------------------------- MODULE EventStream ----------------------------
(***************************************************************************)
(* The two event streams of internal/api/router.go over the task log.      *)
(* handleTaskEvents serves an operator's client: it loads the task, lists  *)
(* and writes the history, and only then subscribes.  handleNodeTaskEvents *)
(* serves a peer node: it subscribes, lists the history, replays it while  *)
(* it drains the subscription one event per frame, and filters what it     *)
(* writes by sequence number.  Writers append all the time.                *)
(***************************************************************************)
EXTENDS TaskLog

VARIABLES reader,   \* the handler of each stream
          fanout    \* what the fan-out did to each stream, for the properties

streamVars == <<logVars, reader, fanout>>

Over == {"closed", "left"}

StreamTypeOK ==
  /\ TypeOK
  /\ reader \in [Subscribers ->
        [mode : {None, "client", "peer"},
         at : {"idle", "loaded", "replayed", "live", "subscribed", "replay"} \cup Over,
         task : Tasks \cup {None},
         ended : BOOLEAN,       \* terminal when loaded; terminal frame replayed
         rest : Seq(Event),     \* history still to be replayed
         kept : Seq(Event),     \* bufferedLive
         last : Nat,            \* lastReplaySeq
         sent : Seq(Event)]]    \* frames on the wire
  /\ fanout \in [Subscribers -> [top : Nat, lost : SUBSET Nat]]

StreamInit ==
  /\ LogInit
  /\ reader = [s \in Subscribers |->
       [mode |-> None, at |-> "idle", task |-> None, ended |-> FALSE,
        rest |-> <<>>, kept |-> <<>>, last |-> 0, sent |-> <<>>]]
  /\ fanout = [s \in Subscribers |-> [top |-> 0, lost |-> {}]]

\* ORDER BY seq; by SeqContiguous that is the order of the commits.
ListEvents(t) == log[t]

IsEnd(e) == e.state \in Terminal

-----------------------------------------------------------------------------
(* handleTaskEvents *)

\* GetTask.
ClientLoad(s, t) ==
  /\ reader[s].at = "idle"
  /\ status[t] # None
  /\ reader' = [reader EXCEPT ![s].mode = "client", ![s].task = t,
                              ![s].at = "loaded", ![s].ended = status[t] \in Terminal]
  /\ UNCHANGED <<logVars, fanout>>

\* ListEvents and the replay; the stream of a task that had ended when it was
\* loaded is complete.
ClientReplay(s) ==
  /\ reader[s].at = "loaded"
  /\ reader' = [reader EXCEPT ![s].sent = ListEvents(reader[s].task),
                  ![s].at = IF reader[s].ended THEN "closed" ELSE "replayed"]
  /\ UNCHANGED <<logVars, fanout>>

ClientSubscribe(s) ==
  /\ reader[s].at = "replayed"
  /\ Subscribe(s, reader[s].task)
  /\ reader' = [reader EXCEPT ![s].at = "live"]
  /\ UNCHANGED fanout

\* Plausible bug: the row, not the event, says that the task has ended.
ClientLiveByRow(s) ==
  LET e == Head(sub[s].chan)
      ended == status[reader[s].task] \in Terminal
  IN /\ reader[s].at = "live"
     /\ sub[s].chan # <<>>
     /\ reader' = [reader EXCEPT ![s].sent = Append(@, e),
                                 ![s].at = IF ended THEN "closed" ELSE "live"]
     /\ IF ended THEN Unsubscribe(s) ELSE Receive(s)
     /\ UNCHANGED fanout

\* Every live event is written; a terminal one ends the stream.
ClientLive(s) ==
  LET e == Head(sub[s].chan)
  IN /\ reader[s].at = "live"
     /\ sub[s].chan # <<>>
     /\ reader' = [reader EXCEPT ![s].sent = Append(@, e),
                                 ![s].at = IF IsEnd(e) THEN "closed" ELSE "live"]
     /\ IF IsEnd(e) THEN Unsubscribe(s) ELSE Receive(s)
     /\ UNCHANGED fanout

-----------------------------------------------------------------------------
(* handleNodeTaskEvents *)

\* A peer asks about a task it was told of in the answer to its submit.
PeerSubscribe(s, t) ==
  /\ reader[s].at = "idle"
  /\ status[t] # None
  /\ Subscribe(s, t)
  /\ reader' = [reader EXCEPT ![s].mode = "peer", ![s].task = t, ![s].at = "subscribed"]
  /\ UNCHANGED fanout

PeerList(s) ==
  /\ reader[s].at = "subscribed"
  /\ reader' = [reader EXCEPT ![s].at = "replay", ![s].rest = ListEvents(reader[s].task)]
  /\ UNCHANGED <<logVars, fanout>>

\* Plausible bug: every event is written, whatever its number.
WriteAny(r, e) ==
  [r EXCEPT !.last = e.seq, !.sent = Append(@, e)]

\* A frame is written unless its number has been passed.
Write(r, e) ==
  IF e.seq <= r.last THEN r ELSE [r EXCEPT !.last = e.seq, !.sent = Append(@, e)]

\* Plausible bug: a live event that arrives during the replay is written at once.
PeerReplayUnbuffered(s) ==
  LET r == reader[s]
      e == Head(r.rest)
      w == [Write(r, e) EXCEPT !.rest = Tail(@), !.ended = @ \/ IsEnd(e)]
  IN /\ r.at = "replay"
     /\ r.rest # <<>>
     /\ IF sub[s].chan = <<>> \/ e.seq <= r.last
          THEN /\ reader' = [reader EXCEPT ![s] = w]
               /\ UNCHANGED logVars
          ELSE /\ reader' = [reader EXCEPT ![s] = Write(w, Head(sub[s].chan))]
               /\ Receive(s)
     /\ UNCHANGED fanout

\* One frame of history; the subscription is drained by at most one event
\* meanwhile.
PeerReplay(s) ==
  LET r == reader[s]
      e == Head(r.rest)
      w == [Write(r, e) EXCEPT !.rest = Tail(@), !.ended = @ \/ IsEnd(e)]
  IN /\ r.at = "replay"
     /\ r.rest # <<>>
     /\ IF sub[s].chan = <<>> \/ e.seq <= r.last
          THEN /\ reader' = [reader EXCEPT ![s] = w]
               /\ UNCHANGED logVars
          ELSE /\ reader' = [reader EXCEPT ![s] =
                               [w EXCEPT !.kept = Append(@, Head(sub[s].chan))]]
               /\ Receive(s)
     /\ UNCHANGED fanout

\* The replayed history held the end of the task.
PeerReplayedEnd(s) ==
  /\ reader[s].at = "replay" /\ reader[s].rest = <<>> /\ reader[s].ended
  /\ reader' = [reader EXCEPT ![s].at = "closed"]
  /\ Unsubscribe(s)
  /\ UNCHANGED fanout

\* Plausible bug: the handler writes the terminal event and waits for more.
WriteLiveOn(s, e, r) ==
  /\ reader' = [reader EXCEPT ![s] = Write(r, e)]
  /\ IF reader[s].kept # <<>> THEN UNCHANGED logVars ELSE Receive(s)

\* The next event of the live phase, kept ones first; a terminal event that is
\* written ends the stream, one that is skipped does not.
WriteLive(s, e, r) ==
  IF IsEnd(e) /\ e.seq > r.last
    THEN reader' = [reader EXCEPT ![s] = [Write(r, e) EXCEPT !.at = "closed"]]
         /\ Unsubscribe(s)
    ELSE reader' = [reader EXCEPT ![s] = Write(r, e)]
         /\ IF reader[s].kept # <<>> THEN UNCHANGED logVars ELSE Receive(s)

Live(s) == reader[s].at = "replay" /\ reader[s].rest = <<>> /\ ~reader[s].ended

PeerKept(s) ==
  /\ Live(s)
  /\ reader[s].kept # <<>>
  /\ WriteLive(s, Head(reader[s].kept), [reader[s] EXCEPT !.kept = Tail(@)])
  /\ UNCHANGED fanout

PeerLive(s) ==
  /\ Live(s)
  /\ reader[s].kept = <<>>
  /\ sub[s].chan # <<>>
  /\ WriteLive(s, Head(sub[s].chan), reader[s])
  /\ UNCHANGED fanout

-----------------------------------------------------------------------------
(* Clients leave, writers append, the process dies *)

\* ctx.Done, or the connection breaks while the handler is at work.
Leave(s) ==
  /\ reader[s].at \notin {"idle"} \cup Over
  /\ reader' = [reader EXCEPT ![s].at = "left"]
  /\ sub' = [sub EXCEPT ![s] = Free]
  /\ UNCHANGED <<dbVars, call, fanout>>

\* An event is lost on a stream when it is not put into the channel, or only
\* after an event with a higher number.
Misses(s, t, seq, offered) ==
  IF sub[s].task # t THEN fanout[s]
  ELSE IF offered /\ Len(sub[s].chan) < ChanCap /\ seq > fanout[s].top
    THEN [fanout[s] EXCEPT !.top = seq]
    ELSE [fanout[s] EXCEPT !.lost = @ \cup {seq}]

Note(w, offered) ==
  fanout' = [s \in Subscribers |->
               Misses(s, call[w].task, call[w].event.seq, offered)]

\* appendEvent returns before the fan-out when the turn cannot be updated.
GoesOn(w) ==
  \/ (Insert(w) \/ InsertConflict(w) \/ UpdateTurn(w)) /\ UNCHANGED fanout
  \/ Publish(w) /\ Note(w, TRUE)
  \/ ContextCancelled(w) /\ IF call[w].step = "turn" THEN Note(w, FALSE)
                                                     ELSE UNCHANGED fanout

StreamCrash ==
  /\ Crash
  /\ reader' = [s \in Subscribers |->
       IF reader[s].at \in {"idle"} \cup Over THEN reader[s]
       ELSE [reader[s] EXCEPT !.at = "left"]]
  /\ UNCHANGED fanout

ReaderStep(s) ==
  \/ ClientReplay(s) \/ ClientSubscribe(s) \/ ClientLive(s)
  \/ PeerList(s) \/ PeerReplay(s) \/ PeerReplayedEnd(s) \/ PeerKept(s) \/ PeerLive(s)

StreamNext ==
  \/ \E t \in Tasks : InsertTask(t) /\ UNCHANGED <<reader, fanout>>
  \/ \E w \in Writers : Append1(w) /\ UNCHANGED <<reader, fanout>>
  \/ \E w \in Writers : GoesOn(w) /\ UNCHANGED reader
  \/ \E s \in Subscribers, t \in Tasks : ClientLoad(s, t) \/ PeerSubscribe(s, t)
  \/ \E s \in Subscribers : ReaderStep(s)
  \/ \E s \in Subscribers : Leave(s)
  \/ StreamCrash

StreamSpec == StreamInit /\ [][StreamNext]_streamVars

-----------------------------------------------------------------------------
Sent(s) == {reader[s].sent[i].seq : i \in DOMAIN reader[s].sent}

(***************************************************************************)
(* Between the replay and the live phase nothing falls through: a peer     *)
(* stream has written every event up to the last one it wrote, except the  *)
(* ones the fan-out lost (channel full, overtaken by a later event,        *)
(* request cancelled before the fan-out) or has not come to yet.  The      *)
(* subscription made before the history is read, the buffer kept during    *)
(* the replay and the filter by number have to work together for this.     *)
(***************************************************************************)
Unpublished(t) ==
  {call[w].event.seq : w \in {v \in Writers : /\ call[v].step \in {"turn", "publish"}
                                             /\ call[v].task = t}}

Excused(s) == fanout[s].lost \cup Unpublished(reader[s].task)

PeerMissesOnlyLost ==
  /\ StreamTypeOK
  /\ \A s \in Subscribers : reader[s].mode = "peer" /\ reader[s].at \notin Over =>
       1..reader[s].last \subseteq Sent(s) \cup Excused(s)

(***************************************************************************)
(* A stream the server ends has shown its reader the end of the task,      *)
(* although a client stream decides from a task row that was read before   *)
(* the history, and a peer stream from the history alone.                  *)
(***************************************************************************)
ClosedHasOutcome ==
  \A s \in Subscribers : reader[s].at = "closed" =>
     \E i \in DOMAIN reader[s].sent : IsEnd(reader[s].sent[i])

(***************************************************************************)
(* A peer stream keeps the promise of FrameFeed to the node that mirrors   *)
(* the task.                                                               *)
(***************************************************************************)
FeedOf(s) ==
  IF reader[s].mode # "peer" THEN "idle"
  ELSE CASE reader[s].at = "closed" -> "closed"
         [] reader[s].at = "left" -> "cut"
         [] OTHER -> "open"

PeerFeed(s, t) == INSTANCE FrameFeed WITH
  history <- log[t],
  frames <- IF reader[s].mode = "peer" /\ reader[s].task = t THEN reader[s].sent ELSE <<>>,
  feed <- IF reader[s].task = t THEN FeedOf(s) ELSE "idle"

PeersAreFed ==
  /\ \A s \in Subscribers, t \in Tasks : PeerFeed(s, t)!FeedInit
  /\ [][\A s \in Subscribers, t \in Tasks :
          [PeerFeed(s, t)!FeedNext]_(PeerFeed(s, t)!feedVars)]_streamVars

(***************************************************************************)
(* The comment in handleTaskEvents: late subscribers see the full task     *)
(* timeline before they switch to live updates.                            *)
(***************************************************************************)
LateSubscriberSeesAll ==
  \A s \in Subscribers : reader[s].mode = "client" =>
     \A n \in Sent(s) : 1..n \subseteq Sent(s) \cup Excused(s)

(***************************************************************************)
(* Once the end of a task is in its log and was not lost by the fan-out, a *)
(* peer stream of the task comes to an end.                                *)
(***************************************************************************)
EndDue(s) ==
  /\ reader[s].mode = "peer" /\ reader[s].at \notin Over
  /\ \E i \in DOMAIN log[reader[s].task] :
        IsEnd(log[reader[s].task][i]) /\ i \notin fanout[s].lost

PeerStreamEnds == \A s \in Subscribers : EndDue(s) ~> ~EndDue(s)
=============================================================================
