------------------------- MODULE EventStreamProofs -------------------------
(***************************************************************************)
(* Proofs about EventStream: what the two streams have written, for any    *)
(* number of tasks, writers and streams and any capacity of the channels.  *)
(***************************************************************************)
EXTENDS EventStream, TaskLogProofs

Numbers(events) == {events[i].seq : i \in DOMAIN events}

\* What a peer stream has taken from the history or the channel and not written.
Pending(s) == reader[s].kept \o sub[s].chan

Listening == {"subscribed", "replay"}

\* Each phase of a stream belongs to one of the two handlers, and what a handler
\* has not started yet is empty.
PhaseFits(s) ==
  /\ reader[s].at = "idle" =>
       /\ reader[s].mode = None /\ sub[s].task = None /\ fanout[s].top = 0
       /\ ~reader[s].ended
  /\ reader[s].at # "idle" => reader[s].task \in Tasks
  /\ reader[s].at \in {"loaded", "replayed", "live"} => reader[s].mode = "client"
  /\ reader[s].at \in Listening =>
       reader[s].mode = "peer" /\ sub[s].task = reader[s].task
  /\ reader[s].at \in {"idle", "subscribed"} =>
       /\ reader[s].rest = <<>> /\ reader[s].kept = <<>> /\ reader[s].last = 0
       /\ reader[s].sent = <<>> /\ ~reader[s].ended

\* A peer stream holds committed events of its task, and its filter stands at the
\* last frame.
IsCommitted(e, t) == \E j \in DOMAIN log[t] : log[t][j] = e

FramesFit(s) ==
  reader[s].at \in Listening =>
    /\ \A i \in DOMAIN reader[s].rest : IsCommitted(reader[s].rest[i], reader[s].task)
    /\ \A i \in DOMAIN reader[s].kept : IsCommitted(reader[s].kept[i], reader[s].task)
    /\ reader[s].last <= Len(log[reader[s].task])
    /\ reader[s].last = IF reader[s].sent = <<>> THEN 0
                        ELSE reader[s].sent[Len(reader[s].sent)].seq

\* A handler that takes the task for ended has, or will have, written the end.
HasEnd(events) == \E i \in DOMAIN events : IsEnd(events[i])

EndFits(s) ==
  /\ reader[s].at = "loaded" /\ reader[s].ended => HasEnd(log[reader[s].task])
  /\ reader[s].at \in Listening /\ reader[s].ended => HasEnd(reader[s].sent)
  /\ reader[s].at = "closed" => HasEnd(reader[s].sent)

\* The rest of the history follows the last frame without a gap.
RestFollows(s) ==
  reader[s].at \in Listening =>
    /\ \A i \in DOMAIN reader[s].rest : reader[s].rest[i].seq = reader[s].last + i
    /\ reader[s].rest # <<>> => 1..reader[s].last \subseteq Sent(s)

\* Every event is written, still to be written, on its way to the fan-out, or lost.
AllCovered(s) ==
  reader[s].at = "replay" =>
    1..Len(log[reader[s].task])
      \subseteq Sent(s) \cup Excused(s) \cup Numbers(reader[s].rest) \cup Numbers(Pending(s))

\* Of the pending events q, those that do not count as lost are in order, and the
\* filter passes only what is written or lost.
InOrder(q, top, lost) ==
  /\ \A i \in DOMAIN q : q[i].seq <= top
  /\ \A i, j \in DOMAIN q : i < j /\ q[j].seq \notin lost => q[i].seq < q[j].seq

Passes(q, top, lost, last, sent) ==
  /\ \A i \in DOMAIN q : q[i].seq \in lost \cup sent \/ q[i].seq > last
  /\ last <= top \/ 1..last \subseteq sent

PendingInOrder(s) ==
  reader[s].at \in Listening =>
    /\ InOrder(Pending(s), fanout[s].top, fanout[s].lost)
    /\ Passes(Pending(s), fanout[s].top, fanout[s].lost, reader[s].last, Sent(s))

StreamFits(s) ==
  /\ PhaseFits(s)
  /\ FramesFit(s)
  /\ EndFits(s)
  /\ RestFollows(s)
  /\ AllCovered(s)
  /\ PendingInOrder(s)

StreamInv ==
  /\ LogInv
  /\ StreamTypeOK
  /\ \A s \in Subscribers : StreamFits(s)

-----------------------------------------------------------------------------
(* The handler of one stream, field by field *)

Phases == {"idle", "loaded", "replayed", "live", "subscribed", "replay"} \cup Over

Reader == [mode : {None, "client", "peer"}, at : Phases, task : Tasks \cup {None},
           ended : BOOLEAN, rest : Seq(Event), kept : Seq(Event), last : Nat,
           sent : Seq(Event)]

\* The handlers are handlers, and the log has its types.
LEMMA ReadersTyped ==
  StreamTypeOK <=> /\ TypeOK
                   /\ reader \in [Subscribers -> Reader]
                   /\ fanout \in [Subscribers -> [top : Nat, lost : SUBSET Nat]]
BY DEF StreamTypeOK, Reader, Phases

\* x and y differ in the named fields at most.
With(x, y, fields) ==
  /\ "mode" \notin fields => x.mode = y.mode
  /\ "at" \notin fields => x.at = y.at
  /\ "task" \notin fields => x.task = y.task
  /\ "ended" \notin fields => x.ended = y.ended
  /\ "rest" \notin fields => x.rest = y.rest
  /\ "kept" \notin fields => x.kept = y.kept
  /\ "last" \notin fields => x.last = y.last
  /\ "sent" \notin fields => x.sent = y.sent

\* The fields of a handler.
LEMMA ReaderFields ==
  ASSUME NEW r \in Reader
  PROVE  /\ r.mode \in {None, "client", "peer"} /\ r.at \in Phases
         /\ r.task \in Tasks \cup {None} /\ r.ended \in BOOLEAN
         /\ r.rest \in Seq(Event) /\ r.kept \in Seq(Event)
         /\ r.last \in Nat /\ r.sent \in Seq(Event)
BY DEF Reader

\* Setting one field keeps the others.
LEMMA WithAt ==
  ASSUME NEW r \in Reader, NEW v \in Phases
  PROVE  LET x == [r EXCEPT !.at = v] IN x \in Reader /\ x.at = v /\ With(x, r, {"at"})
BY DEF Reader, With

\* Setting one field keeps the others.
LEMMA WithMode ==
  ASSUME NEW r \in Reader, NEW v \in {None, "client", "peer"}
  PROVE  LET x == [r EXCEPT !.mode = v] IN x \in Reader /\ x.mode = v /\ With(x, r, {"mode"})
BY DEF Reader, With

\* Setting one field keeps the others.
LEMMA WithTask ==
  ASSUME NEW r \in Reader, NEW v \in Tasks
  PROVE  LET x == [r EXCEPT !.task = v] IN x \in Reader /\ x.task = v /\ With(x, r, {"task"})
BY DEF Reader, With

\* Setting one field keeps the others.
LEMMA WithRest ==
  ASSUME NEW r \in Reader, NEW v \in Seq(Event)
  PROVE  LET x == [r EXCEPT !.rest = v] IN x \in Reader /\ x.rest = v /\ With(x, r, {"rest"})
BY DEF Reader, With

\* Setting one field keeps the others.
LEMMA WithKept ==
  ASSUME NEW r \in Reader, NEW v \in Seq(Event)
  PROVE  LET x == [r EXCEPT !.kept = v] IN x \in Reader /\ x.kept = v /\ With(x, r, {"kept"})
BY DEF Reader, With

\* Setting one field keeps the others.
LEMMA WithSent ==
  ASSUME NEW r \in Reader, NEW v \in Seq(Event)
  PROVE  LET x == [r EXCEPT !.sent = v] IN x \in Reader /\ x.sent = v /\ With(x, r, {"sent"})
BY DEF Reader, With

\* Setting one field keeps the others.
LEMMA WithLast ==
  ASSUME NEW r \in Reader, NEW v \in Nat
  PROVE  LET x == [r EXCEPT !.last = v] IN x \in Reader /\ x.last = v /\ With(x, r, {"last"})
BY DEF Reader, With

\* Setting one field keeps the others.
LEMMA WithEnded ==
  ASSUME NEW r \in Reader, NEW v \in BOOLEAN
  PROVE  LET x == [r EXCEPT !.ended = v] IN x \in Reader /\ x.ended = v /\ With(x, r, {"ended"})
BY DEF Reader, With

\* A frame that passes the filter.
LEMMA Writes ==
  ASSUME NEW r \in Reader, NEW e \in Event, e.seq > r.last
  PROVE  LET x == Write(r, e)
         IN x \in Reader /\ x.last = e.seq /\ x.sent = Append(r.sent, e)
            /\ With(x, r, {"last", "sent"})
<1> DEFINE g == [r EXCEPT !.last = e.seq]
           h == [g EXCEPT !.sent = Append(r.sent, e)]
<1>1. e.seq \in Nat /\ Append(r.sent, e) \in Seq(Event)
  <2>1. r.sent \in Seq(Event)
    BY ReaderFields
  <2>2. Append(r.sent, e) \in Seq(Event)
    BY <2>1
  <2> QED  BY <2>2 DEF Event
<1>2. g \in Reader /\ g.last = e.seq /\ With(g, r, {"last"})
  BY <1>1, WithLast
<1>3. Write(r, e) = h
  <2>1. e.seq > r.last /\ ~(e.seq <= r.last)
    BY <1>1, ReaderFields
  <2> QED  BY <2>1 DEF Write
<1> HIDE DEF g
<1>4. h \in Reader /\ h.sent = Append(r.sent, e) /\ With(h, g, {"sent"})
  BY <1>1, <1>2, WithSent
<1> HIDE DEF h
<1> QED  BY <1>2, <1>3, <1>4 DEF With

-----------------------------------------------------------------------------
(* What the steps do to one stream *)

\* Only stream s moves, and nobody is offered anything meanwhile.
Only(s) ==
  /\ reader' \in [Subscribers -> Reader]
  /\ \A r \in Subscribers \ {s} : reader'[r] = reader[r] /\ sub'[r] = sub[r]
  /\ UNCHANGED <<dbVars, call, fanout>>

\* Setting the handler of s is a move of s.
LEMMA Sets ==
  ASSUME NEW s \in Subscribers, NEW x \in Reader, reader \in [Subscribers -> Reader],
         reader' = [reader EXCEPT ![s] = x]
  PROVE  /\ reader' \in [Subscribers -> Reader] /\ reader'[s] = x
         /\ \A r \in Subscribers \ {s} : reader'[r] = reader[r]
OBVIOUS

\* A client's stream begins: the task is there, and may have ended.
Loads(s) ==
  /\ Only(s) /\ sub'[s] = sub[s]
  /\ reader[s].at = "idle" /\ reader'[s].at = "loaded" /\ reader'[s].mode = "client"
  /\ reader'[s].task \in Tasks /\ status[reader'[s].task] # None
  /\ reader'[s].ended = (status[reader'[s].task] \in Terminal)

\* A client's stream goes on; the server ends it after the end of the task only.
Serves(s) ==
  /\ Only(s)
  /\ reader[s].at \in {"loaded", "replayed", "live"}
  /\ reader'[s].at \in {"replayed", "live", "closed"}
  /\ reader'[s].mode = reader[s].mode /\ reader'[s].task = reader[s].task
  /\ reader'[s].at = "closed" => \E i \in DOMAIN reader'[s].sent : IsEnd(reader'[s].sent[i])

\* A stream breaks.
Leaves(s) ==
  /\ Only(s)
  /\ reader[s].at \notin {"idle"} \cup Over /\ reader'[s].at = "left"
  /\ With(reader'[s], reader[s], {"at"})

\* A peer's stream begins with the subscription ...
Listens(s) ==
  /\ Only(s)
  /\ reader[s].at = "idle" /\ reader'[s].at = "subscribed" /\ reader'[s].mode = "peer"
  /\ reader'[s].task \in Tasks /\ sub'[s].task = reader'[s].task /\ sub'[s].chan = sub[s].chan
  /\ With(reader'[s], reader[s], {"at", "mode", "task"})

\* ... and then reads the history.
Lists(s) ==
  /\ Only(s) /\ sub'[s] = sub[s]
  /\ reader[s].at = "subscribed" /\ reader'[s].at = "replay"
  /\ reader'[s].rest = log[reader[s].task]
  /\ With(reader'[s], reader[s], {"at", "rest"})

\* One frame of history; the channel may be drained meanwhile.
Replays(s) ==
  LET e == Head(reader[s].rest)
  IN /\ Only(s)
     /\ reader[s].at = "replay" /\ reader[s].rest # <<>>
     /\ reader'[s].rest = Tail(reader[s].rest)
     /\ reader'[s].last = e.seq /\ reader'[s].sent = Append(reader[s].sent, e)
     /\ reader'[s].ended = (reader[s].ended \/ IsEnd(e))
     /\ With(reader'[s], reader[s], {"rest", "kept", "last", "sent", "ended"})
     /\ sub'[s].task = sub[s].task
     /\ \/ reader'[s].kept = reader[s].kept /\ sub'[s].chan = sub[s].chan
        \/ /\ sub[s].chan # <<>>
           /\ reader'[s].kept = Append(reader[s].kept, Head(sub[s].chan))
           /\ sub'[s].chan = Tail(sub[s].chan)

\* The history held the end.
Finishes(s) ==
  /\ Only(s)
  /\ reader[s].at = "replay" /\ reader[s].ended /\ reader'[s].at = "closed"
  /\ With(reader'[s], reader[s], {"at"})

\* The next pending event e: it is kept, or it is in the channel.
Takes(s, e) ==
  \/ /\ reader[s].kept # <<>> /\ e = Head(reader[s].kept)
     /\ reader'[s].kept = Tail(reader[s].kept)
     /\ sub'[s] = sub[s] \/ reader'[s].at = "closed"
  \/ /\ reader[s].kept = <<>> /\ sub[s].chan # <<>> /\ e = Head(sub[s].chan)
     /\ reader'[s].kept = reader[s].kept
     /\ sub'[s] = [sub[s] EXCEPT !.chan = Tail(@)] \/ reader'[s].at = "closed"

\* It is skipped ...
Skips(s) ==
  \E e \in Event :
    /\ Only(s)
    /\ reader[s].at = "replay" /\ reader[s].rest = <<>> /\ Takes(s, e)
    /\ e.seq <= reader[s].last /\ reader'[s].at = "replay"
    /\ With(reader'[s], reader[s], {"kept"})

\* ... or written, and the stream ends with the end of the task.
Sends(s) ==
  \E e \in Event :
    /\ Only(s)
    /\ reader[s].at = "replay" /\ reader[s].rest = <<>> /\ Takes(s, e)
    /\ e.seq > reader[s].last
    /\ reader'[s].last = e.seq /\ reader'[s].sent = Append(reader[s].sent, e)
    /\ reader'[s].at = IF IsEnd(e) THEN "closed" ELSE "replay"
    /\ With(reader'[s], reader[s], {"kept", "last", "sent", "at"})

\* The steps of a stream.
Moves(s) ==
  \/ Loads(s) \/ Serves(s) \/ Leaves(s) \/ Listens(s) \/ Lists(s) \/ Replays(s)
  \/ Finishes(s) \/ Skips(s) \/ Sends(s)

\* A channel that is read or given up.
LEMMA ChannelMoves ==
  ASSUME TypeOK, NEW s \in Subscribers
  PROVE  /\ Receive(s) => /\ sub'[s] = [sub[s] EXCEPT !.chan = Tail(@)]
                          /\ sub'[s].task = sub[s].task /\ sub'[s].chan = Tail(sub[s].chan)
         /\ \A t \in Tasks : Subscribe(s, t) => /\ sub[s].task = None /\ sub'[s].task = t
                                                /\ sub'[s].chan = sub[s].chan
         /\ Receive(s) \/ Unsubscribe(s) \/ (\E t \in Tasks : Subscribe(s, t)) =>
              /\ \A r \in Subscribers \ {s} : sub'[r] = sub[r]
              /\ UNCHANGED <<dbVars, call>>
<1>1. Receive(s) => /\ sub'[s] = [sub[s] EXCEPT !.chan = Tail(@)]
                    /\ sub'[s].task = sub[s].task /\ sub'[s].chan = Tail(sub[s].chan)
  BY DEF Receive, TypeOK
<1>2. ASSUME NEW t \in Tasks, Subscribe(s, t)
      PROVE  sub[s].task = None /\ sub'[s].task = t /\ sub'[s].chan = sub[s].chan
  BY <1>2 DEF Subscribe, TypeOK
<1>3. Receive(s) \/ Unsubscribe(s) \/ (\E t \in Tasks : Subscribe(s, t)) =>
              /\ \A r \in Subscribers \ {s} : sub'[r] = sub[r]
              /\ UNCHANGED <<dbVars, call>>
  BY DEF Receive, Unsubscribe, Subscribe, TypeOK, dbVars
<1> QED  BY <1>1, <1>2, <1>3

\* What the handler steps start from.
Before(s) ==
  /\ TypeOK /\ reader \in [Subscribers -> Reader]
  /\ s \in Subscribers
  /\ reader[s].at # "idle" => reader[s].task \in Tasks
  /\ reader[s].at \in {"loaded", "replayed", "live"} => reader[s].mode = "client"
  /\ reader[s].at = "loaded" /\ reader[s].ended =>
       \E j \in DOMAIN log[reader[s].task] : IsEnd(log[reader[s].task][j])
  /\ reader[s].at = "replay" =>
       \A i \in DOMAIN reader[s].rest : reader[s].rest[i].seq = reader[s].last + i

\* Their shape.
LEMMA BeforeTyped ==
  ASSUME NEW s, Before(s)
  PROVE  /\ s \in Subscribers /\ reader[s] \in Reader
         /\ reader[s].at \in Phases /\ reader[s].rest \in Seq(Event)
         /\ reader[s].kept \in Seq(Event) /\ reader[s].sent \in Seq(Event)
         /\ reader[s].last \in Nat /\ sub[s].chan \in Seq(Event)
<1>1. s \in Subscribers /\ reader[s] \in Reader /\ TypeOK
  BY DEF Before
<1> QED  BY <1>1, ReaderFields DEF TypeOK

\* handleTaskEvents: the task is loaded.
LEMMA ClientLoads ==
  ASSUME NEW s, Before(s), NEW t \in Tasks, ClientLoad(s, t)
  PROVE  Loads(s)
<1>1. reader[s] \in Reader /\ s \in Subscribers /\ reader \in [Subscribers -> Reader]
  BY BeforeTyped DEF Before
<1> DEFINE g1 == [reader[s] EXCEPT !.mode = "client"]
           g2 == [g1 EXCEPT !.task = t]
           g3 == [g2 EXCEPT !.at = "loaded"]
           g4 == [g3 EXCEPT !.ended = status[t] \in Terminal]
<1>2. reader' = [reader EXCEPT ![s] = g4]
  BY <1>1 DEF ClientLoad
<1>3. /\ "client" \in {None, "client", "peer"} /\ "loaded" \in Phases
      /\ (status[t] \in Terminal) \in BOOLEAN
  BY DEF Phases
<1>4. g1 \in Reader /\ g1.mode = "client" /\ With(g1, reader[s], {"mode"})
  BY <1>1, <1>3, WithMode
<1> HIDE DEF g1
<1>5. g2 \in Reader /\ g2.task = t /\ With(g2, g1, {"task"})
  BY <1>4, WithTask
<1> HIDE DEF g2
<1>6. g3 \in Reader /\ g3.at = "loaded" /\ With(g3, g2, {"at"})
  BY <1>3, <1>5, WithAt
<1> HIDE DEF g3
<1>7. g4 \in Reader /\ g4.ended = (status[t] \in Terminal) /\ With(g4, g3, {"ended"})
  BY <1>3, <1>6, WithEnded
<1> HIDE DEF g4
<1>8. g4.mode = "client" /\ g4.task = t /\ g4.at = "loaded"
  BY <1>4, <1>5, <1>6, <1>7 DEF With
<1>9. /\ reader' \in [Subscribers -> Reader] /\ reader'[s] = g4
      /\ \A r \in Subscribers \ {s} : reader'[r] = reader[r]
  BY <1>1, <1>2, <1>7, Sets
<1>10. reader[s].at = "idle" /\ status[t] # None /\ UNCHANGED <<dbVars, call, sub, fanout>>
  BY DEF ClientLoad, logVars, dbVars
<1> QED  BY <1>7, <1>8, <1>9, <1>10 DEF Loads, Only

\* It lists and writes the history.
LEMMA ClientReplays ==
  ASSUME NEW s, Before(s), ClientReplay(s)
  PROVE  Serves(s)
<1>1. /\ reader[s] \in Reader /\ s \in Subscribers /\ reader \in [Subscribers -> Reader]
      /\ reader[s].at = "loaded" /\ reader[s].task \in Tasks /\ log[reader[s].task] \in Seq(Event)
  BY BeforeTyped DEF Before, ClientReplay, TypeOK
<1> DEFINE g1 == [reader[s] EXCEPT !.sent = log[reader[s].task]]
           to == IF reader[s].ended THEN "closed" ELSE "replayed"
           g2 == [g1 EXCEPT !.at = to]
<1>2. reader' = [reader EXCEPT ![s] = g2]
  BY <1>1 DEF ClientReplay, ListEvents
<1>3. to \in Phases
  BY DEF Phases, Over
<1>4. to \in {"closed", "replayed"} /\ (to = "closed" => reader[s].ended)
  BY ReaderFields, <1>1
<1>5. g1 \in Reader /\ g1.sent = log[reader[s].task] /\ With(g1, reader[s], {"sent"})
  BY <1>1, WithSent
<1> HIDE DEF g1, to
<1>6. g2 \in Reader /\ g2.at = to /\ With(g2, g1, {"at"})
  BY <1>3, <1>5, WithAt
<1> HIDE DEF g2
<1>7. /\ g2.mode = reader[s].mode /\ g2.task = reader[s].task
      /\ g2.sent = log[reader[s].task]
  BY <1>5, <1>6 DEF With
<1>8. /\ reader' \in [Subscribers -> Reader] /\ reader'[s] = g2
      /\ \A r \in Subscribers \ {s} : reader'[r] = reader[r]
  BY <1>1, <1>2, <1>6, Sets
<1>9. UNCHANGED <<dbVars, call, sub, fanout>>
  BY DEF ClientReplay, logVars, dbVars
<1>10. to = "closed" => \E i \in DOMAIN log[reader[s].task] : IsEnd(log[reader[s].task][i])
  BY <1>1, <1>4 DEF Before
<1> QED  BY <1>1, <1>4, <1>6, <1>7, <1>8, <1>9, <1>10 DEF Serves, Only

\* It subscribes.
LEMMA ClientSubscribes ==
  ASSUME NEW s, Before(s), ClientSubscribe(s)
  PROVE  Serves(s) /\ Subscribe(s, reader[s].task) /\ reader[s].task \in Tasks
<1>1. /\ reader[s] \in Reader /\ s \in Subscribers /\ reader \in [Subscribers -> Reader]
      /\ reader[s].at = "replayed" /\ reader[s].task \in Tasks /\ TypeOK
  BY BeforeTyped DEF Before, ClientSubscribe
<1> DEFINE g == [reader[s] EXCEPT !.at = "live"]
<1>2. reader' = [reader EXCEPT ![s] = g]
  BY <1>1 DEF ClientSubscribe
<1>3. "live" \in Phases
  BY DEF Phases
<1>4. g \in Reader /\ g.at = "live" /\ With(g, reader[s], {"at"})
  BY <1>1, <1>3, WithAt
<1> HIDE DEF g
<1>5. /\ reader' \in [Subscribers -> Reader] /\ reader'[s] = g
      /\ \A r \in Subscribers \ {s} : reader'[r] = reader[r]
  BY <1>1, <1>2, <1>4, Sets
<1>6. Subscribe(s, reader[s].task) /\ fanout' = fanout
  BY DEF ClientSubscribe
<1>7. /\ \A r \in Subscribers \ {s} : sub'[r] = sub[r]
      /\ UNCHANGED <<dbVars, call>>
  BY <1>1, <1>6, ChannelMoves
<1> QED  BY <1>1, <1>4, <1>5, <1>6, <1>7 DEF Serves, Only, With

\* It writes what the channel brings.
LEMMA ClientGoesOn ==
  ASSUME NEW s, Before(s), ClientLive(s)
  PROVE  Serves(s) /\ (Receive(s) \/ Unsubscribe(s))
<1>1. /\ reader[s] \in Reader /\ s \in Subscribers /\ reader \in [Subscribers -> Reader]
      /\ reader[s].at = "live" /\ TypeOK
      /\ reader[s].sent \in Seq(Event) /\ sub[s].chan \in Seq(Event) /\ sub[s].chan # <<>>
  BY BeforeTyped DEF Before, ClientLive
<1> DEFINE e == Head(sub[s].chan)
           sent == Append(reader[s].sent, e)
           to == IF IsEnd(e) THEN "closed" ELSE "live"
           g1 == [reader[s] EXCEPT !.sent = sent]
           g2 == [g1 EXCEPT !.at = to]
<1>2. e \in Event /\ sent \in Seq(Event) /\ to \in Phases /\ to \in {"closed", "live"}
  BY <1>1 DEF Phases, Over
<1>3. reader' = [reader EXCEPT ![s] = g2]
  BY <1>1 DEF ClientLive
<1>4. to = "closed" => \E i \in DOMAIN sent : IsEnd(sent[i])
  <2>1. Len(reader[s].sent) + 1 \in DOMAIN sent /\ sent[Len(reader[s].sent) + 1] = e
    BY <1>1, <1>2
  <2> QED  BY <2>1
<1>5. Receive(s) \/ Unsubscribe(s)
  BY DEF ClientLive
<1> HIDE DEF e, sent, to
<1>6. g1 \in Reader /\ g1.sent = sent /\ With(g1, reader[s], {"sent"})
  BY <1>1, <1>2, WithSent
<1> HIDE DEF g1
<1>7. g2 \in Reader /\ g2.at = to /\ With(g2, g1, {"at"})
  BY <1>2, <1>6, WithAt
<1> HIDE DEF g2
<1>8. g2.mode = reader[s].mode /\ g2.task = reader[s].task /\ g2.sent = sent
  BY <1>6, <1>7 DEF With
<1>9. /\ reader' \in [Subscribers -> Reader] /\ reader'[s] = g2
      /\ \A r \in Subscribers \ {s} : reader'[r] = reader[r]
  BY <1>1, <1>3, <1>7, Sets
<1>10. /\ \A r \in Subscribers \ {s} : sub'[r] = sub[r]
       /\ UNCHANGED <<dbVars, call>>
  BY <1>1, <1>5, ChannelMoves
<1>11. fanout' = fanout
  BY DEF ClientLive
<1> QED  BY <1>1, <1>2, <1>4, <1>5, <1>7, <1>8, <1>9, <1>10, <1>11 DEF Serves, Only

\* Any stream breaks: its channel is given up.
LEMMA StreamLeaves ==
  ASSUME NEW s, Before(s), FreeIsEmpty, Leave(s)
  PROVE  Leaves(s) /\ (Unsubscribe(s) \/ sub' = sub)
<1>1. /\ reader[s] \in Reader /\ s \in Subscribers /\ reader \in [Subscribers -> Reader]
      /\ TypeOK
  BY BeforeTyped DEF Before
<1> DEFINE g == [reader[s] EXCEPT !.at = "left"]
<1>2. reader' = [reader EXCEPT ![s] = g]
  BY <1>1 DEF Leave
<1>3. "left" \in Phases
  BY DEF Phases, Over
<1>4. g \in Reader /\ g.at = "left" /\ With(g, reader[s], {"at"})
  BY <1>1, <1>3, WithAt
<1> HIDE DEF g
<1>5. /\ reader' \in [Subscribers -> Reader] /\ reader'[s] = g
      /\ \A r \in Subscribers \ {s} : reader'[r] = reader[r]
  BY <1>1, <1>2, <1>4, Sets
<1>6. sub' = [sub EXCEPT ![s] = Free] /\ UNCHANGED <<dbVars, call, fanout>>
  BY DEF Leave
<1>7. \A r \in Subscribers \ {s} : sub'[r] = sub[r]
  BY <1>1, <1>6 DEF TypeOK
<1>8. Unsubscribe(s) \/ sub' = sub
  <2>1. CASE sub[s].task # None
    BY <1>6, <2>1 DEF Unsubscribe, dbVars
  <2>2. CASE sub[s].task = None
    <3>1. sub[s].chan = <<>> /\ sub[s] \in [task : Tasks \cup {None}, chan : Seq(Event)]
      BY <1>1, <2>2 DEF FreeIsEmpty, TypeOK
    <3>2. sub[s] = Free
      BY <2>2, <3>1 DEF Free
    <3>3. sub \in [Subscribers -> [task : Tasks \cup {None}, chan : Seq(Event)]]
      BY <1>1 DEF TypeOK
    <3> QED  BY <1>6, <3>2, <3>3
  <2> QED  BY <2>1, <2>2
<1>9. reader[s].at \notin {"idle"} \cup Over
  BY DEF Leave
<1> QED  BY <1>4, <1>5, <1>6, <1>7, <1>8, <1>9 DEF Leaves, Only

\* handleNodeTaskEvents subscribes ...
LEMMA PeerSubscribes ==
  ASSUME NEW s, Before(s), NEW t \in Tasks, PeerSubscribe(s, t)
  PROVE  Listens(s) /\ Subscribe(s, t)
<1>1. /\ reader[s] \in Reader /\ s \in Subscribers /\ reader \in [Subscribers -> Reader]
      /\ TypeOK
  BY BeforeTyped DEF Before
<1> DEFINE g1 == [reader[s] EXCEPT !.mode = "peer"]
           g2 == [g1 EXCEPT !.task = t]
           g3 == [g2 EXCEPT !.at = "subscribed"]
<1>2. reader' = [reader EXCEPT ![s] = g3]
  BY <1>1 DEF PeerSubscribe
<1>3. "peer" \in {None, "client", "peer"} /\ "subscribed" \in Phases
  BY DEF Phases
<1>4. g1 \in Reader /\ g1.mode = "peer" /\ With(g1, reader[s], {"mode"})
  BY <1>1, <1>3, WithMode
<1> HIDE DEF g1
<1>5. g2 \in Reader /\ g2.task = t /\ With(g2, g1, {"task"})
  BY <1>4, WithTask
<1> HIDE DEF g2
<1>6. g3 \in Reader /\ g3.at = "subscribed" /\ With(g3, g2, {"at"})
  BY <1>3, <1>5, WithAt
<1> HIDE DEF g3
<1>7. /\ g3.mode = "peer" /\ g3.task = t /\ g3.at = "subscribed"
      /\ With(g3, reader[s], {"at", "mode", "task"})
  BY <1>4, <1>5, <1>6 DEF With
<1>8. /\ reader' \in [Subscribers -> Reader] /\ reader'[s] = g3
      /\ \A r \in Subscribers \ {s} : reader'[r] = reader[r]
  BY <1>1, <1>2, <1>6, Sets
<1>9. reader[s].at = "idle" /\ Subscribe(s, t) /\ fanout' = fanout
  BY DEF PeerSubscribe
<1>10. /\ sub'[s].task = t /\ sub'[s].chan = sub[s].chan
       /\ \A r \in Subscribers \ {s} : sub'[r] = sub[r]
       /\ UNCHANGED <<dbVars, call>>
  BY <1>1, <1>9, ChannelMoves
<1> QED  BY <1>7, <1>8, <1>9, <1>10 DEF Listens, Only

\* ... lists the history ...
LEMMA PeerLists ==
  ASSUME NEW s, Before(s), PeerList(s)
  PROVE  Lists(s)
<1>1. /\ reader[s] \in Reader /\ s \in Subscribers /\ reader \in [Subscribers -> Reader]
      /\ reader[s].at = "subscribed" /\ reader[s].task \in Tasks
      /\ log[reader[s].task] \in Seq(Event)
  BY BeforeTyped DEF Before, PeerList, TypeOK
<1> DEFINE g1 == [reader[s] EXCEPT !.at = "replay"]
           g2 == [g1 EXCEPT !.rest = log[reader[s].task]]
<1>2. reader' = [reader EXCEPT ![s] = g2]
  BY <1>1 DEF PeerList, ListEvents
<1>3. "replay" \in Phases
  BY DEF Phases
<1>4. g1 \in Reader /\ g1.at = "replay" /\ With(g1, reader[s], {"at"})
  BY <1>1, <1>3, WithAt
<1> HIDE DEF g1
<1>5. g2 \in Reader /\ g2.rest = log[reader[s].task] /\ With(g2, g1, {"rest"})
  BY <1>1, <1>4, WithRest
<1> HIDE DEF g2
<1>6. g2.at = "replay" /\ With(g2, reader[s], {"at", "rest"})
  BY <1>4, <1>5 DEF With
<1>7. /\ reader' \in [Subscribers -> Reader] /\ reader'[s] = g2
      /\ \A r \in Subscribers \ {s} : reader'[r] = reader[r]
  BY <1>1, <1>2, <1>5, Sets
<1>8. UNCHANGED <<dbVars, call, sub, fanout>>
  BY DEF PeerList, logVars, dbVars
<1> QED  BY <1>1, <1>5, <1>6, <1>7, <1>8 DEF Lists, Only

\* The frame of the replay: its number is the next one, so it is written.
LEMMA ReplayFrame ==
  ASSUME NEW s, Before(s), reader[s].at = "replay", reader[s].rest # <<>>
  PROVE  LET r == reader[s]
             e == Head(r.rest)
             w == [Write(r, e) EXCEPT !.rest = Tail(@), !.ended = @ \/ IsEnd(e)]
         IN /\ e \in Event /\ e.seq > r.last
            /\ w \in Reader /\ w.rest = Tail(r.rest) /\ w.last = e.seq
            /\ w.sent = Append(r.sent, e) /\ w.ended = (r.ended \/ IsEnd(e))
            /\ With(w, r, {"rest", "last", "sent", "ended"})
<1> DEFINE r == reader[s]
           e == Head(r.rest)
           f == Write(r, e)
           g1 == [f EXCEPT !.rest = Tail(r.rest)]
           g2 == [g1 EXCEPT !.ended = r.ended \/ IsEnd(e)]
<1>1. r \in Reader /\ r.rest \in Seq(Event) /\ r.last \in Nat /\ r.rest # <<>>
  BY BeforeTyped
<1>2. e \in Event /\ Tail(r.rest) \in Seq(Event) /\ 1 \in DOMAIN r.rest /\ e = r.rest[1]
  BY <1>1
<1>3. e.seq = r.last + 1
  BY <1>2 DEF Before
<1>4. e.seq > r.last
  BY <1>1, <1>3
<1>5. (r.ended \/ IsEnd(e)) \in BOOLEAN
  OBVIOUS
<1> HIDE DEF r, e
<1>6. f \in Reader /\ f.last = e.seq /\ f.sent = Append(r.sent, e) /\ With(f, r, {"last", "sent"})
  BY <1>1, <1>2, <1>4, Writes
<1> HIDE DEF f
<1>7. f.rest = r.rest /\ f.ended = r.ended
  BY <1>6 DEF With
<1>8. [f EXCEPT !.rest = Tail(@), !.ended = @ \/ IsEnd(e)] = g2
  BY <1>6, <1>7 DEF Reader
<1>9. g1 \in Reader /\ g1.rest = Tail(r.rest) /\ With(g1, f, {"rest"})
  BY <1>2, <1>6, WithRest
<1> HIDE DEF g1
<1>10. g2 \in Reader /\ g2.ended = (r.ended \/ IsEnd(e)) /\ With(g2, g1, {"ended"})
  BY <1>5, <1>9, WithEnded
<1> HIDE DEF g2
<1>11. /\ g2.rest = Tail(r.rest) /\ g2.last = e.seq /\ g2.sent = Append(r.sent, e)
       /\ With(g2, r, {"rest", "last", "sent", "ended"})
  BY <1>6, <1>9, <1>10 DEF With
<1> QED  BY <1>2, <1>4, <1>8, <1>10, <1>11 DEF r, e, f

\* ... and replays it, keeping what the channel brings meanwhile.
LEMMA PeerReplays ==
  ASSUME NEW s, Before(s), PeerReplay(s)
  PROVE  Replays(s) /\ (Receive(s) \/ UNCHANGED logVars)
<1> DEFINE r == reader[s]
           e == Head(r.rest)
           w == [Write(r, e) EXCEPT !.rest = Tail(@), !.ended = @ \/ IsEnd(e)]
<1>1. /\ r \in Reader /\ s \in Subscribers /\ reader \in [Subscribers -> Reader]
      /\ r.at = "replay" /\ r.rest # <<>> /\ TypeOK
      /\ r.kept \in Seq(Event) /\ sub[s].chan \in Seq(Event) /\ r.last \in Nat
  BY BeforeTyped DEF Before, PeerReplay
<1>2. /\ e \in Event /\ e.seq > r.last
      /\ w \in Reader /\ w.rest = Tail(r.rest) /\ w.last = e.seq
      /\ w.sent = Append(r.sent, e) /\ w.ended = (r.ended \/ IsEnd(e))
      /\ With(w, r, {"rest", "last", "sent", "ended"})
  BY <1>1, ReplayFrame
<1>3. fanout' = fanout
  BY DEF PeerReplay
<1>4. ~(e.seq <= r.last)
  BY <1>1, <1>2 DEF Event
<1>5. CASE sub[s].chan = <<>>
  <2>1. reader' = [reader EXCEPT ![s] = w] /\ UNCHANGED logVars
    BY <1>5 DEF PeerReplay
  <2> HIDE DEF r, e, w
  <2>2. /\ reader' \in [Subscribers -> Reader] /\ reader'[s] = w
        /\ \A q \in Subscribers \ {s} : reader'[q] = reader[q]
    BY <1>1, <1>2, <2>1, Sets
  <2>3. w.kept = r.kept /\ With(w, r, {"rest", "kept", "last", "sent", "ended"})
    BY <1>2 DEF With
  <2>4. UNCHANGED <<dbVars, call, sub>>
    BY <2>1 DEF logVars, dbVars
  <2>5. Only(s)
    BY <1>3, <2>2, <2>4 DEF Only
  <2> QED  BY <1>1, <1>2, <2>1, <2>2, <2>3, <2>4, <2>5 DEF Replays, r, e
<1>6. CASE sub[s].chan # <<>>
  <2> DEFINE kept == Append(r.kept, Head(sub[s].chan))
             g == [w EXCEPT !.kept = kept]
  <2>1. reader' = [reader EXCEPT ![s] = [w EXCEPT !.kept = Append(@, Head(sub[s].chan))]]
        /\ Receive(s)
    BY <1>4, <1>6 DEF PeerReplay
  <2> HIDE DEF r, e, w
  <2>2. w.kept = r.kept
    BY <1>2 DEF With
  <2>3. [w EXCEPT !.kept = Append(@, Head(sub[s].chan))] = g
    BY <1>2, <2>2 DEF Reader
  <2>4. kept \in Seq(Event)
    BY <1>1, <1>6
  <2>5. g \in Reader /\ g.kept = kept /\ With(g, w, {"kept"})
    BY <1>2, <2>4, WithKept
  <2> HIDE DEF g
  <2>6. /\ reader' \in [Subscribers -> Reader] /\ reader'[s] = g
        /\ \A q \in Subscribers \ {s} : reader'[q] = reader[q]
    BY <1>1, <2>1, <2>3, <2>5, Sets
  <2>7. /\ g.rest = Tail(r.rest) /\ g.last = e.seq
        /\ g.sent = Append(r.sent, e) /\ g.ended = (r.ended \/ IsEnd(e))
        /\ With(g, r, {"rest", "kept", "last", "sent", "ended"})
    BY <1>2, <2>5 DEF With
  <2>8. /\ sub'[s].task = sub[s].task /\ sub'[s].chan = Tail(sub[s].chan)
        /\ \A q \in Subscribers \ {s} : sub'[q] = sub[q]
        /\ UNCHANGED <<dbVars, call>>
    BY <1>1, <2>1, ChannelMoves
  <2>9. Only(s)
    BY <1>3, <2>6, <2>8 DEF Only
  <2> QED  BY <1>1, <1>2, <1>6, <2>1, <2>5, <2>6, <2>7, <2>8, <2>9 DEF Replays, r, e
<1> QED  BY <1>5, <1>6

\* The history held the end of the task.
LEMMA PeerFinishes ==
  ASSUME NEW s, Before(s), PeerReplayedEnd(s)
  PROVE  Finishes(s) /\ Unsubscribe(s)
<1>1. /\ reader[s] \in Reader /\ s \in Subscribers /\ reader \in [Subscribers -> Reader]
      /\ TypeOK
  BY BeforeTyped DEF Before
<1> DEFINE g == [reader[s] EXCEPT !.at = "closed"]
<1>2. reader' = [reader EXCEPT ![s] = g]
  BY <1>1 DEF PeerReplayedEnd
<1>3. "closed" \in Phases
  BY DEF Phases, Over
<1>4. g \in Reader /\ g.at = "closed" /\ With(g, reader[s], {"at"})
  BY <1>1, <1>3, WithAt
<1> HIDE DEF g
<1>5. /\ reader' \in [Subscribers -> Reader] /\ reader'[s] = g
      /\ \A r \in Subscribers \ {s} : reader'[r] = reader[r]
  BY <1>1, <1>2, <1>4, Sets
<1>6. /\ Unsubscribe(s) /\ fanout' = fanout
      /\ reader[s].at = "replay" /\ reader[s].ended
  BY DEF PeerReplayedEnd
<1>7. /\ \A r \in Subscribers \ {s} : sub'[r] = sub[r]
      /\ UNCHANGED <<dbVars, call>>
  BY <1>1, <1>6, ChannelMoves
<1> QED  BY <1>4, <1>5, <1>6, <1>7 DEF Finishes, Only

\* The live phase writes or skips an event, whether it was kept or not.
LEMMA WritesLive ==
  ASSUME NEW s, Before(s), NEW e \in Event, NEW r \in Reader, With(r, reader[s], {"kept"}),
         reader[s].at = "replay", WriteLive(s, e, r), fanout' = fanout
  PROVE  /\ Only(s) /\ reader'[s].kept = r.kept
         /\ \/ /\ e.seq <= reader[s].last /\ reader'[s].at = "replay"
               /\ With(reader'[s], reader[s], {"kept"})
            \/ /\ e.seq > reader[s].last
               /\ reader'[s].last = e.seq /\ reader'[s].sent = Append(reader[s].sent, e)
               /\ reader'[s].at = IF IsEnd(e) THEN "closed" ELSE "replay"
               /\ With(reader'[s], reader[s], {"kept", "last", "sent", "at"})
         /\ \/ reader'[s].at = "closed" /\ Unsubscribe(s)
            \/ reader[s].kept # <<>> /\ UNCHANGED logVars
            \/ reader[s].kept = <<>> /\ Receive(s)
<1>1. /\ s \in Subscribers /\ reader \in [Subscribers -> Reader] /\ TypeOK
      /\ r.last \in Nat /\ r.last = reader[s].last /\ r.sent = reader[s].sent
      /\ r.at = "replay" /\ e.seq \in Nat
  BY BeforeTyped DEF Before, With, Event
<1>2. /\ \/ UNCHANGED logVars \/ Receive(s) \/ Unsubscribe(s)
      /\ \A q \in Subscribers \ {s} : sub'[q] = sub[q]
      /\ UNCHANGED <<dbVars, call>>
  <2>1. UNCHANGED logVars \/ Receive(s) \/ Unsubscribe(s)
    BY DEF WriteLive
  <2>2. UNCHANGED logVars => UNCHANGED <<dbVars, call, sub>>
    BY DEF logVars, dbVars
  <2> QED  BY <1>1, <2>1, <2>2, ChannelMoves
<1>3. CASE IsEnd(e) /\ e.seq > r.last
  <2> DEFINE f == Write(r, e)
             g == [f EXCEPT !.at = "closed"]
  <2>1. reader' = [reader EXCEPT ![s] = g] /\ Unsubscribe(s)
    BY <1>3 DEF WriteLive
  <2>2. f \in Reader /\ f.last = e.seq /\ f.sent = Append(r.sent, e) /\ With(f, r, {"last", "sent"})
    BY <1>3, Writes
  <2>3. "closed" \in Phases
    BY DEF Phases, Over
  <2> HIDE DEF f
  <2>4. g \in Reader /\ g.at = "closed" /\ With(g, f, {"at"})
    BY <2>2, <2>3, WithAt
  <2> HIDE DEF g
  <2>5. /\ g.kept = r.kept /\ g.last = e.seq /\ g.sent = Append(r.sent, e)
        /\ With(g, reader[s], {"kept", "last", "sent", "at"})
    BY <2>2, <2>4 DEF With
  <2>6. /\ reader' \in [Subscribers -> Reader] /\ reader'[s] = g
        /\ \A q \in Subscribers \ {s} : reader'[q] = reader[q]
    BY <1>1, <2>1, <2>4, Sets
  <2>7. Only(s)
    BY <1>2, <2>6 DEF Only
  <2> QED  BY <1>1, <1>3, <2>1, <2>4, <2>5, <2>6, <2>7
<1>4. CASE ~(IsEnd(e) /\ e.seq > r.last)
  <2> DEFINE f == Write(r, e)
  <2>1. /\ reader' = [reader EXCEPT ![s] = f]
        /\ \/ reader[s].kept # <<>> /\ UNCHANGED logVars
           \/ reader[s].kept = <<>> /\ Receive(s)
    BY <1>4 DEF WriteLive
  <2>2. CASE e.seq <= r.last
    <3>1. f = r
      BY <2>2 DEF Write
    <3>2. /\ reader' \in [Subscribers -> Reader] /\ reader'[s] = r
          /\ \A q \in Subscribers \ {s} : reader'[q] = reader[q]
      BY <1>1, <2>1, <3>1, Sets
    <3>3. Only(s)
      BY <1>2, <3>2 DEF Only
    <3> QED  BY <1>1, <2>1, <2>2, <3>2, <3>3
  <2>3. CASE e.seq > r.last
    <3>1. f \in Reader /\ f.last = e.seq /\ f.sent = Append(r.sent, e) /\ With(f, r, {"last", "sent"})
      BY <2>3, Writes
    <3> HIDE DEF f
    <3>2. /\ f.kept = r.kept /\ f.at = "replay" /\ With(f, reader[s], {"kept", "last", "sent", "at"})
      BY <1>1, <3>1 DEF With
    <3>3. /\ reader' \in [Subscribers -> Reader] /\ reader'[s] = f
          /\ \A q \in Subscribers \ {s} : reader'[q] = reader[q]
      BY <1>1, <2>1, <3>1, Sets
    <3>4. Only(s)
      BY <1>2, <3>3 DEF Only
    <3> QED  BY <1>1, <1>4, <2>1, <2>3, <3>1, <3>2, <3>3, <3>4
  <2> QED  BY <1>1, <2>2, <2>3
<1> QED  BY <1>3, <1>4

\* The kept events come first ...
LEMMA PeerKeptMoves ==
  ASSUME NEW s, Before(s), PeerKept(s)
  PROVE  (Skips(s) \/ Sends(s)) /\ (UNCHANGED logVars \/ Unsubscribe(s))
<1> DEFINE e == Head(reader[s].kept)
           r == [reader[s] EXCEPT !.kept = Tail(reader[s].kept)]
<1>1. /\ reader[s] \in Reader /\ reader[s].at = "replay" /\ reader[s].rest = <<>>
      /\ reader[s].kept \in Seq(Event) /\ reader[s].kept # <<>>
  BY BeforeTyped DEF PeerKept, Live
<1>2. e \in Event /\ Tail(reader[s].kept) \in Seq(Event)
  BY <1>1
<1>3. r \in Reader /\ r.kept = Tail(reader[s].kept) /\ With(r, reader[s], {"kept"})
  BY <1>1, <1>2, WithKept
<1>4. WriteLive(s, e, r) /\ fanout' = fanout
  <2>1. [reader[s] EXCEPT !.kept = Tail(@)] = r
    BY <1>1 DEF Reader
  <2> QED  BY <2>1 DEF PeerKept
<1> HIDE DEF r, e
<1>5. /\ Only(s) /\ reader'[s].kept = r.kept
      /\ \/ /\ e.seq <= reader[s].last /\ reader'[s].at = "replay"
            /\ With(reader'[s], reader[s], {"kept"})
         \/ /\ e.seq > reader[s].last
            /\ reader'[s].last = e.seq /\ reader'[s].sent = Append(reader[s].sent, e)
            /\ reader'[s].at = IF IsEnd(e) THEN "closed" ELSE "replay"
            /\ With(reader'[s], reader[s], {"kept", "last", "sent", "at"})
      /\ \/ reader'[s].at = "closed" /\ Unsubscribe(s)
         \/ UNCHANGED logVars
  BY <1>1, <1>2, <1>3, <1>4, WritesLive
<1>6. Takes(s, e)
  BY <1>1, <1>3, <1>5 DEF Takes, e, logVars
<1> QED  BY <1>1, <1>2, <1>5, <1>6 DEF Skips, Sends

\* ... and then what the channel brings.
LEMMA PeerLiveMoves ==
  ASSUME NEW s, Before(s), PeerLive(s)
  PROVE  (Skips(s) \/ Sends(s)) /\ (Receive(s) \/ Unsubscribe(s))
<1> DEFINE e == Head(sub[s].chan)
<1>1. /\ reader[s] \in Reader /\ reader[s].at = "replay" /\ reader[s].rest = <<>>
      /\ reader[s].kept = <<>> /\ sub[s].chan \in Seq(Event) /\ sub[s].chan # <<>>
      /\ TypeOK /\ s \in Subscribers
  BY BeforeTyped DEF Before, PeerLive, Live
<1>2. e \in Event
  BY <1>1
<1>3. WriteLive(s, e, reader[s]) /\ fanout' = fanout /\ With(reader[s], reader[s], {"kept"})
  BY DEF PeerLive, With
<1> HIDE DEF e
<1>5. /\ Only(s) /\ reader'[s].kept = reader[s].kept
      /\ \/ /\ e.seq <= reader[s].last /\ reader'[s].at = "replay"
            /\ With(reader'[s], reader[s], {"kept"})
         \/ /\ e.seq > reader[s].last
            /\ reader'[s].last = e.seq /\ reader'[s].sent = Append(reader[s].sent, e)
            /\ reader'[s].at = IF IsEnd(e) THEN "closed" ELSE "replay"
            /\ With(reader'[s], reader[s], {"kept", "last", "sent", "at"})
      /\ \/ reader'[s].at = "closed" /\ Unsubscribe(s)
         \/ Receive(s)
  BY <1>1, <1>2, <1>3, WritesLive
<1>6. Takes(s, e)
  BY <1>1, <1>5, ChannelMoves DEF Takes, e
<1> QED  BY <1>1, <1>2, <1>5, <1>6 DEF Skips, Sends

\* The invariant is what they start from.
LEMMA InvIsBefore ==
  ASSUME StreamInv, NEW s \in Subscribers
  PROVE  Before(s)
<1>1. TypeOK /\ reader \in [Subscribers -> Reader]
  BY ReadersTyped DEF StreamInv
<1>2. PhaseFits(s) /\ EndFits(s) /\ RestFollows(s)
  BY DEF StreamInv, StreamFits
<1> QED  BY <1>1, <1>2 DEF Before, PhaseFits, EndFits, HasEnd, RestFollows, Listening

\* A step of a handler is a move of its stream, and a step of the log.
LEMMA HandlerMoves ==
  ASSUME StreamInv, NEW s \in Subscribers,
         ReaderStep(s) \/ Leave(s) \/ \E t \in Tasks : ClientLoad(s, t) \/ PeerSubscribe(s, t)
  PROVE  /\ Moves(s)
         /\ \/ UNCHANGED logVars \/ Receive(s) \/ Unsubscribe(s)
            \/ \E t \in Tasks : Subscribe(s, t)
<1>1. Before(s) /\ FreeIsEmpty
  BY InvIsBefore DEF StreamInv, LogInv
<1>2. ASSUME NEW t \in Tasks, ClientLoad(s, t) PROVE Loads(s) /\ UNCHANGED logVars
  BY <1>1, <1>2, ClientLoads DEF ClientLoad
<1>3. ASSUME NEW t \in Tasks, PeerSubscribe(s, t) PROVE Listens(s) /\ Subscribe(s, t)
  BY <1>1, <1>3, PeerSubscribes
<1>4. ASSUME Leave(s) PROVE Leaves(s) /\ (Unsubscribe(s) \/ UNCHANGED logVars)
  <2>1. UNCHANGED <<dbVars, call>>
    BY <1>4 DEF Leave
  <2> QED  BY <1>1, <1>4, <2>1, StreamLeaves DEF dbVars, logVars
<1>5. ClientReplay(s) => Serves(s) /\ UNCHANGED logVars
  BY <1>1, ClientReplays DEF ClientReplay
<1>6. ClientSubscribe(s) => Serves(s) /\ \E t \in Tasks : Subscribe(s, t)
  BY <1>1, ClientSubscribes
<1>7. ClientLive(s) => Serves(s) /\ (Receive(s) \/ Unsubscribe(s))
  BY <1>1, ClientGoesOn
<1>8. PeerList(s) => Lists(s) /\ UNCHANGED logVars
  BY <1>1, PeerLists DEF PeerList
<1>9. PeerReplay(s) => Replays(s) /\ (Receive(s) \/ UNCHANGED logVars)
  BY <1>1, PeerReplays
<1>10. PeerReplayedEnd(s) => Finishes(s) /\ Unsubscribe(s)
  BY <1>1, PeerFinishes
<1>11. PeerKept(s) => (Skips(s) \/ Sends(s)) /\ (UNCHANGED logVars \/ Unsubscribe(s))
  BY <1>1, PeerKeptMoves
<1>12. PeerLive(s) => (Skips(s) \/ Sends(s)) /\ (Receive(s) \/ Unsubscribe(s))
  BY <1>1, PeerLiveMoves
<1> QED
  BY <1>2, <1>3, <1>4, <1>5, <1>6, <1>7, <1>8, <1>9, <1>10, <1>11, <1>12 DEF Moves, ReaderStep

\* Every step is a step of the log.
LEMMA StreamIsLog ==
  ASSUME StreamInv, [StreamNext]_streamVars
  PROVE  [LogNext]_logVars
<1>1. ASSUME NEW s \in Subscribers,
             ReaderStep(s) \/ Leave(s) \/ \E t \in Tasks : ClientLoad(s, t) \/ PeerSubscribe(s, t)
      PROVE  [LogNext]_logVars
  BY <1>1, HandlerMoves DEF LogNext
<1>2. ASSUME NEW w \in Writers, GoesOn(w)
      PROVE  LogNext
  BY <1>2 DEF GoesOn, AppendStep, LogNext
<1>3. ASSUME NEW t \in Tasks, InsertTask(t)
      PROVE  LogNext
  BY <1>3 DEF LogNext
<1>4. ASSUME NEW w \in Writers, Append1(w)
      PROVE  LogNext
  BY <1>4 DEF LogNext
<1>5. StreamCrash => LogNext
  BY DEF StreamCrash, LogNext
<1>6. UNCHANGED streamVars => UNCHANGED logVars
  BY DEF streamVars
<1> QED  BY <1>1, <1>2, <1>3, <1>4, <1>5, <1>6 DEF StreamNext

-----------------------------------------------------------------------------
(* What the steps of the others do to a stream *)

\* Whoever is between the insert and the end of the fan-out.
Announces(w, t) == call[w].step \in {"turn", "publish"} /\ call[w].task = t

\* But for number k, whatever is on its way to the fan-out stays on it.
Settles(t, k) == Unpublished(t) \subseteq Unpublished(t)' \cup {k}

\* A stream at rest, as the writers see it: event e goes into its channel ...
Gets(s, t, e) ==
  /\ Settles(t, e.seq) /\ IsCommitted(e, t) /\ e.seq > fanout[s].top
  /\ sub'[s].chan = Append(sub[s].chan, e)
  /\ fanout'[s].top = e.seq /\ fanout'[s].lost = fanout[s].lost

\* ... after a later one ...
GetsLate(s, t, e) ==
  /\ Settles(t, e.seq) /\ IsCommitted(e, t) /\ e.seq <= fanout[s].top
  /\ sub'[s].chan = Append(sub[s].chan, e)
  /\ fanout'[s].top = fanout[s].top /\ fanout'[s].lost = fanout[s].lost \cup {e.seq}

\* ... or is lost ...
Loses(s, t, e) ==
  /\ Settles(t, e.seq)
  /\ sub'[s].chan = sub[s].chan
  /\ fanout'[s].top = fanout[s].top /\ fanout'[s].lost = fanout[s].lost \cup {e.seq}

\* ... or nothing happens.
HearsNothing(s, t) ==
  /\ Unpublished(t) \subseteq Unpublished(t)'
  /\ sub'[s].chan = sub[s].chan /\ fanout'[s] = fanout[s]

Hears(s, t) ==
  /\ sub'[s].task = t
  /\ \/ HearsNothing(s, t)
     \/ \E e \in Event : Gets(s, t, e) \/ GetsLate(s, t, e) \/ Loses(s, t, e)

\* What is committed is on its way to the fan-out.
Arrives(t) ==
  \A k \in 1..Len(log'[t]) : k \in 1..Len(log[t]) \/ k \in Unpublished(t)'

\* Nothing happens to the stream itself.
Stays(s) ==
  /\ reader'[s] = reader[s]
  /\ \A t \in Tasks : sub[s].task = t => Hears(s, t) /\ Arrives(t)
  /\ sub[s].task = None => sub'[s].task = None /\ fanout'[s] = fanout[s]

\* The process dies.
Breaks(s) ==
  /\ reader'[s] = reader[s] \/ With(reader'[s], reader[s], {"at"})
  /\ reader'[s].at \in {"idle"} \cup Over
  /\ \/ reader'[s].at = reader[s].at
     \/ reader[s].at \notin {"idle"} \cup Over /\ reader'[s].at = "left"
  /\ sub'[s].task = None /\ fanout'[s] = fanout[s]

\* While the activations, the logs and a subscription stay, so does the stream.
LEMMA UntouchedStays ==
  ASSUME StreamInv, NEW s \in Subscribers, reader'[s] = reader[s], sub'[s] = sub[s],
         fanout'[s] = fanout[s], UNCHANGED <<log, call>>
  PROVE  Stays(s)
<1>1. ASSUME NEW t \in Tasks, sub[s].task = t
      PROVE  Hears(s, t) /\ Arrives(t)
  <2>1. Unpublished(t)' = Unpublished(t)
    BY DEF Unpublished
  <2>2. Arrives(t)
    BY DEF Arrives
  <2> QED  BY <1>1, <2>1, <2>2 DEF Hears, HearsNothing
<1> QED  BY <1>1 DEF Stays

\* A stream that listens to another task, or to none, hears nothing.
LEMMA OtherTask ==
  ASSUME NEW w \in Writers, NEW o, Note(w, o), NEW s \in Subscribers,
         sub[s].task # call[w].task
  PROVE  fanout'[s] = fanout[s]
BY DEF Note, Misses

\* The activations of the other writers stay.
LEMMA OthersAnnounce ==
  ASSUME NEW w \in Writers, NEW t, \A v \in Writers \ {w} : call'[v] = call[v]
  PROVE  /\ Unpublished(t) \subseteq Unpublished(t)' \cup {call[w].event.seq}
         /\ ~Announces(w, t) => Unpublished(t) \subseteq Unpublished(t)'
         /\ call'[w].step \in {"turn", "publish"} /\ call'[w].task = call[w].task
            /\ call'[w].event = call[w].event => Unpublished(t) \subseteq Unpublished(t)'
         /\ call'[w].step \in {"turn", "publish"} /\ call'[w].task = t =>
              call'[w].event.seq \in Unpublished(t)'
BY DEF Unpublished, Announces

\* The insert.
LEMMA InsertHeard ==
  ASSUME StreamInv, NEW w \in Writers, Insert(w), NEW s \in Subscribers,
         fanout' = fanout, reader' = reader
  PROVE  Stays(s)
<1>1. LogInv /\ TypeOK
  BY DEF StreamInv, LogInv
<1>2. /\ call'[w].step = "turn" /\ call'[w].task = call[w].task /\ call'[w].event = call[w].event
      /\ \A v \in Writers \ {w} : call'[v] = call[v]
      /\ sub' = sub
  <2>1. call[w] \in Calling
    BY <1>1, CallIsCalling DEF Insert
  <2> QED  BY <1>1, <2>1 DEF Insert, TypeOK, Calling
<1>3. /\ call[w].task \in Tasks /\ call[w].event \in Event
      /\ call[w].event.seq = Len(log[call[w].task]) + 1
      /\ log' = [log EXCEPT ![call[w].task] = Append(log[call[w].task], call[w].event)]
  BY <1>1, InsertIsNext DEF LogInv
<1>4. ASSUME NEW t \in Tasks, sub[s].task = t
      PROVE  Hears(s, t) /\ Arrives(t)
  <2>1. Unpublished(t) \subseteq Unpublished(t)'
    BY <1>2, OthersAnnounce
  <2>2. Hears(s, t)
    BY <1>2, <1>4, <2>1 DEF Hears, HearsNothing
  <2>3. CASE t = call[w].task
    <3>1. log[t] \in Seq(Event) /\ log'[t] = Append(log[t], call[w].event)
      BY <1>1, <1>3, <2>3 DEF TypeOK
    <3>2. Len(log[t]) \in Nat /\ Len(log'[t]) = Len(log[t]) + 1
      BY <1>3, <3>1
    <3>3. Len(log[t]) + 1 \in Unpublished(t)'
      BY <1>2, <1>3, <2>3, OthersAnnounce
    <3>4. Arrives(t)
      BY <3>2, <3>3 DEF Arrives
    <3> QED  BY <2>2, <3>4
  <2>4. CASE t # call[w].task
    <3>1. log'[t] = log[t]
      BY <1>1, <1>3, <2>4 DEF TypeOK
    <3>2. Arrives(t)
      BY <3>1 DEF Arrives
    <3> QED  BY <2>2, <3>2
  <2> QED  BY <2>3, <2>4
<1> QED  BY <1>2, <1>4 DEF Stays

\* The fan-out.
LEMMA PublishHeard ==
  ASSUME StreamInv, NEW w \in Writers, Publish(w), Note(w, TRUE), NEW s \in Subscribers,
         reader' = reader
  PROVE  Stays(s)
<1>1. /\ TypeOK /\ CallMatchesLog
      /\ fanout \in [Subscribers -> [top : Nat, lost : SUBSET Nat]]
  BY ReadersTyped DEF StreamInv, LogInv
<1>2. PICK c \in Tasks, e \in Event : c = call[w].task /\ e = call[w].event
  BY <1>1, CallIsCalling DEF Publish
<1>3. /\ e.seq \in Nat /\ call[w].step = "publish" /\ log' = log
      /\ \A v \in Writers \ {w} : call'[v] = call[v]
  BY <1>1, <1>2 DEF Publish, TypeOK, Event
<1>4. /\ fanout[s].top \in Nat /\ fanout[s] \in [top : Nat, lost : SUBSET Nat]
      /\ sub[s].chan \in Seq(Event) /\ sub[s] \in [task : Tasks \cup {None}, chan : Seq(Event)]
  BY <1>1 DEF TypeOK
<1>5. sub'[s] = Offer(sub[s], c, e) /\ fanout'[s] = Misses(s, c, e.seq, TRUE)
  BY <1>2 DEF Publish, Note
<1>6. IsCommitted(e, c)
  <2>1. e.seq \in DOMAIN log[c] /\ log[c][e.seq] = e
    BY <1>1, <1>2, <1>3 DEF CallMatchesLog, TypeOK
  <2> QED  BY <2>1 DEF IsCommitted
<1>7. sub'[s].task = sub[s].task
  BY <1>4, <1>5 DEF Offer
<1>8. \A t \in Tasks : Arrives(t)
  BY <1>3 DEF Arrives
<1>9. CASE sub[s].task # c
  <2>1. sub'[s] = sub[s] /\ fanout'[s] = fanout[s]
    BY <1>5, <1>9 DEF Offer, Misses
  <2>2. ASSUME NEW t \in Tasks, sub[s].task = t
        PROVE  Hears(s, t)
    <3>1. Unpublished(t) \subseteq Unpublished(t)'
      BY <1>2, <1>3, <1>9, <2>2, OthersAnnounce DEF Announces
    <3> QED  BY <2>1, <2>2, <3>1 DEF Hears, HearsNothing
  <2> QED  BY <1>8, <2>1, <2>2 DEF Stays
<1>10. CASE sub[s].task = c
  <2>1. Settles(c, e.seq)
    BY <1>2, <1>3, OthersAnnounce DEF Settles
  <2>2. ASSUME Len(sub[s].chan) < ChanCap, e.seq > fanout[s].top PROVE Gets(s, c, e)
    <3>1. sub'[s].chan = Append(sub[s].chan, e)
      BY <1>4, <1>5, <1>10, <2>2 DEF Offer
    <3>2. fanout'[s] = [fanout[s] EXCEPT !.top = e.seq]
      BY <1>5, <1>10, <2>2 DEF Misses
    <3>3. fanout'[s].top = e.seq /\ fanout'[s].lost = fanout[s].lost
      BY <1>4, <3>2
    <3> QED  BY <1>6, <2>1, <2>2, <3>1, <3>3 DEF Gets
  <2>3. ASSUME Len(sub[s].chan) < ChanCap, e.seq <= fanout[s].top PROVE GetsLate(s, c, e)
    <3>1. sub'[s].chan = Append(sub[s].chan, e)
      BY <1>4, <1>5, <1>10, <2>3 DEF Offer
    <3>2. fanout'[s] = [fanout[s] EXCEPT !.lost = @ \cup {e.seq}]
      BY <1>3, <1>4, <1>5, <1>10, <2>3 DEF Misses
    <3>3. fanout'[s].top = fanout[s].top /\ fanout'[s].lost = fanout[s].lost \cup {e.seq}
      BY <1>4, <3>2
    <3> QED  BY <1>6, <2>1, <2>3, <3>1, <3>3 DEF GetsLate
  <2>4. ASSUME ~(Len(sub[s].chan) < ChanCap) PROVE Loses(s, c, e)
    <3>1. sub'[s].chan = sub[s].chan
      BY <1>5, <2>4 DEF Offer
    <3>2. fanout'[s] = [fanout[s] EXCEPT !.lost = @ \cup {e.seq}]
      BY <1>5, <1>10, <2>4 DEF Misses
    <3>3. fanout'[s].top = fanout[s].top /\ fanout'[s].lost = fanout[s].lost \cup {e.seq}
      BY <1>4, <3>2
    <3> QED  BY <2>1, <3>1, <3>3 DEF Loses
  <2>5. Gets(s, c, e) \/ GetsLate(s, c, e) \/ Loses(s, c, e)
    <3>1. e.seq > fanout[s].top \/ e.seq <= fanout[s].top
      BY <1>3, <1>4
    <3> QED  BY <2>2, <2>3, <2>4, <3>1
  <2>6. Hears(s, c)
    BY <1>7, <1>10, <2>5 DEF Hears
  <2> QED  BY <1>7, <1>8, <1>10, <2>6, LogAssumption DEF Stays
<1> QED  BY <1>9, <1>10

\* The request is gone before the fan-out.
LEMMA CancelHeard ==
  ASSUME StreamInv, NEW w \in Writers, ContextCancelled(w), NEW s \in Subscribers,
         IF call[w].step = "turn" THEN Note(w, FALSE) ELSE UNCHANGED fanout, reader' = reader
  PROVE  Stays(s)
<1>1. /\ TypeOK /\ fanout \in [Subscribers -> [top : Nat, lost : SUBSET Nat]]
  BY ReadersTyped DEF StreamInv, LogInv
<1>2. /\ call[w].step \in {"insert", "turn"} /\ UNCHANGED <<log, sub>>
      /\ \A v \in Writers \ {w} : call'[v] = call[v]
  BY <1>1 DEF ContextCancelled, TypeOK
<1>3. PICK c \in Tasks, e \in Event : c = call[w].task /\ e = call[w].event
  BY <1>1, <1>2, CallIsCalling
<1>4. \A t \in Tasks : Arrives(t)
  BY <1>2 DEF Arrives
<1>5. CASE call[w].step = "turn" /\ sub[s].task = c
  <2>1. fanout'[s] = [fanout[s] EXCEPT !.lost = @ \cup {e.seq}]
    BY <1>3, <1>5 DEF Note, Misses
  <2>2. fanout'[s].top = fanout[s].top /\ fanout'[s].lost = fanout[s].lost \cup {e.seq}
    BY <1>1, <2>1
  <2>3. Settles(c, e.seq)
    BY <1>2, <1>3, OthersAnnounce DEF Settles
  <2>4. Hears(s, c)
    BY <1>2, <1>5, <2>2, <2>3 DEF Hears, Loses
  <2> QED  BY <1>2, <1>4, <1>5, <2>4, LogAssumption DEF Stays
<1>6. CASE call[w].step = "insert" \/ sub[s].task # c
  <2>1. fanout'[s] = fanout[s]
    BY <1>2, <1>3, <1>6, OtherTask
  <2>2. ASSUME NEW t \in Tasks, sub[s].task = t
        PROVE  Hears(s, t)
    <3>1. Unpublished(t) \subseteq Unpublished(t)'
      BY <1>2, <1>3, <1>6, <2>2, OthersAnnounce DEF Announces
    <3> QED  BY <1>2, <2>1, <2>2, <3>1 DEF Hears, HearsNothing
  <2> QED  BY <1>2, <1>4, <2>1, <2>2 DEF Stays
<1> QED  BY <1>2, <1>5, <1>6

\* The other steps of a writer, and those of the caller.
LEMMA RestHeard ==
  ASSUME StreamInv, NEW s \in Subscribers, UNCHANGED <<reader, fanout>>,
         \/ \E t \in Tasks : InsertTask(t)
         \/ \E w \in Writers : Append1(w) \/ InsertConflict(w) \/ UpdateTurn(w)
  PROVE  Stays(s)
<1>1. TypeOK
  BY DEF StreamInv, LogInv
<1>2. ASSUME NEW t \in Tasks, InsertTask(t) PROVE Stays(s)
  BY <1>2, UntouchedStays DEF InsertTask
<1>3. ASSUME NEW w \in Writers, Append1(w) \/ InsertConflict(w)
      PROVE  Stays(s)
  <2>1. /\ call[w].step \notin {"turn", "publish"} /\ UNCHANGED <<log, sub>>
        /\ \A v \in Writers \ {w} : call'[v] = call[v]
    BY <1>1, <1>3 DEF Append1, BeginAppend, InsertConflict, TypeOK
  <2>2. ASSUME NEW t \in Tasks, sub[s].task = t
        PROVE  Unpublished(t) \subseteq Unpublished(t)'
    BY <2>1, <2>2, OthersAnnounce DEF Announces
  <2> QED  BY <2>1, <2>2 DEF Stays, Hears, HearsNothing, Arrives
<1>4. ASSUME NEW w \in Writers, UpdateTurn(w)
      PROVE  Stays(s)
  <2>1. call[w] \in Calling
    BY <1>1, <1>4, CallIsCalling DEF UpdateTurn
  <2>2. /\ call'[w].step = "publish" /\ call'[w].task = call[w].task
        /\ call'[w].event = call[w].event /\ UNCHANGED <<log, sub>>
        /\ \A v \in Writers \ {w} : call'[v] = call[v]
    BY <1>1, <1>4, <2>1 DEF UpdateTurn, TypeOK, Calling
  <2>3. \A t : Unpublished(t) \subseteq Unpublished(t)'
    BY <2>2, OthersAnnounce
  <2> QED  BY <2>2, <2>3 DEF Stays, Hears, HearsNothing, Arrives
<1> QED  BY <1>2, <1>3, <1>4

\* The process dies, and with it every stream that was under way.
LEMMA CrashBreaks ==
  ASSUME StreamInv, NEW s \in Subscribers, StreamCrash
  PROVE  Breaks(s) /\ reader' \in [Subscribers -> Reader]
<1>1. reader \in [Subscribers -> Reader]
  BY ReadersTyped DEF StreamInv
<1>2. "left" \in Phases
  BY DEF Phases, Over
<1>3. \A r \in Subscribers : [reader[r] EXCEPT !.at = "left"] \in Reader
  BY <1>1, <1>2, WithAt
<1>4. reader' \in [Subscribers -> Reader]
  BY <1>1, <1>3 DEF StreamCrash
<1>5. sub'[s].task = None /\ fanout'[s] = fanout[s]
  BY DEF StreamCrash, Crash, Free
<1>6. CASE reader[s].at \in {"idle"} \cup Over
  <2>1. reader'[s] = reader[s]
    BY <1>6 DEF StreamCrash
  <2> QED  BY <1>4, <1>5, <1>6, <2>1 DEF Breaks
<1>7. CASE reader[s].at \notin {"idle"} \cup Over
  <2>1. reader'[s] = [reader[s] EXCEPT !.at = "left"]
    BY <1>7 DEF StreamCrash
  <2>2. reader'[s].at = "left" /\ With(reader'[s], reader[s], {"at"})
    BY <1>1, <1>2, <2>1, WithAt
  <2> QED  BY <1>4, <1>5, <1>7, <2>2 DEF Breaks, Over
<1> QED  BY <1>6, <1>7

\* The steps of the specification, for one stream.
LEMMA StepOfStream ==
  ASSUME StreamInv, [StreamNext]_streamVars, NEW s \in Subscribers
  PROVE  /\ Moves(s) \/ Stays(s) \/ Breaks(s)
         /\ reader' \in [Subscribers -> Reader]
<1>1. reader \in [Subscribers -> Reader]
  BY ReadersTyped DEF StreamInv
<1>2. ASSUME NEW r \in Subscribers,
             ReaderStep(r) \/ Leave(r) \/ \E t \in Tasks : ClientLoad(r, t) \/ PeerSubscribe(r, t)
      PROVE  (Moves(s) \/ Stays(s)) /\ reader' \in [Subscribers -> Reader]
  <2>1. Moves(r)
    BY <1>2, HandlerMoves
  <2>2. Only(r)
    BY <2>1 DEF Moves, Loads, Serves, Leaves, Listens, Lists, Replays, Finishes, Skips, Sends
  <2>3. CASE r = s
    BY <2>1, <2>2, <2>3 DEF Only
  <2>4. CASE r # s
    BY <2>2, <2>4, UntouchedStays DEF Only, dbVars
  <2> QED  BY <2>3, <2>4
<1>3. ASSUME NEW w \in Writers, GoesOn(w), UNCHANGED reader
      PROVE  Stays(s)
  BY <1>3, InsertHeard, PublishHeard, CancelHeard, RestHeard DEF GoesOn
<1>4. ASSUME NEW t \in Tasks, InsertTask(t), UNCHANGED <<reader, fanout>>
      PROVE  Stays(s)
  BY <1>4, RestHeard
<1>5. ASSUME NEW w \in Writers, Append1(w), UNCHANGED <<reader, fanout>>
      PROVE  Stays(s)
  BY <1>5, RestHeard
<1>6. StreamCrash => Breaks(s) /\ reader' \in [Subscribers -> Reader]
  BY CrashBreaks
<1>7. UNCHANGED streamVars => Stays(s) /\ reader' = reader
  BY UntouchedStays DEF streamVars, logVars
<1> QED  BY <1>1, <1>2, <1>3, <1>4, <1>5, <1>6, <1>7 DEF StreamNext

-----------------------------------------------------------------------------
(* Sequences of events *)

\* The channel is drained into the kept events: what is pending stays.
LEMMA MoveHead ==
  ASSUME NEW R, NEW k \in Seq(R), NEW c \in Seq(R), c # <<>>
  PROVE  Append(k, Head(c)) \o Tail(c) = k \o c
OBVIOUS

\* The first of the kept events is the first pending one.
LEMMA TakeKept ==
  ASSUME NEW R, NEW k \in Seq(R), NEW c \in Seq(R), k # <<>>
  PROVE  Head(k \o c) = Head(k) /\ Tail(k) \o c = Tail(k \o c) /\ k \o c # <<>>
OBVIOUS

\* Nothing is kept: the channel is what is pending.
LEMMA NothingKept ==
  ASSUME NEW R, NEW c \in Seq(R)
  PROVE  <<>> \o c = c
OBVIOUS

\* A new event is the last pending one.
LEMMA NewIsLast ==
  ASSUME NEW R, NEW k \in Seq(R), NEW c \in Seq(R)
  PROVE  /\ k \o c \in Seq(R)
         /\ \A e \in R : k \o Append(c, e) = Append(k \o c, e)
OBVIOUS

\* The entries of a longer sequence.
LEMMA AppendEntries ==
  ASSUME NEW R, NEW q \in Seq(R), NEW e \in R
  PROVE  /\ Append(q, e) \in Seq(R) /\ Append(q, e) # <<>> /\ Len(q) \in Nat
         /\ Len(Append(q, e)) = Len(q) + 1
         /\ DOMAIN q = 1..Len(q) /\ DOMAIN Append(q, e) = 1..(Len(q) + 1)
         /\ \A i \in 1..Len(q) : Append(q, e)[i] = q[i]
         /\ Append(q, e)[Len(q) + 1] = e
OBVIOUS

\* The entries of a shorter one.
LEMMA TailEntries ==
  ASSUME NEW R, NEW q \in Seq(R), q # <<>>
  PROVE  /\ Head(q) \in R /\ Tail(q) \in Seq(R) /\ Len(q) \in Nat \ {0}
         /\ DOMAIN q = 1..Len(q) /\ DOMAIN Tail(q) = 1..(Len(q) - 1)
         /\ q[1] = Head(q)
         /\ \A i \in 1..(Len(q) - 1) : Tail(q)[i] = q[i + 1]
OBVIOUS

\* The numbers of a longer sequence.
LEMMA NumbersAppend ==
  ASSUME NEW q \in Seq(Event), NEW e \in Event
  PROVE  Numbers(Append(q, e)) = Numbers(q) \cup {e.seq}
<1> DEFINE R == Event
           a == Append(q, e)
<1>1. q \in Seq(R) /\ e \in R
  OBVIOUS
<1> HIDE DEF R
<1>2. /\ Len(q) \in Nat /\ DOMAIN q = 1..Len(q) /\ DOMAIN a = 1..(Len(q) + 1)
      /\ \A i \in 1..Len(q) : a[i] = q[i]
      /\ a[Len(q) + 1] = e
  BY <1>1, AppendEntries
<1> HIDE DEF a
<1> QED  BY <1>2 DEF Numbers, a

\* The numbers of a shorter one.
LEMMA NumbersTail ==
  ASSUME NEW q \in Seq(Event), q # <<>>
  PROVE  Numbers(q) = Numbers(Tail(q)) \cup {Head(q).seq}
<1> DEFINE R == Event
           a == Tail(q)
           e == Head(q)
<1>1. q \in Seq(R)
  OBVIOUS
<1> HIDE DEF R
<1>2. /\ Len(q) \in Nat \ {0} /\ DOMAIN q = 1..Len(q) /\ DOMAIN a = 1..(Len(q) - 1)
      /\ \A i \in 1..(Len(q) - 1) : a[i] = q[i + 1]
      /\ q[1] = e
  BY <1>1, TailEntries
<1> HIDE DEF a, e
<1>3. \A k : k \in Numbers(q) => k \in Numbers(a) \cup {e.seq}
  <2> SUFFICES ASSUME NEW i \in DOMAIN q
               PROVE  q[i].seq \in Numbers(a) \cup {e.seq}
    BY DEF Numbers
  <2>1. CASE i = 1
    BY <1>2, <2>1
  <2>2. CASE i # 1
    <3>1. i - 1 \in DOMAIN a /\ a[i - 1] = q[i]
      BY <1>2, <2>2
    <3> QED  BY <3>1 DEF Numbers
  <2> QED  BY <2>1, <2>2
<1>4. \A k : k \in Numbers(a) \cup {e.seq} => k \in Numbers(q)
  <2>1. e.seq \in Numbers(q)
    BY <1>2 DEF Numbers
  <2>2. ASSUME NEW i \in DOMAIN a PROVE a[i].seq \in Numbers(q)
    <3>1. i + 1 \in DOMAIN q /\ a[i] = q[i + 1]
      BY <1>2
    <3> QED  BY <3>1 DEF Numbers
  <2> QED  BY <2>1, <2>2 DEF Numbers
<1> QED  BY <1>3, <1>4 DEF a, e

-----------------------------------------------------------------------------
(* What is pending *)

\* Pending events are events.
LEMMA PendingTyped ==
  ASSUME NEW s, Before(s)
  PROVE  Pending(s) \in Seq(Event)
<1> DEFINE R == Event
<1>1. reader[s].kept \in Seq(R) /\ sub[s].chan \in Seq(R)
  BY BeforeTyped
<1> HIDE DEF R
<1>2. Pending(s) \in Seq(R)
  BY <1>1, NewIsLast DEF Pending
<1> QED  BY <1>2 DEF R

\* The replay leaves it alone.
LEMMA ReplayPends ==
  ASSUME NEW s, Before(s), Replays(s)
  PROVE  Pending(s)' = Pending(s)
<1> DEFINE R == Event
<1>1. reader[s].kept \in Seq(R) /\ sub[s].chan \in Seq(R)
  BY BeforeTyped
<1> HIDE DEF R
<1>2. CASE reader'[s].kept = reader[s].kept /\ sub'[s].chan = sub[s].chan
  BY <1>2 DEF Pending
<1>3. CASE /\ sub[s].chan # <<>>
           /\ reader'[s].kept = Append(reader[s].kept, Head(sub[s].chan))
           /\ sub'[s].chan = Tail(sub[s].chan)
  BY <1>1, <1>3, MoveHead DEF Pending
<1> QED  BY <1>2, <1>3 DEF Replays

\* The live phase takes its first event.
LEMMA TakePends ==
  ASSUME NEW s, Before(s), NEW e \in Event, Takes(s, e)
  PROVE  /\ Pending(s) # <<>> /\ e = Head(Pending(s))
         /\ reader'[s].at # "closed" => /\ Pending(s)' = Tail(Pending(s))
                                       /\ sub'[s].task = sub[s].task
<1> DEFINE R == Event
<1>1. reader[s].kept \in Seq(R) /\ sub[s].chan \in Seq(R)
  BY BeforeTyped
<1>2. sub[s] \in [task : Tasks \cup {None}, chan : Seq(Event)]
  BY DEF Before, TypeOK
<1>3. /\ [sub[s] EXCEPT !.chan = Tail(@)].chan = Tail(sub[s].chan)
      /\ [sub[s] EXCEPT !.chan = Tail(@)].task = sub[s].task
  BY <1>2
<1> HIDE DEF R
<1>4. CASE /\ reader[s].kept # <<>> /\ e = Head(reader[s].kept)
           /\ reader'[s].kept = Tail(reader[s].kept)
           /\ sub'[s] = sub[s] \/ reader'[s].at = "closed"
  BY <1>1, <1>4, TakeKept DEF Pending
<1>5. CASE /\ reader[s].kept = <<>> /\ sub[s].chan # <<>> /\ e = Head(sub[s].chan)
           /\ reader'[s].kept = reader[s].kept
           /\ sub'[s] = [sub[s] EXCEPT !.chan = Tail(@)] \/ reader'[s].at = "closed"
  <2>1. Pending(s) = sub[s].chan
    BY <1>1, <1>5, NothingKept DEF Pending
  <2>2. Pending(s) # <<>> /\ e = Head(Pending(s))
    BY <1>5, <2>1
  <2>3. ASSUME reader'[s].at # "closed" PROVE Pending(s)' = Tail(Pending(s)) /\ sub'[s].task = sub[s].task
    <3>1. sub'[s].chan = Tail(sub[s].chan) /\ sub'[s].task = sub[s].task
      BY <1>3, <1>5, <2>3
    <3>2. Tail(sub[s].chan) \in Seq(R)
      BY <1>1, <1>5, TailEntries
    <3> QED  BY <1>5, <2>1, <3>1, <3>2, NothingKept DEF Pending
  <2> QED  BY <2>2, <2>3
<1> QED  BY <1>4, <1>5 DEF Takes

\* A writer adds to it at its end.
LEMMA HearPends ==
  ASSUME NEW s, Before(s), reader'[s] = reader[s]
  PROVE  /\ sub'[s].chan = sub[s].chan => Pending(s)' = Pending(s)
         /\ \A e \in Event : sub'[s].chan = Append(sub[s].chan, e) =>
              Pending(s)' = Append(Pending(s), e)
<1> DEFINE R == Event
<1>1. reader[s].kept \in Seq(R) /\ sub[s].chan \in Seq(R)
  BY BeforeTyped
<1>2. \A e \in Event : e \in R
  OBVIOUS
<1> HIDE DEF R
<1>3. \A e \in R : reader[s].kept \o Append(sub[s].chan, e)
                     = Append(reader[s].kept \o sub[s].chan, e)
  <2> DEFINE k == reader[s].kept
             c == sub[s].chan
  <2>1. k \in Seq(R) /\ c \in Seq(R)
    BY <1>1
  <2> HIDE DEF k, c
  <2>2. \A e \in R : k \o Append(c, e) = Append(k \o c, e)
    BY <2>1, NewIsLast
  <2> QED  BY <2>2 DEF k, c
<1>4. reader'[s].kept = reader[s].kept
  OBVIOUS
<1> QED  BY <1>2, <1>3, <1>4 DEF Pending

-----------------------------------------------------------------------------
(* Each step keeps each part of the invariant *)

\* Committed events stay committed.
LEMMA CommittedStays ==
  ASSUME LogInv, [LogNext]_logVars, NEW t \in Tasks
  PROVE  /\ \A e : IsCommitted(e, t) => IsCommitted(e, t)'
         /\ log[t] \in Seq(Event) /\ log'[t] \in Seq(Event)
         /\ Len(log[t]) \in Nat /\ Len(log'[t]) \in Nat /\ Len(log[t]) <= Len(log'[t])
         /\ HasEnd(log[t]) => HasEnd(log'[t])
<1>1. TypeOK /\ SeqContiguous /\ CallMatchesLog /\ TypeOK'
  BY LogInvStep DEF LogInv
<1>2. /\ Len(log[t]) <= Len(log'[t])
      /\ \A i \in DOMAIN log[t] : i \in DOMAIN log'[t] /\ log'[t][i] = log[t][i]
  BY <1>1, LogGrows
<1>3. log[t] \in Seq(Event) /\ log'[t] \in Seq(Event)
  BY <1>1 DEF TypeOK
<1>4. Len(log[t]) \in Nat /\ Len(log'[t]) \in Nat
  BY <1>3
<1>5. \A e : IsCommitted(e, t) => IsCommitted(e, t)'
  BY <1>2 DEF IsCommitted
<1>6. HasEnd(log[t]) => HasEnd(log'[t])
  BY <1>2 DEF HasEnd
<1> QED  BY <1>2, <1>3, <1>4, <1>5, <1>6

\* An event of a log has the number of its place.
LEMMA CommittedNumber ==
  ASSUME LogInv, NEW t \in Tasks, NEW e, IsCommitted(e, t)
  PROVE  e \in Event /\ e.seq \in 1..Len(log[t])
<1>1. log[t] \in Seq(Event) /\ SeqContiguous
  BY DEF LogInv, TypeOK
<1> QED  BY <1>1 DEF IsCommitted, SeqContiguous

\* The handlers keep to their phases.
LEMMA PhaseStep ==
  ASSUME StreamInv, NEW s \in Subscribers, Moves(s) \/ Stays(s) \/ Breaks(s)
  PROVE  PhaseFits(s)'
<1>1. PhaseFits(s)
  BY DEF StreamInv, StreamFits
<1>2. CASE Stays(s)
  <2>1. /\ reader'[s] = reader[s]
        /\ \A t \in Tasks : sub[s].task = t => sub'[s].task = t
        /\ sub[s].task = None => sub'[s].task = None /\ fanout'[s] = fanout[s]
    BY <1>2 DEF Stays, Hears
  <2> QED  BY <1>1, <2>1 DEF PhaseFits, Listening
<1>3. CASE Breaks(s)
  BY <1>1, <1>3 DEF PhaseFits, Breaks, With, Listening, Over
<1>4. CASE Loads(s)
  BY <1>4 DEF PhaseFits, Loads, Listening
<1>5. CASE Serves(s)
  BY <1>1, <1>5 DEF PhaseFits, Serves, Listening, Over
<1>6. CASE Leaves(s)
  BY <1>1, <1>6 DEF PhaseFits, Leaves, With, Listening, Over
<1>7. CASE Listens(s)
  BY <1>1, <1>7 DEF PhaseFits, Listens, With, Listening, Over
<1>8. CASE Lists(s)
  BY <1>1, <1>8 DEF PhaseFits, Lists, With, Listening, Over
<1>9. CASE Replays(s)
  BY <1>1, <1>9 DEF PhaseFits, Replays, With, Listening, Over
<1>10. CASE Finishes(s)
  BY <1>1, <1>10 DEF PhaseFits, Finishes, With, Listening, Over
<1>11. CASE Skips(s)
  <2>1. PICK e \in Event :
          /\ reader[s].at = "replay" /\ Takes(s, e) /\ reader'[s].at = "replay"
          /\ With(reader'[s], reader[s], {"kept"})
    BY <1>11 DEF Skips
  <2>2. sub'[s].task = sub[s].task
    BY <2>1, InvIsBefore, TakePends
  <2> QED  BY <1>1, <2>1, <2>2 DEF PhaseFits, With, Listening, Over
<1>12. CASE Sends(s)
  <2>1. PICK e \in Event :
          /\ reader[s].at = "replay" /\ Takes(s, e)
          /\ reader'[s].at \in {"closed", "replay"}
          /\ With(reader'[s], reader[s], {"kept", "last", "sent", "at"})
    BY <1>12 DEF Sends
  <2>2. reader'[s].at # "closed" => sub'[s].task = sub[s].task
    BY <2>1, InvIsBefore, TakePends
  <2> QED  BY <1>1, <2>1, <2>2 DEF PhaseFits, With, Listening, Over
<1> QED  BY <1>2, <1>3, <1>4, <1>5, <1>6, <1>7, <1>8, <1>9, <1>10, <1>11, <1>12 DEF Moves

\* A frame is added: the end is there if it was, or if the frame is it.
LEMMA EndAppend ==
  ASSUME NEW q \in Seq(Event), NEW e \in Event
  PROVE  HasEnd(Append(q, e)) <=> HasEnd(q) \/ IsEnd(e)
<1> DEFINE R == Event
           a == Append(q, e)
<1>1. q \in Seq(R) /\ e \in R
  OBVIOUS
<1> HIDE DEF R
<1>2. /\ Len(q) \in Nat /\ DOMAIN q = 1..Len(q) /\ DOMAIN a = 1..(Len(q) + 1)
      /\ \A i \in 1..Len(q) : a[i] = q[i]
      /\ a[Len(q) + 1] = e
  BY <1>1, AppendEntries
<1> HIDE DEF a
<1>3. HasEnd(a) => HasEnd(q) \/ IsEnd(e)
  <2> SUFFICES ASSUME NEW i \in DOMAIN a, IsEnd(a[i])
               PROVE  HasEnd(q) \/ IsEnd(e)
    BY DEF HasEnd
  <2>1. i \in DOMAIN q \/ i = Len(q) + 1
    BY <1>2
  <2> QED  BY <1>2, <2>1 DEF HasEnd
<1>4. HasEnd(q) => HasEnd(a)
  <2> SUFFICES ASSUME NEW i \in DOMAIN q, IsEnd(q[i])
               PROVE  HasEnd(a)
    BY DEF HasEnd
  <2>1. i \in DOMAIN a /\ a[i] = q[i]
    BY <1>2
  <2> QED  BY <2>1 DEF HasEnd
<1>5. IsEnd(e) => HasEnd(a)
  <2>1. Len(q) + 1 \in DOMAIN a
    BY <1>2
  <2> QED  BY <1>2, <2>1 DEF HasEnd
<1> QED  BY <1>3, <1>4, <1>5 DEF a

\* Who takes the task for ended knows its end.
LEMMA EndStep ==
  ASSUME StreamInv, [LogNext]_logVars, NEW s \in Subscribers, Moves(s) \/ Stays(s) \/ Breaks(s)
  PROVE  EndFits(s)'
<1>1. EndFits(s) /\ PhaseFits(s) /\ LogInv /\ Before(s)
  BY InvIsBefore DEF StreamInv, StreamFits
<1>2. CASE Stays(s)
  <2>1. reader'[s] = reader[s]
    BY <1>2 DEF Stays
  <2>2. reader[s].at = "loaded" => reader[s].task \in Tasks
    BY <1>1 DEF PhaseFits
  <2>3. \A t \in Tasks : HasEnd(log[t]) => HasEnd(log'[t])
    BY <1>1, CommittedStays
  <2>4. HasEnd(reader[s].sent) = HasEnd(reader[s].sent)'
    BY <2>1 DEF HasEnd
  <2> QED  BY <1>1, <2>1, <2>2, <2>3, <2>4 DEF EndFits
<1>3. CASE Breaks(s) \/ Leaves(s)
  <2>1. /\ reader'[s].at \in {"idle"} \cup Over
        /\ reader'[s].at = "closed" => reader[s].at = "closed" /\ reader'[s].sent = reader[s].sent
    BY <1>3 DEF Breaks, Leaves, With, Over
  <2> QED  BY <1>1, <2>1 DEF EndFits, Over, Listening, HasEnd
<1>4. CASE Loads(s)
  <2>1. PICK t \in Tasks : t = reader'[s].task
    BY <1>4 DEF Loads
  <2>2. status[t] # None /\ RowMatchesLog /\ log[t] \in Seq(Event) /\ log' = log
    BY <1>1, <1>4, <2>1 DEF Loads, LogInv, TypeOK, Only, dbVars
  <2>3. ASSUME status[t] \in Terminal PROVE HasEnd(log[t])
    <3>1. log[t] # <<>> /\ log[t][Len(log[t])].state \in Terminal
      BY <2>2, <2>3 DEF RowMatchesLog, LastState, Terminal
    <3>2. Len(log[t]) \in DOMAIN log[t]
      BY <2>2, <3>1
    <3> QED  BY <3>1, <3>2 DEF HasEnd, IsEnd
  <2>4. reader'[s].at = "loaded" /\ reader'[s].ended = (status[t] \in Terminal)
    BY <1>4, <2>1 DEF Loads
  <2> QED  BY <2>1, <2>2, <2>3, <2>4 DEF EndFits, Listening
<1>5. CASE Serves(s)
  BY <1>5 DEF EndFits, Serves, HasEnd, Listening
<1>6. CASE Listens(s) \/ Lists(s) \/ Skips(s)
  <2>1. /\ reader'[s].at \in Listening
        /\ reader'[s].ended => reader[s].ended /\ reader[s].at \in Listening
        /\ reader'[s].sent = reader[s].sent
    BY <1>1, <1>6 DEF Listens, Lists, Skips, With, Listening, PhaseFits
  <2> QED  BY <1>1, <2>1 DEF EndFits, Listening, HasEnd
<1>7. CASE Replays(s)
  <2>1. PICK e \in Event : e = Head(reader[s].rest)
    BY <1>1, <1>7, ReplayFrame DEF Replays
  <2>2. /\ reader[s].at = "replay" /\ reader'[s].at = "replay"
        /\ reader'[s].sent = Append(reader[s].sent, e)
        /\ reader'[s].ended = (reader[s].ended \/ IsEnd(e))
    BY <1>7, <2>1 DEF Replays, With
  <2>3. HasEnd(Append(reader[s].sent, e)) <=> HasEnd(reader[s].sent) \/ IsEnd(e)
    BY <1>1, BeforeTyped, EndAppend
  <2>4. HasEnd(reader'[s].sent) <=> HasEnd(reader[s].sent) \/ IsEnd(e)
    BY <2>2, <2>3
  <2> QED  BY <1>1, <2>2, <2>4 DEF EndFits, Listening
<1>8. CASE Finishes(s)
  <2>1. HasEnd(reader[s].sent)
    BY <1>1, <1>8 DEF EndFits, Finishes, Listening
  <2>2. reader'[s].at = "closed" /\ reader'[s].sent = reader[s].sent
    BY <1>8 DEF Finishes, With
  <2> QED  BY <2>1, <2>2 DEF EndFits, Listening, HasEnd
<1>9. CASE Sends(s)
  <2>1. PICK e \in Event :
          /\ reader[s].at = "replay" /\ reader'[s].sent = Append(reader[s].sent, e)
          /\ reader'[s].at = IF IsEnd(e) THEN "closed" ELSE "replay"
          /\ With(reader'[s], reader[s], {"kept", "last", "sent", "at"})
    BY <1>9 DEF Sends
  <2>2. HasEnd(Append(reader[s].sent, e)) <=> HasEnd(reader[s].sent) \/ IsEnd(e)
    BY <1>1, BeforeTyped, EndAppend
  <2>3. HasEnd(reader'[s].sent) <=> HasEnd(reader[s].sent) \/ IsEnd(e)
    BY <2>1, <2>2
  <2> QED  BY <1>1, <2>1, <2>3 DEF EndFits, Listening, With
<1> QED  BY <1>2, <1>3, <1>4, <1>5, <1>6, <1>7, <1>8, <1>9 DEF Moves

\* The pending and the remaining events of a peer stream are committed.
LEMMA HeadIsCommitted ==
  ASSUME StreamInv, NEW s \in Subscribers, NEW t \in Tasks, reader[s].task = t,
         reader[s].at \in Listening
  PROVE  /\ reader[s].rest # <<>> => IsCommitted(Head(reader[s].rest), t)
         /\ reader[s].kept # <<>> => IsCommitted(Head(reader[s].kept), t)
         /\ sub[s].chan # <<>> => IsCommitted(Head(sub[s].chan), t)
<1>1. FramesFit(s) /\ PhaseFits(s) /\ FanOutIsCommitted /\ Before(s)
  BY InvIsBefore DEF StreamInv, StreamFits, LogInv
<1>2. \A q \in Seq(Event) : q # <<>> => 1 \in DOMAIN q /\ q[1] = Head(q)
  OBVIOUS
<1>3. reader[s].rest \in Seq(Event) /\ reader[s].kept \in Seq(Event) /\ sub[s].chan \in Seq(Event)
  BY <1>1, BeforeTyped
<1>4. sub[s].task = t
  BY <1>1 DEF PhaseFits
<1>5. \A i \in DOMAIN sub[s].chan : IsCommitted(sub[s].chan[i], t)
  BY <1>1, <1>4 DEF FanOutIsCommitted, IsCommitted
<1>6. /\ \A i \in DOMAIN reader[s].rest : IsCommitted(reader[s].rest[i], t)
      /\ \A i \in DOMAIN reader[s].kept : IsCommitted(reader[s].kept[i], t)
  BY <1>1 DEF FramesFit
<1> QED  BY <1>2, <1>3, <1>5, <1>6

\* What a peer stream holds is committed, and its filter stands at the last frame.
LEMMA FramesStep ==
  ASSUME StreamInv, [LogNext]_logVars, NEW s \in Subscribers, Moves(s) \/ Stays(s) \/ Breaks(s)
  PROVE  FramesFit(s)'
<1>1. FramesFit(s) /\ PhaseFits(s) /\ LogInv /\ Before(s)
  BY InvIsBefore DEF StreamInv, StreamFits
<1>2. CASE reader'[s].at \notin Listening
  BY <1>2 DEF FramesFit
<1>3. CASE Stays(s) /\ reader[s].at \in Listening
  <2>1. PICK t \in Tasks : t = reader[s].task
    BY <1>1, <1>3 DEF PhaseFits, Listening
  <2>2. reader'[s] = reader[s]
    BY <1>3 DEF Stays
  <2>3. /\ \A e : IsCommitted(e, t) => IsCommitted(e, t)'
        /\ Len(log[t]) <= Len(log'[t]) /\ Len(log[t]) \in Nat /\ Len(log'[t]) \in Nat
    BY <1>1, CommittedStays
  <2>4. /\ \A i \in DOMAIN reader[s].rest : IsCommitted(reader[s].rest[i], t)
        /\ \A i \in DOMAIN reader[s].kept : IsCommitted(reader[s].kept[i], t)
        /\ reader[s].last <= Len(log[t]) /\ reader[s].last \in Nat
    BY <1>1, <1>3, <2>1, BeforeTyped DEF FramesFit
  <2>5. \A e : IsCommitted(e, t) => \E j \in DOMAIN log'[t] : log'[t][j] = e
    BY <2>3 DEF IsCommitted
  <2>8. /\ \A i \in DOMAIN reader'[s].rest :
             \E j \in DOMAIN log'[t] : log'[t][j] = reader'[s].rest[i]
        /\ \A i \in DOMAIN reader'[s].kept :
             \E j \in DOMAIN log'[t] : log'[t][j] = reader'[s].kept[i]
    BY <2>2, <2>4, <2>5
  <2>6. reader'[s].last <= Len(log'[t])
    BY <2>2, <2>3, <2>4
  <2>7. reader'[s].task = t
    BY <2>1, <2>2
  <2> QED  BY <1>1, <1>3, <2>2, <2>6, <2>7, <2>8 DEF FramesFit, IsCommitted
<1>4. CASE Listens(s)
  <2>1. /\ reader'[s].rest = <<>> /\ reader'[s].kept = <<>> /\ reader'[s].last = 0
        /\ reader'[s].sent = <<>> /\ reader'[s].task \in Tasks /\ log' = log
    BY <1>1, <1>4 DEF Listens, With, PhaseFits, Only, dbVars
  <2>2. Len(log'[reader'[s].task]) \in Nat
    BY <1>1, <2>1, CommittedStays
  <2> QED  BY <2>1, <2>2 DEF FramesFit
<1>5. CASE Lists(s)
  <2>1. PICK t \in Tasks : t = reader[s].task
    BY <1>1, <1>5 DEF PhaseFits, Lists
  <2>2. /\ reader'[s].rest = log[t] /\ reader'[s].kept = <<>> /\ reader'[s].last = 0
        /\ reader'[s].sent = <<>> /\ reader'[s].task = t /\ log' = log
    BY <1>1, <1>5, <2>1 DEF Lists, With, PhaseFits, Only, dbVars
  <2>3. Len(log[t]) \in Nat
    BY <1>1, CommittedStays
  <2> QED  BY <2>2, <2>3 DEF FramesFit, IsCommitted
<1>6. ASSUME NEW t \in Tasks, t = reader[s].task, reader[s].at \in Listening,
             Replays(s) \/ Skips(s) \/ Sends(s)
      PROVE  FramesFit(s)'
  <2>1. /\ \A i \in DOMAIN reader[s].rest : IsCommitted(reader[s].rest[i], t)
        /\ \A i \in DOMAIN reader[s].kept : IsCommitted(reader[s].kept[i], t)
        /\ reader[s].last <= Len(log[t]) /\ Len(log[t]) \in Nat
        /\ reader[s].last = IF reader[s].sent = <<>> THEN 0
                            ELSE reader[s].sent[Len(reader[s].sent)].seq
    BY <1>1, <1>6, CommittedStays DEF FramesFit
  <2>2. /\ reader[s].rest # <<>> => IsCommitted(Head(reader[s].rest), t)
        /\ reader[s].kept # <<>> => IsCommitted(Head(reader[s].kept), t)
        /\ sub[s].chan # <<>> => IsCommitted(Head(sub[s].chan), t)
    BY <1>6, HeadIsCommitted
  <2>3. log' = log /\ reader'[s].task = t
    BY <1>6 DEF Replays, Skips, Sends, Only, dbVars, With
  <2>4. /\ reader[s].rest \in Seq(Event) /\ reader[s].kept \in Seq(Event)
        /\ sub[s].chan \in Seq(Event) /\ reader[s].sent \in Seq(Event)
    BY <1>1, BeforeTyped
  <2>5. \A q \in Seq(Event) : q # <<>> /\ (\A i \in DOMAIN q : IsCommitted(q[i], t)) =>
          \A i \in DOMAIN Tail(q) : IsCommitted(Tail(q)[i], t)
    <3> SUFFICES ASSUME NEW q \in Seq(Event), q # <<>>,
                        \A i \in DOMAIN q : IsCommitted(q[i], t),
                        NEW i \in DOMAIN Tail(q)
                 PROVE  IsCommitted(Tail(q)[i], t)
      OBVIOUS
    <3>1. i + 1 \in DOMAIN q /\ Tail(q)[i] = q[i + 1]
      OBVIOUS
    <3> QED  BY <3>1
  <2>6. /\ \A i \in DOMAIN reader'[s].rest : IsCommitted(reader'[s].rest[i], t)
        /\ \A i \in DOMAIN reader'[s].kept : IsCommitted(reader'[s].kept[i], t)
    <3>1. CASE Replays(s)
      <4>1. reader[s].rest # <<>> /\ reader'[s].rest = Tail(reader[s].rest)
        BY <3>1 DEF Replays
      <4>2. CASE reader'[s].kept = reader[s].kept
        BY <2>1, <2>4, <2>5, <4>1, <4>2
      <4>3. CASE sub[s].chan # <<>> /\ reader'[s].kept = Append(reader[s].kept, Head(sub[s].chan))
        <5> DEFINE k == reader[s].kept
                   e == Head(sub[s].chan)
        <5>1. k \in Seq(Event) /\ e \in Event /\ IsCommitted(e, t)
          BY <2>2, <2>4, <4>3
        <5>2. \A i \in DOMAIN k : IsCommitted(k[i], t)
          BY <2>1
        <5> HIDE DEF k, e
        <5>3. \A i \in DOMAIN Append(k, e) : (i \in DOMAIN k /\ Append(k, e)[i] = k[i]) \/ Append(k, e)[i] = e
          BY <5>1
        <5>4. \A i \in DOMAIN Append(k, e) : IsCommitted(Append(k, e)[i], t)
          BY <5>1, <5>2, <5>3
        <5> QED  BY <2>1, <2>4, <2>5, <4>1, <4>3, <5>4 DEF k, e
      <4> QED  BY <3>1, <4>2, <4>3 DEF Replays
    <3>2. CASE Skips(s) \/ Sends(s)
      <4>1. /\ reader'[s].rest = reader[s].rest
            /\ \/ reader'[s].kept = reader[s].kept
               \/ reader[s].kept # <<>> /\ reader'[s].kept = Tail(reader[s].kept)
        BY <3>2 DEF Skips, Sends, With, Takes
      <4> QED  BY <2>1, <2>4, <2>5, <4>1
    <3> QED  BY <1>6, <3>1, <3>2
  <2>7. /\ reader'[s].last <= Len(log[t])
        /\ reader'[s].last = IF reader'[s].sent = <<>> THEN 0
                            ELSE reader'[s].sent[Len(reader'[s].sent)].seq
    <3>1. CASE Skips(s)
      BY <2>1, <3>1 DEF Skips, With
    <3>2. CASE Replays(s) \/ Sends(s)
      <4>1. PICK e \in Event :
              /\ IsCommitted(e, t)
              /\ reader'[s].last = e.seq /\ reader'[s].sent = Append(reader[s].sent, e)
        <5>1. CASE Replays(s)
          <6>1. reader[s].rest # <<>> /\ IsCommitted(Head(reader[s].rest), t)
            BY <2>2, <5>1 DEF Replays
          <6> QED  BY <1>1, <5>1, <6>1, CommittedNumber DEF Replays
        <5>2. CASE Sends(s)
          BY <2>2, <5>2 DEF Sends, Takes
        <5> QED  BY <3>2, <5>1, <5>2
      <4>2. e.seq \in 1..Len(log[t])
        BY <1>1, <4>1, CommittedNumber
      <4>3. /\ Append(reader[s].sent, e) # <<>>
            /\ Append(reader[s].sent, e)[Len(Append(reader[s].sent, e))] = e
        BY <2>4
      <4> QED  BY <2>1, <4>1, <4>2, <4>3
    <3> QED  BY <1>6, <3>1, <3>2
  <2> QED  BY <2>3, <2>6, <2>7 DEF FramesFit, IsCommitted
<1> QED  BY <1>1, <1>2, <1>3, <1>4, <1>5, <1>6
         DEF Moves, Stays, Breaks, Loads, Serves, Leaves, Finishes, Replays, Skips, Sends,
             Listening, Over, PhaseFits

\* A frame is added to what was sent.
LEMMA SentMore ==
  ASSUME NEW s, Before(s), NEW e \in Event, reader'[s].sent = Append(reader[s].sent, e)
  PROVE  Sent(s)' = Sent(s) \cup {e.seq}
<1>1. reader[s].sent \in Seq(Event)
  BY BeforeTyped
<1>2. Numbers(Append(reader[s].sent, e)) = Numbers(reader[s].sent) \cup {e.seq}
  BY <1>1, NumbersAppend
<1>3. Sent(s) = Numbers(reader[s].sent)
  BY DEF Sent, Numbers
<1>4. Sent(s)' = Numbers(Append(reader[s].sent, e))
  BY DEF Sent, Numbers
<1> QED  BY <1>2, <1>3, <1>4

\* The rest of the history goes on where the frames end.
LEMMA RestStep ==
  ASSUME StreamInv, [LogNext]_logVars, NEW s \in Subscribers, Moves(s) \/ Stays(s) \/ Breaks(s)
  PROVE  RestFollows(s)'
<1>1. RestFollows(s) /\ PhaseFits(s) /\ LogInv /\ Before(s)
  BY InvIsBefore DEF StreamInv, StreamFits
<1>2. CASE reader'[s].at \notin Listening
  BY <1>2 DEF RestFollows
<1>3. CASE Stays(s)
  BY <1>1, <1>3 DEF Stays, RestFollows, Sent
<1>4. CASE Listens(s) \/ Skips(s) \/ Sends(s)
  <2>1. reader'[s].rest = <<>>
    BY <1>1, <1>4 DEF Listens, Skips, Sends, With, PhaseFits
  <2> QED  BY <2>1 DEF RestFollows
<1>5. CASE Lists(s)
  <2>1. PICK t \in Tasks : t = reader[s].task
    BY <1>1, <1>5 DEF PhaseFits, Lists
  <2>2. reader'[s].rest = log[t] /\ reader'[s].last = 0
    BY <1>1, <1>5, <2>1 DEF Lists, With, PhaseFits
  <2>3. \A i \in DOMAIN log[t] : log[t][i].seq = i /\ i \in Nat
    BY <1>1 DEF LogInv, SeqContiguous, TypeOK
  <2>4. \A i \in DOMAIN log[t] : log[t][i].seq = 0 + i
    BY <2>3
  <2>5. 1..0 = {}
    OBVIOUS
  <2> QED  BY <2>2, <2>4, <2>5 DEF RestFollows
<1>6. CASE Replays(s)
  <2>1. PICK e \in Event : e = Head(reader[s].rest)
    BY <1>1, <1>6, ReplayFrame DEF Replays
  <2>2. /\ reader[s].at = "replay" /\ reader[s].rest # <<>> /\ reader[s].rest \in Seq(Event)
        /\ reader[s].last \in Nat
        /\ reader'[s].rest = Tail(reader[s].rest) /\ reader'[s].last = e.seq
        /\ reader'[s].sent = Append(reader[s].sent, e)
    BY <1>1, <1>6, <2>1, BeforeTyped DEF Replays
  <2>3. /\ \A i \in DOMAIN reader[s].rest : reader[s].rest[i].seq = reader[s].last + i
        /\ 1..reader[s].last \subseteq Sent(s)
    BY <1>1, <2>2 DEF RestFollows, Listening
  <2>4. /\ 1 \in DOMAIN reader[s].rest /\ reader[s].rest[1] = e
        /\ \A i \in DOMAIN Tail(reader[s].rest) :
             /\ i \in Nat /\ i + 1 \in DOMAIN reader[s].rest
             /\ Tail(reader[s].rest)[i] = reader[s].rest[i + 1]
    BY <2>1, <2>2
  <2>5. e.seq = reader[s].last + 1
    BY <2>3, <2>4
  <2>6. \A i \in DOMAIN reader'[s].rest : reader'[s].rest[i].seq = reader'[s].last + i
    <3>1. \A i \in DOMAIN Tail(reader[s].rest) :
            Tail(reader[s].rest)[i].seq = reader[s].last + (i + 1) /\ i \in Nat
      BY <2>3, <2>4
    <3> DEFINE q == Tail(reader[s].rest)
               k == reader[s].last
    <3>2. k \in Nat /\ reader'[s].last = k + 1 /\ reader'[s].rest = q
      BY <2>2, <2>5
    <3>3. \A i \in DOMAIN q : q[i].seq = k + (i + 1) /\ i \in Nat
      BY <3>1
    <3> HIDE DEF q, k
    <3>4. \A i \in DOMAIN q : q[i].seq = (k + 1) + i
      BY <3>2, <3>3
    <3> QED  BY <3>2, <3>4
  <2>7. Sent(s)' = Sent(s) \cup {e.seq}
    BY <1>1, <2>2, SentMore
  <2>8. 1..reader'[s].last \subseteq Sent(s)'
    BY <2>2, <2>3, <2>5, <2>7
  <2> QED  BY <2>6, <2>8 DEF RestFollows
<1> QED  BY <1>2, <1>3, <1>4, <1>5, <1>6
         DEF Moves, Breaks, Loads, Serves, Leaves, Finishes, Listening, Over, With

\* A new event in order.
LEMMA OrderAppend ==
  ASSUME NEW q \in Seq(Event), NEW e \in Event, NEW top \in Nat, NEW lost,
         InOrder(q, top, lost), e.seq > top
  PROVE  InOrder(Append(q, e), e.seq, lost)
<1> DEFINE R == Event
           a == Append(q, e)
<1>1. q \in Seq(R) /\ e \in R
  OBVIOUS
<1>2. e.seq \in Nat /\ \A i \in DOMAIN q : q[i].seq \in Nat
  <2>1. \A i \in DOMAIN q : q[i] \in Event
    OBVIOUS
  <2> QED  BY <2>1 DEF Event
<1> HIDE DEF R
<1>3. /\ Len(q) \in Nat /\ DOMAIN q = 1..Len(q) /\ DOMAIN a = 1..(Len(q) + 1)
      /\ \A i \in 1..Len(q) : a[i] = q[i]
      /\ a[Len(q) + 1] = e
  BY <1>1, AppendEntries
<1> HIDE DEF a
<1>4. \A i \in DOMAIN q : q[i].seq < e.seq
  BY <1>2 DEF InOrder
<1>5. \A i \in DOMAIN a : a[i].seq <= e.seq
  BY <1>2, <1>3, <1>4
<1>6. ASSUME NEW i \in DOMAIN a, NEW j \in DOMAIN a, i < j, a[j].seq \notin lost
      PROVE  a[i].seq < a[j].seq
  <2>1. i \in DOMAIN q /\ a[i] = q[i]
    BY <1>3, <1>6
  <2>2. CASE j = Len(q) + 1
    BY <1>3, <1>4, <2>1, <2>2
  <2>3. CASE j # Len(q) + 1
    <3>1. j \in DOMAIN q /\ a[j] = q[j]
      BY <1>3, <2>3
    <3> QED  BY <1>6, <2>1, <3>1 DEF InOrder
  <2> QED  BY <2>2, <2>3
<1> QED  BY <1>5, <1>6 DEF InOrder, a

\* A new event out of order is lost.
LEMMA OrderLate ==
  ASSUME NEW q \in Seq(Event), NEW e \in Event, NEW top \in Nat, NEW lost,
         InOrder(q, top, lost), e.seq <= top
  PROVE  InOrder(Append(q, e), top, lost \cup {e.seq})
<1> DEFINE R == Event
           a == Append(q, e)
<1>1. q \in Seq(R) /\ e \in R
  OBVIOUS
<1> HIDE DEF R
<1>3. /\ Len(q) \in Nat /\ DOMAIN q = 1..Len(q) /\ DOMAIN a = 1..(Len(q) + 1)
      /\ \A i \in 1..Len(q) : a[i] = q[i]
      /\ a[Len(q) + 1] = e
  BY <1>1, AppendEntries
<1> HIDE DEF a
<1>5. \A i \in DOMAIN a : a[i].seq <= top
  BY <1>3 DEF InOrder
<1>6. ASSUME NEW i \in DOMAIN a, NEW j \in DOMAIN a, i < j, a[j].seq \notin lost \cup {e.seq}
      PROVE  a[i].seq < a[j].seq
  <2>1. j # Len(q) + 1
    BY <1>3, <1>6
  <2>2. /\ i \in DOMAIN q /\ a[i] = q[i]
        /\ j \in DOMAIN q /\ a[j] = q[j]
    BY <1>3, <1>6, <2>1
  <2> QED  BY <1>6, <2>2 DEF InOrder
<1> QED  BY <1>5, <1>6 DEF InOrder, a

\* Taking the first event keeps the order, and the others have passed it.
LEMMA OrderTail ==
  ASSUME NEW q \in Seq(Event), q # <<>>, NEW top \in Nat, NEW lost, InOrder(q, top, lost)
  PROVE  /\ InOrder(Tail(q), top, lost) /\ Head(q).seq <= top
         /\ \A i \in DOMAIN Tail(q) : Tail(q)[i].seq \in lost \/ Tail(q)[i].seq > Head(q).seq
<1> DEFINE R == Event
           a == Tail(q)
           e == Head(q)
<1>1. q \in Seq(R)
  OBVIOUS
<1>2. e.seq \in Nat /\ \A i \in DOMAIN q : q[i].seq \in Nat
  <2>1. e \in Event /\ \A i \in DOMAIN q : q[i] \in Event
    OBVIOUS
  <2> HIDE DEF e
  <2> QED  BY <2>1 DEF Event
<1> HIDE DEF R
<1>3. /\ Len(q) \in Nat \ {0} /\ DOMAIN q = 1..Len(q) /\ DOMAIN a = 1..(Len(q) - 1)
      /\ \A i \in 1..(Len(q) - 1) : a[i] = q[i + 1]
      /\ q[1] = e
  BY <1>1, TailEntries
<1> HIDE DEF a, e
<1>4. 1 \in DOMAIN q /\ \A i \in DOMAIN a : i + 1 \in DOMAIN q /\ a[i] = q[i + 1] /\ 1 < i + 1
  BY <1>3
<1>5. e.seq <= top /\ \A i \in DOMAIN a : a[i].seq <= top
  BY <1>3, <1>4 DEF InOrder
<1>6. ASSUME NEW i \in DOMAIN a, NEW j \in DOMAIN a, i < j, a[j].seq \notin lost
      PROVE  a[i].seq < a[j].seq
  <2>1. i + 1 < j + 1
    BY <1>3, <1>6
  <2> QED  BY <1>4, <1>6, <2>1 DEF InOrder
<1>7. \A i \in DOMAIN a : a[i].seq \in lost \/ a[i].seq > e.seq
  <2> SUFFICES ASSUME NEW i \in DOMAIN a, a[i].seq \notin lost
               PROVE  a[i].seq > e.seq
    OBVIOUS
  <2>1. q[1].seq < q[i + 1].seq
    BY <1>4 DEF InOrder
  <2> QED  BY <1>2, <1>3, <1>4, <2>1
<1> QED  BY <1>5, <1>6, <1>7 DEF InOrder, a, e

\* The filter passes a new event in order, unless its number was written already.
LEMMA PassAppend ==
  ASSUME NEW q \in Seq(Event), NEW e \in Event, NEW top \in Nat, NEW last \in Nat, NEW lost,
         NEW sent, Passes(q, top, lost, last, sent), e.seq > top
  PROVE  Passes(Append(q, e), e.seq, lost, last, sent)
<1> DEFINE R == Event
           a == Append(q, e)
<1>1. q \in Seq(R) /\ e \in R
  OBVIOUS
<1>2. e.seq \in Nat
  BY DEF Event
<1> HIDE DEF R
<1>3. /\ Len(q) \in Nat /\ DOMAIN q = 1..Len(q) /\ DOMAIN a = 1..(Len(q) + 1)
      /\ \A i \in 1..Len(q) : a[i] = q[i]
      /\ a[Len(q) + 1] = e
  BY <1>1, AppendEntries
<1> HIDE DEF a
<1>4. e.seq \in sent \/ e.seq > last
  <2>1. e.seq \in 1..last \/ e.seq > last
    BY <1>2
  <2> QED  BY <1>2, <2>1 DEF Passes
<1>5. last <= e.seq \/ 1..last \subseteq sent
  BY <1>2 DEF Passes
<1>6. ASSUME NEW i \in DOMAIN a PROVE a[i].seq \in lost \cup sent \/ a[i].seq > last
  <2>1. (i \in DOMAIN q /\ a[i] = q[i]) \/ a[i] = e
    BY <1>3
  <2> QED  BY <1>4, <2>1 DEF Passes
<1> QED  BY <1>5, <1>6 DEF Passes, a

\* A new event out of order counts as lost.
LEMMA PassLate ==
  ASSUME NEW q \in Seq(Event), NEW e \in Event, NEW top, NEW last, NEW lost, NEW sent,
         Passes(q, top, lost, last, sent)
  PROVE  Passes(Append(q, e), top, lost \cup {e.seq}, last, sent)
<1> DEFINE R == Event
           a == Append(q, e)
<1>1. q \in Seq(R) /\ e \in R
  OBVIOUS
<1> HIDE DEF R
<1>3. /\ Len(q) \in Nat /\ DOMAIN q = 1..Len(q) /\ DOMAIN a = 1..(Len(q) + 1)
      /\ \A i \in 1..Len(q) : a[i] = q[i]
      /\ a[Len(q) + 1] = e
  BY <1>1, AppendEntries
<1> HIDE DEF a
<1>6. ASSUME NEW i \in DOMAIN a
      PROVE  a[i].seq \in (lost \cup {e.seq}) \cup sent \/ a[i].seq > last
  <2>1. (i \in DOMAIN q /\ a[i] = q[i]) \/ a[i] = e
    BY <1>3
  <2> QED  BY <2>1 DEF Passes
<1> QED  BY <1>6 DEF Passes, a

\* The more is lost, the less has to be in order.
LEMMA LessToKeep ==
  ASSUME NEW q, NEW top, NEW last, NEW lost, NEW sent, NEW k
  PROVE  /\ InOrder(q, top, lost) => InOrder(q, top, lost \cup {k})
         /\ Passes(q, top, lost, last, sent) => Passes(q, top, lost \cup {k}, last, sent)
BY DEF InOrder, Passes

\* The filter moves on by one frame of the history.
LEMMA PassNext ==
  ASSUME NEW q \in Seq(Event), NEW top, NEW last \in Nat, NEW lost, NEW sent,
         Passes(q, top, lost, last, sent), 1..last \subseteq sent
  PROVE  Passes(q, top, lost, last + 1, sent \cup {last + 1})
<1>1. \A i \in DOMAIN q : q[i].seq \in Nat
  <2>1. \A i \in DOMAIN q : q[i] \in Event
    OBVIOUS
  <2> QED  BY <2>1 DEF Event
<1>2. 1..(last + 1) \subseteq sent \cup {last + 1}
  OBVIOUS
<1>3. \A i \in DOMAIN q : q[i].seq > last => q[i].seq = last + 1 \/ q[i].seq > last + 1
  BY <1>1
<1> QED  BY <1>2, <1>3 DEF Passes

\* The filter moves on to the first pending event, or lets it pass.
LEMMA PassTail ==
  ASSUME NEW q \in Seq(Event), q # <<>>, NEW top \in Nat, NEW last, NEW lost, NEW sent,
         InOrder(q, top, lost), Passes(q, top, lost, last, sent)
  PROVE  /\ Passes(Tail(q), top, lost, last, sent)
         /\ Passes(Tail(q), top, lost, Head(q).seq, sent \cup {Head(q).seq})
         /\ Head(q).seq \in lost \cup sent \/ Head(q).seq > last
<1> DEFINE R == Event
           a == Tail(q)
           e == Head(q)
<1>1. /\ q \in Seq(R) /\ e.seq <= top
      /\ \A i \in DOMAIN a : a[i].seq \in lost \/ a[i].seq > e.seq
  BY OrderTail
<1> HIDE DEF R
<1>3. /\ Len(q) \in Nat \ {0} /\ DOMAIN q = 1..Len(q) /\ DOMAIN a = 1..(Len(q) - 1)
      /\ \A i \in 1..(Len(q) - 1) : a[i] = q[i + 1]
      /\ q[1] = e
  BY <1>1, TailEntries
<1> HIDE DEF a, e
<1>4. 1 \in DOMAIN q /\ \A i \in DOMAIN a : i + 1 \in DOMAIN q /\ a[i] = q[i + 1]
  BY <1>3
<1>5. Passes(a, top, lost, last, sent)
  BY <1>4 DEF Passes
<1>6. Passes(a, top, lost, e.seq, sent \cup {e.seq})
  BY <1>1 DEF Passes
<1>7. e.seq \in lost \cup sent \/ e.seq > last
  BY <1>3, <1>4 DEF Passes
<1> QED  BY <1>5, <1>6, <1>7 DEF a, e

\* The pending events stay in order, and the filter passes what it has to.
LEMMA PendingStep ==
  ASSUME StreamInv, NEW s \in Subscribers, Moves(s) \/ Stays(s) \/ Breaks(s)
  PROVE  PendingInOrder(s)'
<1>1. /\ PendingInOrder(s) /\ PhaseFits(s) /\ RestFollows(s) /\ FreeIsEmpty /\ Before(s)
      /\ fanout \in [Subscribers -> [top : Nat, lost : SUBSET Nat]]
  BY InvIsBefore, ReadersTyped DEF StreamInv, StreamFits, LogInv
<1>2. CASE reader'[s].at \notin Listening
  BY <1>2 DEF PendingInOrder
<1> DEFINE q == Pending(s)
           top == fanout[s].top
           lost == fanout[s].lost
           last == reader[s].last
           sent == Sent(s)
<1>3. q \in Seq(Event) /\ top \in Nat /\ last \in Nat
  BY <1>1, PendingTyped, BeforeTyped
<1>4. CASE Listens(s)
  <2>1. /\ sub[s].task = None /\ reader[s].kept = <<>> /\ fanout[s].top = 0
        /\ reader[s].last = 0
    BY <1>1, <1>4 DEF PhaseFits, Listens
  <2>2. sub[s].chan = <<>>
    BY <1>1, <2>1 DEF FreeIsEmpty
  <2>3. /\ sub'[s].chan = <<>> /\ reader'[s].kept = <<>> /\ fanout'[s].top = 0
        /\ reader'[s].last = 0
    BY <1>4, <2>1, <2>2 DEF Listens, Only, With
  <2>4. <<>> \o <<>> = <<>> /\ DOMAIN <<>> = {}
    OBVIOUS
  <2>5. Pending(s)' = <<>>
    BY <2>3, <2>4 DEF Pending
  <2>6. \A l, n : InOrder(<<>>, 0, l) /\ Passes(<<>>, 0, l, 0, n)
    BY <2>4 DEF InOrder, Passes
  <2> QED  BY <2>3, <2>5, <2>6 DEF PendingInOrder
<1>5. ASSUME reader[s].at \in Listening PROVE InOrder(q, top, lost) /\ Passes(q, top, lost, last, sent)
  BY <1>1, <1>5 DEF PendingInOrder
<1>6. CASE Stays(s) /\ reader[s].at \in Listening
  <2>1. PICK t \in Tasks : t = reader[s].task
    BY <1>1, <1>6 DEF PhaseFits, Listening
  <2>2. reader'[s] = reader[s] /\ Hears(s, t)
    BY <1>1, <1>6, <2>1 DEF Stays, PhaseFits
  <2>3. reader'[s].last = last /\ Sent(s)' = sent
    BY <2>2 DEF Sent
  <2>4. CASE sub'[s].chan = sub[s].chan /\ fanout'[s] = fanout[s]
    <3>1. Pending(s)' = q
      BY <1>1, <2>2, <2>4, HearPends
    <3> QED  BY <1>5, <1>6, <2>3, <2>4, <3>1 DEF PendingInOrder
  <2>5. ASSUME NEW e \in Event, Gets(s, t, e) PROVE PendingInOrder(s)'
    <3>1. Pending(s)' = Append(q, e)
      BY <1>1, <2>2, <2>5, HearPends DEF Gets
    <3>2. e.seq > top /\ fanout'[s].top = e.seq /\ fanout'[s].lost = lost
      BY <2>5 DEF Gets
    <3>3. InOrder(Append(q, e), e.seq, lost) /\ Passes(Append(q, e), e.seq, lost, last, sent)
      BY <1>3, <1>5, <1>6, <3>2, OrderAppend, PassAppend
    <3> QED  BY <2>3, <3>1, <3>2, <3>3 DEF PendingInOrder
  <2>6. ASSUME NEW e \in Event, GetsLate(s, t, e) PROVE PendingInOrder(s)'
    <3>1. Pending(s)' = Append(q, e)
      BY <1>1, <2>2, <2>6, HearPends DEF GetsLate
    <3>2. e.seq <= top /\ fanout'[s].top = top /\ fanout'[s].lost = lost \cup {e.seq}
      BY <2>6 DEF GetsLate
    <3>3. /\ InOrder(Append(q, e), top, lost \cup {e.seq})
          /\ Passes(Append(q, e), top, lost \cup {e.seq}, last, sent)
      BY <1>3, <1>5, <1>6, <3>2, OrderLate, PassLate
    <3> QED  BY <2>3, <3>1, <3>2, <3>3 DEF PendingInOrder
  <2>7. ASSUME NEW e \in Event, Loses(s, t, e) PROVE PendingInOrder(s)'
    <3>1. Pending(s)' = q
      BY <1>1, <2>2, <2>7, HearPends DEF Loses
    <3>2. fanout'[s].top = top /\ fanout'[s].lost = lost \cup {e.seq}
      BY <2>7 DEF Loses
    <3>3. InOrder(q, top, lost \cup {e.seq}) /\ Passes(q, top, lost \cup {e.seq}, last, sent)
      BY <1>5, <1>6, LessToKeep
    <3> QED  BY <2>3, <3>1, <3>2, <3>3 DEF PendingInOrder
  <2> QED  BY <2>2, <2>4, <2>5, <2>6, <2>7 DEF Hears, HearsNothing
<1>7. CASE Lists(s)
  <2>1. /\ reader'[s].kept = reader[s].kept /\ sub'[s] = sub[s] /\ fanout' = fanout
        /\ reader'[s].last = last /\ reader'[s].sent = reader[s].sent /\ reader[s].at \in Listening
    BY <1>7 DEF Lists, With, Only, Listening
  <2>2. Pending(s)' = q /\ Sent(s)' = sent
    BY <2>1 DEF Pending, Sent
  <2> QED  BY <1>5, <2>1, <2>2 DEF PendingInOrder
<1>8. CASE Replays(s)
  <2>1. PICK e \in Event : e = Head(reader[s].rest)
    BY <1>1, <1>8, ReplayFrame DEF Replays
  <2>2. /\ reader[s].at \in Listening /\ reader[s].rest # <<>> /\ reader[s].rest \in Seq(Event)
        /\ reader'[s].last = e.seq /\ reader'[s].sent = Append(reader[s].sent, e)
        /\ fanout' = fanout
    BY <1>1, <1>8, <2>1, BeforeTyped DEF Replays, Only, Listening
  <2>3. 1..last \subseteq sent /\ reader[s].rest[1].seq = last + 1
    BY <1>1, <2>2 DEF RestFollows
  <2>4. e.seq = last + 1
    BY <2>1, <2>2, <2>3
  <2>5. Sent(s)' = sent \cup {last + 1}
    BY <1>1, <2>2, <2>4, SentMore
  <2>6. Pending(s)' = q
    BY <1>1, <1>8, ReplayPends
  <2>7. Passes(q, top, lost, last + 1, sent \cup {last + 1})
    BY <1>3, <1>5, <2>2, <2>3, PassNext
  <2> QED  BY <1>5, <2>2, <2>4, <2>5, <2>6, <2>7 DEF PendingInOrder
<1>9. CASE Skips(s)
  <2>1. PICK e \in Event :
          /\ reader[s].at = "replay" /\ Takes(s, e) /\ reader'[s].at = "replay"
          /\ With(reader'[s], reader[s], {"kept"}) /\ fanout' = fanout
    BY <1>9 DEF Skips, Only
  <2>2. q # <<>> /\ Pending(s)' = Tail(q)
    BY <1>1, <2>1, TakePends
  <2>3. reader'[s].last = last /\ Sent(s)' = sent /\ reader[s].at \in Listening
    BY <2>1 DEF With, Sent, Listening
  <2>4. InOrder(Tail(q), top, lost) /\ Passes(Tail(q), top, lost, last, sent)
    BY <1>3, <1>5, <2>2, <2>3, OrderTail, PassTail
  <2> QED  BY <2>1, <2>2, <2>3, <2>4 DEF PendingInOrder
<1>10. CASE Sends(s) /\ reader'[s].at \in Listening
  <2>1. PICK e \in Event :
          /\ reader[s].at = "replay" /\ Takes(s, e) /\ fanout' = fanout
          /\ reader'[s].last = e.seq /\ reader'[s].sent = Append(reader[s].sent, e)
    BY <1>10 DEF Sends, Only
  <2>2. q # <<>> /\ e = Head(q) /\ Pending(s)' = Tail(q)
    BY <1>1, <1>10, <2>1, TakePends DEF Listening
  <2>3. Sent(s)' = sent \cup {e.seq} /\ reader[s].at \in Listening
    BY <1>1, <2>1, SentMore DEF Listening
  <2>4. InOrder(Tail(q), top, lost) /\ Passes(Tail(q), top, lost, e.seq, sent \cup {e.seq})
    BY <1>3, <1>5, <2>2, <2>3, OrderTail, PassTail
  <2> QED  BY <2>1, <2>2, <2>3, <2>4 DEF PendingInOrder
<1> QED  BY <1>2, <1>4, <1>6, <1>7, <1>8, <1>9, <1>10
         DEF Moves, Breaks, Loads, Serves, Leaves, Finishes, Stays, Listening, Over, With

\* No event of the task falls through.
LEMMA CoverStep ==
  ASSUME StreamInv, [LogNext]_logVars, NEW s \in Subscribers, Moves(s) \/ Stays(s) \/ Breaks(s)
  PROVE  AllCovered(s)'
<1>1. /\ AllCovered(s) /\ PendingInOrder(s) /\ PhaseFits(s) /\ LogInv /\ Before(s)
      /\ fanout \in [Subscribers -> [top : Nat, lost : SUBSET Nat]]
  BY InvIsBefore, ReadersTyped DEF StreamInv, StreamFits
<1>2. CASE reader'[s].at # "replay"
  BY <1>2 DEF AllCovered
<1> SUFFICES ASSUME reader'[s].at = "replay", Lists(s) \/ Stays(s) \/ Replays(s) \/ Skips(s) \/ Sends(s)
             PROVE  AllCovered(s)'
  BY <1>2 DEF Moves, Breaks, Loads, Serves, Leaves, Listens, Finishes, Over
<1>3. reader[s].at \in Listening
  BY DEF Lists, Stays, Replays, Skips, Sends, Listening
<1>4. PICK t \in Tasks : t = reader[s].task
  BY <1>1, <1>3 DEF PhaseFits, Listening
<1>5. reader'[s].task = t
  BY <1>4 DEF Lists, Stays, Replays, Skips, Sends, With
<1> DEFINE q == Pending(s)
           rest == reader[s].rest
           lost == fanout[s].lost
           sent == Sent(s)
           all == 1..Len(log[t])
<1>6. /\ q \in Seq(Event) /\ rest \in Seq(Event)
      /\ Len(log[t]) \in Nat
  BY <1>1, PendingTyped, BeforeTyped, CommittedStays
<1>7. reader[s].at = "replay" =>
        all \subseteq sent \cup lost \cup Unpublished(t) \cup Numbers(rest) \cup Numbers(q)
  BY <1>1, <1>4 DEF AllCovered, Excused
<1>8. 1..Len(log'[t]) \subseteq Sent(s)' \cup fanout'[s].lost \cup Unpublished(t)'
                                \cup Numbers(reader'[s].rest) \cup Numbers(Pending(s)')
      => AllCovered(s)'
  BY <1>5 DEF AllCovered, Excused, Numbers
<1>9. ASSUME Only(s) PROVE log' = log /\ fanout' = fanout /\ Unpublished(t)' = Unpublished(t)
  BY <1>9 DEF Only, dbVars, Unpublished
<1>10. CASE Lists(s)
  <2>1. reader'[s].rest = log[t] /\ log' = log
    BY <1>4, <1>9, <1>10 DEF Lists
  <2>2. log[t] \in Seq(Event) /\ \A i \in DOMAIN log[t] : log[t][i].seq = i
    BY <1>1 DEF LogInv, TypeOK, SeqContiguous
  <2>3. DOMAIN log[t] = all
    BY <2>2
  <2>4. all \subseteq Numbers(log[t])
    BY <2>2, <2>3 DEF Numbers
  <2> QED  BY <1>8, <2>1, <2>4
<1>11. CASE Replays(s)
  <2>1. PICK e \in Event : e = Head(rest)
    BY <1>1, <1>11, ReplayFrame DEF Replays
  <2>2. /\ reader[s].at = "replay" /\ rest # <<>> /\ Only(s)
        /\ reader'[s].rest = Tail(rest) /\ reader'[s].sent = Append(reader[s].sent, e)
    BY <1>11, <2>1 DEF Replays
  <2>3. Pending(s)' = q
    BY <1>1, <1>11, ReplayPends
  <2>4. Sent(s)' = sent \cup {e.seq}
    BY <1>1, <2>2, SentMore
  <2>5. Numbers(rest) = Numbers(Tail(rest)) \cup {e.seq}
    BY <1>6, <2>1, <2>2, NumbersTail
  <2>6. log' = log /\ fanout' = fanout /\ Unpublished(t)' = Unpublished(t)
    BY <1>9, <2>2
  <2>7. all \subseteq sent \cup lost \cup Unpublished(t) \cup Numbers(rest) \cup Numbers(q)
    BY <1>7, <2>2
  <2> HIDE DEF q, rest, lost, sent, all
  <2>8. all \subseteq (sent \cup {e.seq}) \cup lost \cup Unpublished(t) \cup Numbers(Tail(rest)) \cup Numbers(q)
    BY <2>5, <2>7
  <2> QED  BY <1>8, <2>2, <2>3, <2>4, <2>6, <2>8 DEF lost, all
<1>12. CASE Skips(s) \/ Sends(s)
  <2>1. PICK e \in Event :
          /\ reader[s].at = "replay" /\ Only(s) /\ Takes(s, e)
          /\ \/ e.seq <= reader[s].last /\ reader'[s].sent = reader[s].sent
             \/ reader'[s].sent = Append(reader[s].sent, e)
          /\ reader'[s].rest = rest
    BY <1>12 DEF Skips, Sends, With
  <2>2. q # <<>> /\ e = Head(q) /\ Pending(s)' = Tail(q)
    BY <1>1, <2>1, TakePends
  <2>3. Numbers(q) = Numbers(Tail(q)) \cup {e.seq}
    BY <1>6, <2>2, NumbersTail
  <2>4. sent \subseteq Sent(s)' /\ e.seq \in lost \cup Sent(s)'
    <3>1. CASE e.seq <= reader[s].last /\ reader'[s].sent = reader[s].sent
      <4>1. Sent(s)' = sent
        BY <3>1 DEF Sent
      <4>2. /\ fanout[s].top \in Nat
            /\ InOrder(q, fanout[s].top, lost)
            /\ Passes(q, fanout[s].top, lost, reader[s].last, sent)
        BY <1>1, <1>3 DEF PendingInOrder
      <4>3. e.seq \in lost \cup sent \/ e.seq > reader[s].last
        BY <1>6, <2>2, <4>2, PassTail
      <4>4. e.seq \in Nat /\ reader[s].last \in Nat
        BY <1>1, BeforeTyped DEF Event
      <4> QED  BY <3>1, <4>1, <4>3, <4>4
    <3>2. CASE reader'[s].sent = Append(reader[s].sent, e)
      BY <1>1, <3>2, SentMore
    <3> QED  BY <2>1, <3>1, <3>2
  <2>6. log' = log /\ fanout' = fanout /\ Unpublished(t)' = Unpublished(t)
    BY <1>9, <2>1
  <2>7. all \subseteq sent \cup lost \cup Unpublished(t) \cup Numbers(rest) \cup Numbers(q)
    BY <1>7, <2>1
  <2> DEFINE sent2 == Sent(s)'
  <2>9. sent \subseteq sent2 /\ e.seq \in lost \cup sent2
    BY <2>4
  <2> HIDE DEF q, rest, lost, sent, all, sent2
  <2>8. all \subseteq sent2 \cup lost \cup Unpublished(t) \cup Numbers(rest) \cup Numbers(Tail(q))
    BY <2>3, <2>9, <2>7
  <2> QED  BY <1>8, <2>1, <2>2, <2>6, <2>8 DEF lost, all, sent2
<1>13. CASE Stays(s)
  <2>1. reader'[s] = reader[s] /\ Hears(s, t) /\ Arrives(t) /\ reader[s].at = "replay"
    BY <1>1, <1>3, <1>4, <1>13 DEF Stays, PhaseFits
  <2>2. Sent(s)' = sent /\ reader'[s].rest = rest
    BY <2>1 DEF Sent
  <2>3. 1..Len(log'[t]) \subseteq all \cup Unpublished(t)'
    BY <2>1 DEF Arrives
  <2>4. Unpublished(t) \subseteq Unpublished(t)' \cup fanout'[s].lost \cup Numbers(Pending(s)')
    <3>1. ASSUME NEW e \in Event, Gets(s, t, e) PROVE e.seq \in Numbers(Pending(s)')
      <4>1. Pending(s)' = Append(q, e)
        BY <1>1, <2>1, <3>1, HearPends DEF Gets
      <4> QED  BY <1>6, <4>1, NumbersAppend
    <3> QED  BY <2>1, <3>1 DEF Hears, HearsNothing, Gets, GetsLate, Loses, Settles
  <2>5. Numbers(q) \subseteq Numbers(Pending(s)')
    <3>1. \/ sub'[s].chan = sub[s].chan
          \/ \E e \in Event : sub'[s].chan = Append(sub[s].chan, e)
      BY <2>1 DEF Hears, HearsNothing, Gets, GetsLate, Loses
    <3>2. CASE sub'[s].chan = sub[s].chan
      <4>1. Pending(s)' = q
        BY <1>1, <2>1, <3>2, HearPends
      <4> QED  BY <4>1
    <3>3. ASSUME NEW e \in Event, sub'[s].chan = Append(sub[s].chan, e)
          PROVE  Numbers(q) \subseteq Numbers(Pending(s)')
      <4>1. Pending(s)' = Append(q, e)
        BY <1>1, <2>1, <3>3, HearPends
      <4> QED  BY <1>6, <4>1, NumbersAppend
    <3> QED  BY <3>1, <3>2, <3>3
  <2>6. lost \subseteq fanout'[s].lost
    BY <2>1 DEF Hears, HearsNothing, Gets, GetsLate, Loses
  <2> DEFINE q2 == Pending(s)'
             un2 == Unpublished(t)'
             lost2 == fanout'[s].lost
  <2>7. /\ Unpublished(t) \subseteq un2 \cup lost2 \cup Numbers(q2)
        /\ Numbers(q) \subseteq Numbers(q2) /\ lost \subseteq lost2
        /\ all \subseteq sent \cup lost \cup Unpublished(t) \cup Numbers(rest) \cup Numbers(q)
        /\ 1..Len(log'[t]) \subseteq all \cup un2
    BY <1>7, <2>1, <2>3, <2>4, <2>5, <2>6
  <2> HIDE DEF q, rest, lost, sent, all, q2, un2, lost2
  <2>8. 1..Len(log'[t]) \subseteq sent \cup lost2 \cup un2 \cup Numbers(rest) \cup Numbers(q2)
    BY <2>7
  <2> QED  BY <1>8, <2>2, <2>8 DEF q2, un2, lost2
<1> QED  BY <1>10, <1>11, <1>12, <1>13

Fanouts == [Subscribers -> [top : Nat, lost : SUBSET Nat]]

\* Handlers remain handlers.
LEMMA ReadersStep ==
  ASSUME StreamInv, [StreamNext]_streamVars
  PROVE  reader' \in [Subscribers -> Reader]
<1>1. reader \in [Subscribers -> Reader]
  BY ReadersTyped DEF StreamInv
<1>2. ASSUME NEW s \in Subscribers,
             ReaderStep(s) \/ Leave(s) \/ \E t \in Tasks : ClientLoad(s, t) \/ PeerSubscribe(s, t)
      PROVE  reader' \in [Subscribers -> Reader]
  <2>1. Moves(s)
    BY <1>2, HandlerMoves
  <2> QED
    BY <2>1 DEF Moves, Loads, Serves, Leaves, Listens, Lists, Replays, Finishes, Skips, Sends, Only
<1>3. ASSUME StreamCrash PROVE reader' \in [Subscribers -> Reader]
  <2>1. \A s \in Subscribers : [reader[s] EXCEPT !.at = "left"] \in Reader
    BY <1>1, WithAt DEF Phases, Over
  <2> QED  BY <1>1, <1>3, <2>1 DEF StreamCrash
<1> QED  BY <1>1, <1>2, <1>3 DEF StreamNext, streamVars

\* What is noted of the fan-out keeps its type.
LEMMA NoteTyped ==
  ASSUME TypeOK, fanout \in Fanouts, NEW w \in Writers, NEW o,
         call[w].step \in {"insert", "turn", "publish"}, Note(w, o)
  PROVE  fanout' \in Fanouts
<1>1. PICK c \in Tasks, e \in Event : c = call[w].task /\ e = call[w].event
  BY CallIsCalling
<1>2. e.seq \in Nat
  BY DEF Event
<1>3. \A s \in Subscribers : Misses(s, c, e.seq, o) \in [top : Nat, lost : SUBSET Nat]
  <2> SUFFICES ASSUME NEW s \in Subscribers
               PROVE  Misses(s, c, e.seq, o) \in [top : Nat, lost : SUBSET Nat]
    OBVIOUS
  <2>1. fanout[s] \in [top : Nat, lost : SUBSET Nat]
    BY DEF Fanouts
  <2>2. /\ [fanout[s] EXCEPT !.top = e.seq] \in [top : Nat, lost : SUBSET Nat]
        /\ [fanout[s] EXCEPT !.lost = @ \cup {e.seq}] \in [top : Nat, lost : SUBSET Nat]
    BY <1>2, <2>1
  <2> QED  BY <2>1, <2>2 DEF Misses
<1> QED  BY <1>1, <1>3 DEF Note, Fanouts

\* So does every step.
LEMMA FanoutStep ==
  ASSUME StreamInv, [StreamNext]_streamVars
  PROVE  fanout' \in Fanouts
<1>1. TypeOK /\ fanout \in Fanouts
  BY ReadersTyped DEF StreamInv, Fanouts
<1>2. ASSUME NEW s \in Subscribers,
             ReaderStep(s) \/ Leave(s) \/ \E t \in Tasks : ClientLoad(s, t) \/ PeerSubscribe(s, t)
      PROVE  fanout' = fanout
  <2>1. Moves(s)
    BY <1>2, HandlerMoves
  <2> QED
    BY <2>1 DEF Moves, Loads, Serves, Leaves, Listens, Lists, Replays, Finishes, Skips, Sends, Only
<1>3. ASSUME NEW w \in Writers, GoesOn(w)
      PROVE  fanout' \in Fanouts
  <2>1. /\ Publish(w) => call[w].step = "publish"
        /\ ContextCancelled(w) => call[w].step \in {"insert", "turn"}
    BY DEF Publish, ContextCancelled
  <2>2. \/ UNCHANGED fanout
        \/ \E o \in BOOLEAN : Note(w, o) /\ call[w].step \in {"insert", "turn", "publish"}
    BY <1>3, <2>1 DEF GoesOn
  <2> QED  BY <1>1, <2>2, NoteTyped
<1>4. UNCHANGED fanout => fanout' \in Fanouts
  BY <1>1
<1> QED  BY <1>2, <1>3, <1>4 DEF StreamNext, streamVars, StreamCrash

(***************************************************************************)
(* The invariant holds initially ...                                       *)
(***************************************************************************)
LEMMA StreamInvInit == StreamInit => StreamInv
<1> SUFFICES ASSUME StreamInit
             PROVE  StreamInv
  OBVIOUS
<1>1. LogInv
  BY LogInvInit DEF StreamInit
<1>2. \A s \in Subscribers :
        /\ reader[s].at = "idle" /\ reader[s].mode = None /\ ~reader[s].ended
        /\ reader[s].rest = <<>> /\ reader[s].kept = <<>> /\ reader[s].last = 0
        /\ reader[s].sent = <<>> /\ sub[s].task = None /\ fanout[s].top = 0
  BY DEF StreamInit, LogInit, Free
<1>3. StreamTypeOK
  <2> DEFINE idle == [mode |-> None, at |-> "idle", task |-> None, ended |-> FALSE,
                      rest |-> <<>>, kept |-> <<>>, last |-> 0, sent |-> <<>>]
             none == [top |-> 0, lost |-> {}]
  <2>1. idle \in Reader
    <3>1. <<>> \in Seq(Event)
      OBVIOUS
    <3> HIDE DEF idle
    <3> QED  BY <3>1 DEF idle, Reader, Phases
  <2>2. none \in [top : Nat, lost : SUBSET Nat]
    OBVIOUS
  <2>3. reader = [s \in Subscribers |-> idle] /\ fanout = [s \in Subscribers |-> none]
    BY DEF StreamInit
  <2> HIDE DEF idle, none
  <2>4. reader \in [Subscribers -> Reader] /\ fanout \in [Subscribers -> [top : Nat, lost : SUBSET Nat]]
    BY <2>1, <2>2, <2>3
  <2> QED  BY <1>1, <2>4, ReadersTyped DEF LogInv
<1>4. \A s \in Subscribers : PhaseFits(s)
  BY <1>2 DEF PhaseFits, Listening
<1>5. \A s \in Subscribers : /\ FramesFit(s) /\ EndFits(s) /\ RestFollows(s) /\ AllCovered(s)
                             /\ PendingInOrder(s)
  BY <1>2 DEF FramesFit, EndFits, RestFollows, AllCovered, PendingInOrder, Listening
<1> QED  BY <1>1, <1>3, <1>4, <1>5 DEF StreamInv, StreamFits

(***************************************************************************)
(* ... and every step keeps it.                                            *)
(***************************************************************************)
LEMMA StreamInvStep == StreamInv /\ [StreamNext]_streamVars => StreamInv'
<1> SUFFICES ASSUME StreamInv, [StreamNext]_streamVars
             PROVE  StreamInv'
  OBVIOUS
<1>1. [LogNext]_logVars
  BY StreamIsLog
<1>2. LogInv'
  BY <1>1, LogInvStep DEF StreamInv
<1>3. \A s \in Subscribers : Moves(s) \/ Stays(s) \/ Breaks(s)
  BY StepOfStream
<1>4. \A s \in Subscribers : StreamFits(s)'
  BY <1>1, <1>3, PhaseStep, FramesStep, EndStep, RestStep, CoverStep, PendingStep DEF StreamFits
<1>5. StreamTypeOK'
  <2>1. TypeOK'
    BY <1>2 DEF LogInv
  <2>2. fanout' \in [Subscribers -> [top : Nat, lost : SUBSET Nat]]
    BY FanoutStep DEF Fanouts
  <2>3. reader' \in [Subscribers -> Reader]
    BY ReadersStep
  <2> QED  BY <2>1, <2>2, <2>3 DEF StreamTypeOK, Reader, Phases
<1> QED  BY <1>2, <1>4, <1>5 DEF StreamInv

(***************************************************************************)
(* The invariant holds throughout, for any tasks, writers and streams and  *)
(* any capacity of the channels.                                           *)
(***************************************************************************)
THEOREM StreamInvariant == StreamSpec => []StreamInv
BY StreamInvInit, StreamInvStep, PTL DEF StreamSpec

(***************************************************************************)
(* The streams are written over a log that keeps its own specification,    *)
(* and with it every property proved of TaskLog.                           *)
(***************************************************************************)
THEOREM StreamsUseLog == StreamSpec => LogSpec
<1>1. StreamInit => LogInit
  BY DEF StreamInit
<1> QED  BY <1>1, StreamInvariant, StreamIsLog, PTL DEF StreamSpec, LogSpec

(***************************************************************************)
(* A stream the server ends has shown its reader the end of the task.      *)
(***************************************************************************)
THEOREM ClosedShowsOutcome == StreamSpec => []ClosedHasOutcome
<1>1. StreamInv => ClosedHasOutcome
  BY DEF StreamInv, StreamFits, EndFits, HasEnd, ClosedHasOutcome
<1> QED  BY <1>1, StreamInvariant, PTL

(***************************************************************************)
(* A peer stream misses nothing but what the fan-out lost.                 *)
(***************************************************************************)
LEMMA NothingFallsThrough == StreamInv => PeerMissesOnlyLost
<1> SUFFICES ASSUME StreamInv, NEW s \in Subscribers,
                    reader[s].mode = "peer", reader[s].at \notin Over,
                    NEW n \in 1..reader[s].last
             PROVE  n \in Sent(s) \cup Excused(s)
  BY DEF PeerMissesOnlyLost, StreamInv
<1>1. /\ PhaseFits(s) /\ FramesFit(s) /\ RestFollows(s) /\ AllCovered(s) /\ PendingInOrder(s)
      /\ Before(s) /\ LogInv
  BY InvIsBefore DEF StreamInv, StreamFits
<1>2. reader[s].last \in Nat /\ reader[s].at \in Phases /\ reader[s].rest \in Seq(Event)
  BY <1>1, BeforeTyped, ReaderFields
<1>3. reader[s].last # 0
  BY <1>2
<1>4. reader[s].at = "replay"
  <2>1. reader[s].mode # None /\ reader[s].mode # "client"
    BY DEF None
  <2> QED  BY <1>1, <1>2, <1>3, <2>1 DEF PhaseFits, Phases
<1>5. PICK t \in Tasks : t = reader[s].task
  BY <1>1, <1>4 DEF PhaseFits
<1>6. reader[s].last <= Len(log[t]) /\ Len(log[t]) \in Nat
  BY <1>1, <1>4, <1>5, CommittedStays DEF FramesFit, Listening
<1>7. n \in 1..Len(log[t])
  BY <1>2, <1>6
<1>8. n \in Sent(s) \cup Excused(s) \cup Numbers(reader[s].rest) \cup Numbers(Pending(s))
  BY <1>1, <1>4, <1>5, <1>7 DEF AllCovered
<1>9. CASE reader[s].rest # <<>>
  BY <1>1, <1>4, <1>9 DEF RestFollows, Listening
<1>10. CASE reader[s].rest = <<>>
  <2>1. Numbers(reader[s].rest) = {}
    BY <1>10 DEF Numbers
  <2>2. ASSUME n \in Numbers(Pending(s)) PROVE n \in Sent(s) \cup Excused(s)
    <3>1. PICK i \in DOMAIN Pending(s) : n = Pending(s)[i].seq
      BY <2>2 DEF Numbers
    <3>2. Pending(s)[i].seq \in fanout[s].lost \cup Sent(s) \/ Pending(s)[i].seq > reader[s].last
      BY <1>1, <1>4 DEF PendingInOrder, Passes, Listening
    <3>3. ~(n > reader[s].last)
      BY <1>2
    <3> QED  BY <3>1, <3>2, <3>3 DEF Excused
  <2> QED  BY <1>8, <2>1, <2>2
<1> QED  BY <1>9, <1>10

(***************************************************************************)
(* Between the replay and the live phase nothing falls through: whatever a *)
(* peer stream has passed over was lost by the fan-out or has not reached  *)
(* it yet, for any capacity of the channels and any number of writers.     *)
(***************************************************************************)
THEOREM PeersMissOnlyLost == StreamSpec => []PeerMissesOnlyLost
BY StreamInvariant, NothingFallsThrough, PTL

-----------------------------------------------------------------------------
(* The streams keep the promise of FrameFeed *)

\* FrameFeed reads the same vocabulary.
LEMMA FeedVocabulary ==
  ASSUME NEW s, NEW t
  PROVE  /\ PeerFeed(s, t)!Statuses = Statuses
         /\ PeerFeed(s, t)!Kinds = Kinds
         /\ PeerFeed(s, t)!Terminal = Terminal
BY DEF PeerFeed!Terminal, Terminal, PeerFeed!Statuses, Statuses, PeerFeed!Kinds, Kinds

\* What the peer that mirrors task t sees of a handler: its frames ...
FramesFrom(r, t) == IF r.mode = "peer" /\ r.task = t THEN r.sent ELSE <<>>

\* ... and whether they are over.
FeedFrom(r, t) ==
  IF r.task # t \/ r.mode # "peer" THEN "idle"
  ELSE IF r.at = "closed" THEN "closed" ELSE IF r.at = "left" THEN "cut" ELSE "open"

\* That is the refinement mapping.
LEMMA FeedIs ==
  ASSUME NEW s, NEW t
  PROVE  /\ (IF reader[s].task = t THEN FeedOf(s) ELSE "idle") = FeedFrom(reader[s], t)
         /\ (IF reader'[s].task = t THEN FeedOf(s)' ELSE "idle") = FeedFrom(reader'[s], t)
<1>1. FeedOf(s) = IF reader[s].mode # "peer" THEN "idle"
                  ELSE IF reader[s].at = "closed" THEN "closed"
                  ELSE IF reader[s].at = "left" THEN "cut" ELSE "open"
  BY Zenon DEF FeedOf
<1>2. FeedOf(s)' = IF reader'[s].mode # "peer" THEN "idle"
                   ELSE IF reader'[s].at = "closed" THEN "closed"
                   ELSE IF reader'[s].at = "left" THEN "cut" ELSE "open"
  BY Zenon DEF FeedOf
<1> QED  BY <1>1, <1>2 DEF FeedFrom

\* The steps of FrameFeed, in terms of the handler.
LEMMA FeedSteps ==
  ASSUME NEW s, NEW t, NEW f, NEW g, NEW f2, NEW g2,
         f = FramesFrom(reader[s], t), g = FeedFrom(reader[s], t),
         f2 = FramesFrom(reader'[s], t), g2 = FeedFrom(reader'[s], t), log'[t] = log[t]
  PROVE  /\ f2 = f /\ g2 = g => UNCHANGED PeerFeed(s, t)!feedVars
         /\ f2 = f /\ g = "idle" /\ g2 = "open" => PeerFeed(s, t)!Open
         /\ f2 = f /\ g = "open" /\ g2 = "cut" => PeerFeed(s, t)!Cut
         /\ f2 = f /\ g = "open" /\ g2 = "closed" /\ HasEnd(f) => PeerFeed(s, t)!Close
         /\ /\ g = "open" /\ (g2 = "open" \/ (g2 = "closed" /\ HasEnd(f2)))
            /\ \E i \in DOMAIN log[t] :
                 /\ log[t][i].seq > IF f = <<>> THEN 0 ELSE f[Len(f)].seq
                 /\ f2 = Append(f, log[t][i])
            => PeerFeed(s, t)!Send
<1>1. /\ g = IF reader[s].task = t THEN FeedOf(s) ELSE "idle"
      /\ g2 = IF reader'[s].task = t THEN FeedOf(s)' ELSE "idle"
      /\ f = IF reader[s].mode = "peer" /\ reader[s].task = t THEN reader[s].sent ELSE <<>>
      /\ f2 = IF reader'[s].mode = "peer" /\ reader'[s].task = t THEN reader'[s].sent ELSE <<>>
  BY FeedIs DEF FramesFrom
<1>2. f2 = f /\ g2 = g => UNCHANGED PeerFeed(s, t)!feedVars
  BY <1>1 DEF PeerFeed!feedVars
<1>3. f2 = f /\ g = "idle" /\ g2 = "open" => PeerFeed(s, t)!Open
  BY <1>1 DEF PeerFeed!Open
<1>4. f2 = f /\ g = "open" /\ g2 = "cut" => PeerFeed(s, t)!Cut
  BY <1>1 DEF PeerFeed!Cut
<1>5. f2 = f /\ g = "open" /\ g2 = "closed" /\ HasEnd(f) => PeerFeed(s, t)!Close
  BY <1>1, FeedVocabulary DEF PeerFeed!Close, PeerFeed!Ended, HasEnd, IsEnd
<1>6. /\ g = "open" /\ (g2 = "open" \/ (g2 = "closed" /\ HasEnd(f2)))
      /\ \E i \in DOMAIN log[t] :
           /\ log[t][i].seq > IF f = <<>> THEN 0 ELSE f[Len(f)].seq
           /\ f2 = Append(f, log[t][i])
      => PeerFeed(s, t)!Send
  BY <1>1, FeedVocabulary DEF PeerFeed!Send, PeerFeed!LastSeq, PeerFeed!Ended, HasEnd, IsEnd
<1> QED  BY <1>2, <1>3, <1>4, <1>5, <1>6

\* A move of the stream is a step of the feed, or leaves it alone.
LEMMA FeedMoves ==
  ASSUME StreamInv, NEW s \in Subscribers, NEW t \in Tasks, Moves(s) \/ Stays(s) \/ Breaks(s),
         log'[t] = log[t]
  PROVE  [PeerFeed(s, t)!FeedNext]_(PeerFeed(s, t)!feedVars)
<1> DEFINE f == FramesFrom(reader[s], t)
           g == FeedFrom(reader[s], t)
           f2 == FramesFrom(reader'[s], t)
           g2 == FeedFrom(reader'[s], t)
<1>1. /\ PhaseFits(s) /\ FramesFit(s) /\ EndFits(s) /\ LogInv /\ Before(s)
  BY InvIsBefore DEF StreamInv, StreamFits
<1>2. \A e : IsCommitted(e, t) =>
        e \in Event /\ \E i \in DOMAIN log[t] : log[t][i] = e
  BY <1>1, CommittedNumber DEF IsCommitted
<1>3. /\ f2 = f /\ g2 = g => UNCHANGED PeerFeed(s, t)!feedVars
      /\ f2 = f /\ g = "idle" /\ g2 = "open" => PeerFeed(s, t)!Open
      /\ f2 = f /\ g = "open" /\ g2 = "cut" => PeerFeed(s, t)!Cut
      /\ f2 = f /\ g = "open" /\ g2 = "closed" /\ HasEnd(f) => PeerFeed(s, t)!Close
      /\ /\ g = "open" /\ (g2 = "open" \/ (g2 = "closed" /\ HasEnd(f2)))
         /\ \E i \in DOMAIN log[t] :
              /\ log[t][i].seq > IF f = <<>> THEN 0 ELSE f[Len(f)].seq
              /\ f2 = Append(f, log[t][i])
         => PeerFeed(s, t)!Send
  BY FeedSteps
<1> DEFINE Same == f2 = f /\ g2 = g
           Opens == f2 = f /\ g = "idle" /\ g2 = "open"
           Cuts == f2 = f /\ g = "open" /\ g2 = "cut"
           Closes == f2 = f /\ g = "open" /\ g2 = "closed" /\ HasEnd(f)
           Carries == /\ g = "open" /\ (g2 = "open" \/ (g2 = "closed" /\ HasEnd(f2)))
                      /\ \E i \in DOMAIN log[t] :
                           /\ log[t][i].seq > IF f = <<>> THEN 0 ELSE f[Len(f)].seq
                           /\ f2 = Append(f, log[t][i])
<1>4. Same \/ Opens \/ Cuts \/ Closes \/ Carries
      => [PeerFeed(s, t)!FeedNext]_(PeerFeed(s, t)!feedVars)
  BY <1>3 DEF PeerFeed!FeedNext
<1>5. ASSUME Loads(s) \/ Serves(s) PROVE Same
  <2>1. reader[s].mode # "peer" /\ reader'[s].mode # "peer"
    BY <1>1, <1>5 DEF Loads, Serves, PhaseFits, None
  <2> QED  BY <2>1 DEF FramesFrom, FeedFrom
<1>6. ASSUME Listens(s) PROVE Same \/ Opens
  <2>1. /\ reader[s].mode # "peer" /\ reader'[s].mode = "peer" /\ reader'[s].sent = <<>>
        /\ reader'[s].at = "subscribed"
    BY <1>1, <1>6 DEF Listens, PhaseFits, With, None
  <2> QED  BY <2>1 DEF FramesFrom, FeedFrom
<1>7. ASSUME Lists(s) \/ Skips(s) PROVE Same
  <2>1. /\ reader'[s].mode = reader[s].mode /\ reader'[s].sent = reader[s].sent
        /\ reader'[s].task = reader[s].task
        /\ reader[s].at \in Listening /\ reader'[s].at \in Listening
    BY <1>7 DEF Lists, Skips, With, Listening
  <2> QED  BY <2>1 DEF FramesFrom, FeedFrom, Listening
<1>8. ASSUME Leaves(s) \/ Breaks(s) PROVE Same \/ Cuts
  <2>1. /\ reader'[s].mode = reader[s].mode /\ reader'[s].sent = reader[s].sent
        /\ reader'[s].task = reader[s].task
        /\ \/ reader'[s].at = reader[s].at
           \/ reader[s].at \notin Over /\ reader'[s].at = "left"
    BY <1>8 DEF Leaves, Breaks, With
  <2> QED  BY <2>1 DEF FramesFrom, FeedFrom, Over
<1>9. ASSUME Stays(s) PROVE Same
  BY <1>9 DEF Stays
<1>10. ASSUME Finishes(s) PROVE Same \/ Closes
  <2>1. /\ reader'[s].mode = reader[s].mode /\ reader'[s].sent = reader[s].sent
        /\ reader'[s].task = reader[s].task /\ reader[s].at \in Listening
        /\ reader'[s].at = "closed" /\ HasEnd(reader[s].sent)
    BY <1>1, <1>10 DEF Finishes, With, EndFits, Listening
  <2> QED  BY <2>1 DEF FramesFrom, FeedFrom, Listening
<1>11. ASSUME Replays(s) \/ Sends(s) PROVE Same \/ Carries
  <2>1. PICK e : /\ reader[s].task = t => IsCommitted(e, t)
                 /\ e.seq > reader[s].last /\ reader'[s].sent = Append(reader[s].sent, e)
                 /\ \/ reader'[s].at = "replay"
                    \/ (reader'[s].at = "closed" /\ IsEnd(e) /\ e \in Event)
                 /\ reader[s].at = "replay" /\ reader'[s].task = reader[s].task
                 /\ reader'[s].mode = reader[s].mode
    <3>1. CASE Replays(s)
      <4>1. PICK e : e = Head(reader[s].rest)
        OBVIOUS
      <4>2. e.seq > reader[s].last
        BY <1>1, <3>1, <4>1, ReplayFrame DEF Replays
      <4>3. reader[s].task = t => IsCommitted(e, t)
        BY <3>1, <4>1, HeadIsCommitted DEF Replays, Listening
      <4>4. /\ reader'[s].sent = Append(reader[s].sent, e)
            /\ reader'[s].at = "replay" /\ reader[s].at = "replay"
            /\ reader'[s].task = reader[s].task /\ reader'[s].mode = reader[s].mode
        BY <3>1, <4>1 DEF Replays, With
      <4> QED  BY <4>2, <4>3, <4>4
    <3>2. CASE Sends(s)
      <4>1. PICK e \in Event :
              /\ reader[s].at = "replay" /\ Takes(s, e)
              /\ e.seq > reader[s].last /\ reader'[s].sent = Append(reader[s].sent, e)
              /\ reader'[s].at = IF IsEnd(e) THEN "closed" ELSE "replay"
              /\ reader'[s].task = reader[s].task /\ reader'[s].mode = reader[s].mode
        BY <3>2 DEF Sends, With
      <4>2. reader[s].task = t => IsCommitted(e, t)
        BY <4>1, HeadIsCommitted DEF Takes, Listening
      <4>3. reader'[s].at = "replay" \/ (reader'[s].at = "closed" /\ IsEnd(e))
        BY <4>1
      <4> QED  BY <4>1, <4>2, <4>3
    <3> QED  BY <1>11, <3>1, <3>2
  <2>2. reader[s].mode = "peer" /\ reader[s].sent \in Seq(Event)
    BY <1>1, <2>1, BeforeTyped DEF PhaseFits, Listening
  <2>3. CASE reader[s].task # t
    BY <2>1, <2>3 DEF FramesFrom, FeedFrom
  <2>4. CASE reader[s].task = t
    <3>1. f = reader[s].sent /\ f2 = Append(f, e) /\ g = "open"
      BY <2>1, <2>2, <2>4 DEF FramesFrom, FeedFrom
    <3>2. PICK i \in DOMAIN log[t] : log[t][i] = e
      BY <1>2, <2>1, <2>4
    <3>3. reader[s].last = IF f = <<>> THEN 0 ELSE f[Len(f)].seq
      BY <1>1, <2>1, <3>1 DEF FramesFit, Listening
    <3>4. g2 = "open" \/ (g2 = "closed" /\ HasEnd(f2))
      <4>1. CASE reader'[s].at = "replay"
        BY <2>1, <2>2, <2>4, <4>1 DEF FeedFrom
      <4>2. CASE reader'[s].at = "closed" /\ IsEnd(e) /\ e \in Event
        <5>1. HasEnd(f2)
          BY <2>2, <3>1, <4>2, EndAppend
        <5> QED  BY <2>1, <2>2, <2>4, <4>2, <5>1 DEF FeedFrom
      <4> QED  BY <2>1, <4>1, <4>2
    <3> HIDE DEF f, f2, g, g2
    <3> QED  BY <2>1, <3>1, <3>2, <3>3, <3>4
  <2> QED  BY <2>3, <2>4
<1> HIDE DEF Same, Opens, Cuts, Closes, Carries
<1> QED  BY <1>4, <1>5, <1>6, <1>7, <1>8, <1>9, <1>10, <1>11 DEF Moves

\* Only the insert changes a log, and the streams do not move meanwhile.
LEMMA LogGrowsAlone ==
  ASSUME StreamInv, [StreamNext]_streamVars, log' # log
  PROVE  \E w \in Writers : Insert(w) /\ reader' = reader
<1>1. ASSUME NEW s \in Subscribers,
             ReaderStep(s) \/ Leave(s) \/ \E t \in Tasks : ClientLoad(s, t) \/ PeerSubscribe(s, t)
      PROVE  log' = log
  <2>1. Moves(s)
    BY <1>1, HandlerMoves
  <2>2. Only(s)
    BY <2>1 DEF Moves, Loads, Serves, Leaves, Listens, Lists, Replays, Finishes, Skips, Sends
  <2> QED  BY <2>2 DEF Only, dbVars
<1>2. ASSUME NEW w \in Writers, GoesOn(w)
      PROVE  Insert(w) \/ log' = log
  BY <1>2 DEF GoesOn, InsertConflict, UpdateTurn, Publish, ContextCancelled
<1>3. ASSUME NEW w \in Writers, Append1(w) PROVE log' = log
  BY <1>3 DEF Append1
<1>4. ASSUME NEW t \in Tasks, InsertTask(t) PROVE log' = log
  BY <1>4 DEF InsertTask
<1>5. StreamCrash => log' = log
  BY DEF StreamCrash, Crash
<1>6. UNCHANGED streamVars => log' = log
  BY DEF streamVars, logVars, dbVars
<1> QED  BY <1>1, <1>2, <1>3, <1>4, <1>5, <1>6 DEF StreamNext

\* The insert is the growth of one task's history.
LEMMA FeedGrows ==
  ASSUME StreamInv, NEW w \in Writers, Insert(w), reader' = reader,
         NEW s \in Subscribers, NEW t \in Tasks, log'[t] # log[t]
  PROVE  PeerFeed(s, t)!Grow
<1>1. LogInv /\ TypeOK
  BY DEF StreamInv, LogInv
<1>2. /\ call[w].task \in Tasks /\ call[w].event \in Event
      /\ call[w].event.seq = Len(log[call[w].task]) + 1
      /\ log' = [log EXCEPT ![call[w].task] = Append(log[call[w].task], call[w].event)]
  BY <1>1, InsertIsNext DEF LogInv
<1>3. PICK e \in Event : e = call[w].event
  BY <1>2
<1>4. t = call[w].task /\ log'[t] = Append(log[t], e) /\ e.seq = Len(log[t]) + 1
  BY <1>1, <1>2, <1>3 DEF TypeOK
<1>5. /\ e.kind \in Kinds /\ e.state \in Statuses
      /\ e = [seq |-> Len(log[t]) + 1, kind |-> e.kind, state |-> e.state]
  BY <1>4 DEF Event
<1>6. FramesFrom(reader'[s], t) = FramesFrom(reader[s], t)
      /\ FeedFrom(reader'[s], t) = FeedFrom(reader[s], t)
  OBVIOUS
<1>7. UNCHANGED <<IF reader[s].mode = "peer" /\ reader[s].task = t THEN reader[s].sent ELSE <<>>,
                  IF reader[s].task = t THEN FeedOf(s) ELSE "idle">>
  BY <1>6, FeedIs DEF FramesFrom
<1> QED  BY <1>4, <1>5, <1>7, FeedVocabulary DEF PeerFeed!Grow

\* Every step is a step of the feed, or leaves it alone.
LEMMA FeedStep ==
  ASSUME StreamInv, [StreamNext]_streamVars, NEW s \in Subscribers, NEW t \in Tasks
  PROVE  [PeerFeed(s, t)!FeedNext]_(PeerFeed(s, t)!feedVars)
<1>1. CASE log'[t] = log[t]
  BY <1>1, StepOfStream, FeedMoves
<1>2. CASE log'[t] # log[t]
  <2>1. PICK w \in Writers : Insert(w) /\ reader' = reader
    BY <1>2, LogGrowsAlone
  <2> QED  BY <1>2, <2>1, FeedGrows DEF PeerFeed!FeedNext
<1> QED  BY <1>1, <1>2

\* Nothing has happened on the feed of a stream that has not begun.
LEMMA FeedStart ==
  ASSUME StreamInit, NEW s \in Subscribers, NEW t \in Tasks
  PROVE  PeerFeed(s, t)!FeedInit
<1>1. reader[s].mode # "peer" /\ log[t] = <<>>
  BY DEF StreamInit, LogInit, None
<1>2. (IF reader[s].task = t THEN FeedOf(s) ELSE "idle") = "idle"
  BY <1>1, FeedIs DEF FeedFrom
<1> QED  BY <1>1, <1>2 DEF PeerFeed!FeedInit

(***************************************************************************)
(* A peer stream keeps the promise of FrameFeed, the one Relay builds on:  *)
(* only committed events, rising numbers, and no end of its own accord     *)
(* before a terminal event; for every stream and every task at once.       *)
(***************************************************************************)
THEOREM StreamsFeedPeers == StreamSpec => PeersAreFed
<1> DEFINE Fed == \A s \in Subscribers, t \in Tasks :
                    [PeerFeed(s, t)!FeedNext]_(PeerFeed(s, t)!feedVars)
<1>1. StreamInit => \A s \in Subscribers, t \in Tasks : PeerFeed(s, t)!FeedInit
  BY FeedStart
<1>2. StreamInv /\ [StreamNext]_streamVars => [Fed]_streamVars
  BY FeedStep
<1> HIDE DEF Fed
<1>3. StreamSpec => [][Fed]_streamVars
  BY <1>2, StreamInvariant, PTL DEF StreamSpec
<1>4. StreamSpec => \A s \in Subscribers, t \in Tasks : PeerFeed(s, t)!FeedInit
  BY <1>1, PTL DEF StreamSpec
<1> QED  BY <1>3, <1>4, PTL DEF PeersAreFed, Fed
=============================================================================
