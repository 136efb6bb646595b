--------------------------- MODULE TaskLogProofs ---------------------------
(***************************************************************************)
(* The promises of TaskLog hold for any number of tasks, requests and      *)
(* subscribers, any capacity of the channels and any appends, under every  *)
(* interleaving, every disconnect and every crash.                         *)
(***************************************************************************)
EXTENDS TaskLog, TLAPS

(***************************************************************************)
(* The number NextSeq reads is one more than the length of the log.        *)
(***************************************************************************)
LEMMA NextSeqIsNext ==
  ASSUME TypeOK, SeqContiguous, NEW t \in Tasks
  PROVE  NextSeq(t) = Len(log[t]) + 1
<1> DEFINE n == Len(log[t])
           S == {0} \cup {log[t][i].seq : i \in DOMAIN log[t]}
<1>1. n \in Nat /\ DOMAIN log[t] = 1..n
  BY DEF TypeOK
<1>2. S = 0..n
  BY <1>1 DEF SeqContiguous
<1> HIDE DEF n, S
<1>3. Max(S) = n
  <2>1. n \in S /\ \A y \in S : n >= y
    BY <1>1, <1>2
  <2>2. \A x \in S : (\A y \in S : x >= y) => x = n
    BY <1>1, <1>2
  <2> QED  BY <2>1, <2>2 DEF Max
<1> QED  BY <1>1, <1>3 DEF NextSeq, n, S

(***************************************************************************)
(* An activation that is under way is a complete record, not one that has  *)
(* returned.                                                               *)
(***************************************************************************)
LEMMA CallIsCalling ==
  ASSUME TypeOK, NEW w \in Writers, call[w].step \notin {"ok", "err"}
  PROVE  /\ call[w] \in Calling
         /\ call[w].task \in Tasks
         /\ call[w].event \in Event
         /\ call[w].handle \in Bindings
         /\ call[w].event.seq \in Nat \ {0}
         /\ call[w].event.state \in Statuses
         /\ call[w].event.kind \in Kinds
<1>1. call[w] \in Calling \cup Returned
  BY DEF TypeOK
<1>2. call[w] \in Calling
  BY <1>1 DEF Returned
<1> QED  BY <1>2 DEF Calling, Event

(***************************************************************************)
(* Moving an activation to its next step leaves it well typed.             *)
(***************************************************************************)
LEMMA CallMoves ==
  ASSUME TypeOK, NEW w \in Writers, call[w].step \notin {"ok", "err"},
         NEW s \in {"insert", "turn", "publish"},
         call' = [call EXCEPT ![w].step = s]
  PROVE  call' \in [Writers -> Calling \cup Returned]
<1>1. call[w] \in Calling
  BY CallIsCalling
<1>2. [call[w] EXCEPT !.step = s] \in Calling
  BY <1>1 DEF Calling
<1>3. call' = [call EXCEPT ![w] = [call[w] EXCEPT !.step = s]]
  BY DEF TypeOK
<1> QED  BY <1>2, <1>3 DEF TypeOK

(***************************************************************************)
(* An activation that returns leaves the others well typed.                *)
(***************************************************************************)
LEMMA CallReturns ==
  ASSUME TypeOK, NEW w \in Writers, NEW s \in {"ok", "err"},
         call' = [call EXCEPT ![w] = [step |-> s]]
  PROVE  call' \in [Writers -> Calling \cup Returned]
<1>1. [step |-> s] \in Returned
  BY DEF Returned
<1> QED  BY <1>1 DEF TypeOK

(***************************************************************************)
(* Starting an append keeps the types: the number NextSeq reads is a       *)
(* positive number.                                                        *)
(***************************************************************************)
LEMMA AppendTypes ==
  ASSUME TypeOK, SeqContiguous, NEW w \in Writers, Append1(w)
  PROVE  TypeOK'
<1>1. PICK t \in Tasks, in \in Inputs :
         /\ BeginAppend(w, t, in.kind, in.state, in.handle)
         /\ UNCHANGED <<status, remote, log, turn, sub>>
  BY DEF Append1
<1>2. in.kind \in Kinds /\ in.state \in Statuses /\ in.handle \in Bindings
  BY LogAssumption DEF AppendArgs
<1>3. NextSeq(t) \in Nat \ {0}
  BY NextSeqIsNext DEF TypeOK
<1> DEFINE e == [seq |-> NextSeq(t), kind |-> in.kind, state |-> in.state]
           c == [step |-> "insert", task |-> t, handle |-> in.handle, event |-> e]
<1>4. e \in Event
  BY <1>2, <1>3 DEF Event
<1>5. c \in Calling
  BY <1>2, <1>4 DEF Calling
<1>6. call' = [call EXCEPT ![w] = c]
  BY <1>1 DEF BeginAppend
<1>7. call' \in [Writers -> Calling \cup Returned]
  BY <1>5, <1>6 DEF TypeOK
<1> QED  BY <1>1, <1>7 DEF TypeOK

(***************************************************************************)
(* The insert keeps the types.                                             *)
(***************************************************************************)
LEMMA InsertTypes ==
  ASSUME TypeOK, NEW w \in Writers, Insert(w)
  PROVE  TypeOK'
<1> DEFINE c == call[w]
<1>1. /\ c.task \in Tasks /\ c.event \in Event
      /\ c.handle \in Bindings /\ c.event.state \in Statuses
  BY CallIsCalling DEF Insert
<1>2. status' \in [Tasks -> Statuses \cup {None}]
  BY <1>1 DEF TypeOK, Insert
<1>3. remote' \in [Tasks -> Bindings]
  BY <1>1 DEF TypeOK, Insert, Coalesce
<1>4. log' \in [Tasks -> Seq(Event)]
  <2>1. Append(log[c.task], c.event) \in Seq(Event)
    BY <1>1 DEF TypeOK
  <2> QED  BY <2>1 DEF TypeOK, Insert
<1>5. call' \in [Writers -> Calling \cup Returned]
  BY CallMoves DEF Insert
<1> QED  BY <1>2, <1>3, <1>4, <1>5 DEF TypeOK, Insert

(***************************************************************************)
(* The fan-out keeps the types, and no channel outgrows its capacity.      *)
(***************************************************************************)
LEMMA PublishTypes ==
  ASSUME TypeOK, NEW w \in Writers, Publish(w)
  PROVE  TypeOK'
<1> DEFINE c == call[w]
           Entry == [task : Tasks \cup {None}, chan : Seq(Event)]
<1>1. c.task \in Tasks /\ c.event \in Event
  BY CallIsCalling DEF Publish
<1>2. ASSUME NEW s \in Subscribers
      PROVE  /\ Offer(sub[s], c.task, c.event) \in Entry
             /\ Len(Offer(sub[s], c.task, c.event).chan) <= ChanCap
  <2>1. sub[s] \in Entry /\ Len(sub[s].chan) <= ChanCap
    BY DEF TypeOK
  <2>2. CASE sub[s].task = c.task /\ Len(sub[s].chan) < ChanCap
    <3>1. Offer(sub[s], c.task, c.event) =
            [task |-> sub[s].task, chan |-> Append(sub[s].chan, c.event)]
      BY <2>1, <2>2 DEF Offer
    <3>2. /\ Append(sub[s].chan, c.event) \in Seq(Event)
          /\ Len(Append(sub[s].chan, c.event)) = Len(sub[s].chan) + 1
      BY <1>1, <2>1
    <3> QED  BY <2>1, <2>2, <3>1, <3>2, LogAssumption
  <2>3. CASE ~(sub[s].task = c.task /\ Len(sub[s].chan) < ChanCap)
    BY <2>1, <2>3 DEF Offer
  <2> QED  BY <2>2, <2>3
<1>3. sub' \in [Subscribers -> Entry] /\ \A s \in Subscribers : Len(sub'[s].chan) <= ChanCap
  BY <1>2 DEF Publish
<1>4. call' \in [Writers -> Calling \cup Returned]
  BY CallReturns DEF Publish
<1> QED  BY <1>3, <1>4 DEF TypeOK, Publish

(***************************************************************************)
(* Subscribing, receiving and leaving keep the types.                      *)
(***************************************************************************)
LEMMA SubscriberTypes ==
  ASSUME TypeOK, NEW s \in Subscribers,
         Receive(s) \/ Unsubscribe(s) \/ \E t \in Tasks : Subscribe(s, t)
  PROVE  TypeOK'
<1> DEFINE Entry == [task : Tasks \cup {None}, chan : Seq(Event)]
<1>1. sub[s] \in Entry /\ Len(sub[s].chan) <= ChanCap /\ sub \in [Subscribers -> Entry]
  BY DEF TypeOK
<1>2. PICK e \in Entry : sub' = [sub EXCEPT ![s] = e] /\ Len(e.chan) <= ChanCap
  <2>1. CASE Receive(s)
    <3> DEFINE e == [sub[s] EXCEPT !.chan = Tail(@)]
    <3>1. /\ Tail(sub[s].chan) \in Seq(Event)
          /\ Len(Tail(sub[s].chan)) = Len(sub[s].chan) - 1
      BY <1>1, <2>1 DEF Receive
    <3>2. e \in Entry /\ e.chan = Tail(sub[s].chan)
      BY <1>1, <3>1
    <3>3. sub' = [sub EXCEPT ![s] = e]
      BY <1>1, <2>1 DEF Receive
    <3>4. Len(e.chan) <= ChanCap
      BY <1>1, <3>1, <3>2, LogAssumption
    <3> HIDE DEF e
    <3> QED  BY <3>2, <3>3, <3>4
  <2>2. CASE Unsubscribe(s)
    <3>1. Free \in Entry /\ Len(Free.chan) <= ChanCap
      BY LogAssumption DEF Free
    <3>2. sub' = [sub EXCEPT ![s] = Free]
      BY <2>2 DEF Unsubscribe
    <3> HIDE DEF Entry
    <3> QED  BY <3>1, <3>2
  <2>3. ASSUME NEW t \in Tasks, Subscribe(s, t)
        PROVE  \E e \in Entry : sub' = [sub EXCEPT ![s] = e] /\ Len(e.chan) <= ChanCap
    <3> DEFINE e == [sub[s] EXCEPT !.task = t]
    <3>1. e \in Entry /\ e.chan = sub[s].chan
      BY <1>1
    <3>2. sub' = [sub EXCEPT ![s] = e]
      BY <1>1, <2>3 DEF Subscribe
    <3> HIDE DEF e
    <3> QED  BY <1>1, <3>1, <3>2
  <2> QED  BY <2>1, <2>2, <2>3
<1>3. UNCHANGED <<status, remote, log, turn, call>>
  BY DEF Receive, Unsubscribe, Subscribe
<1> QED  BY <1>1, <1>2, <1>3 DEF TypeOK

(***************************************************************************)
(* A crash keeps the types.                                                *)
(***************************************************************************)
LEMMA CrashTypes ==
  ASSUME TypeOK, Crash
  PROVE  TypeOK'
<1>1. [step |-> "err"] \in Returned
  BY DEF Returned
<1>2. Free \in [task : Tasks \cup {None}, chan : Seq(Event)] /\ Len(Free.chan) = 0
  BY DEF Free
<1> QED  BY <1>1, <1>2, LogAssumption DEF TypeOK, Crash

(***************************************************************************)
(* Every step of the log keeps the types.                                  *)
(***************************************************************************)
LEMMA TypeStep ==
  ASSUME TypeOK, SeqContiguous, [LogNext]_logVars
  PROVE  TypeOK'
<1>1. ASSUME NEW t \in Tasks, InsertTask(t)
      PROVE  TypeOK'
  BY <1>1 DEF InsertTask, TypeOK, Statuses
<1>2. ASSUME NEW t \in Tasks, AppendTaskToThread(t)
      PROVE  TypeOK'
  BY <1>2 DEF AppendTaskToThread, TypeOK, Statuses
<1>3. ASSUME NEW w \in Writers, Append1(w)
      PROVE  TypeOK'
  BY <1>3, AppendTypes
<1>4. ASSUME NEW w \in Writers, Insert(w)
      PROVE  TypeOK'
  BY <1>4, InsertTypes
<1>5. ASSUME NEW w \in Writers, InsertConflict(w) \/ ContextCancelled(w)
      PROVE  TypeOK'
  <2>1. call' \in [Writers -> Calling \cup Returned]
    BY <1>5, CallReturns DEF InsertConflict, ContextCancelled
  <2> QED  BY <1>5, <2>1 DEF TypeOK, InsertConflict, ContextCancelled
<1>6. ASSUME NEW w \in Writers, UpdateTurn(w)
      PROVE  TypeOK'
  <2>1. call[w].event.state \in Statuses
    BY <1>6, CallIsCalling DEF UpdateTurn
  <2>2. call' \in [Writers -> Calling \cup Returned]
    BY <1>6, CallMoves DEF UpdateTurn
  <2> QED  BY <1>6, <2>1, <2>2 DEF TypeOK, UpdateTurn
<1>7. ASSUME NEW w \in Writers, Publish(w)
      PROVE  TypeOK'
  BY <1>7, PublishTypes
<1>8. ASSUME NEW s \in Subscribers,
             Receive(s) \/ Unsubscribe(s) \/ \E t \in Tasks : Subscribe(s, t)
      PROVE  TypeOK'
  BY <1>8, SubscriberTypes
<1>9. CASE Crash
  BY <1>9, CrashTypes
<1>10. CASE UNCHANGED logVars
  BY <1>10 DEF logVars, TypeOK
<1> QED
  BY <1>1, <1>2, <1>3, <1>4, <1>5, <1>6, <1>7, <1>8, <1>9, <1>10 DEF LogNext, AppendStep

-----------------------------------------------------------------------------
(***************************************************************************)
(* The insert of an append puts its event at the end: the number was read  *)
(* no later than the log reached it, and it is not taken.                  *)
(***************************************************************************)
LEMMA InsertIsNext ==
  ASSUME TypeOK, SeqContiguous, CallMatchesLog, NEW w \in Writers, Insert(w)
  PROVE  LET t == call[w].task
             e == call[w].event
         IN /\ t \in Tasks /\ e \in Event
            /\ e.seq = Len(log[t]) + 1
            /\ status[t] # None
            /\ log' = [log EXCEPT ![t] = Append(log[t], e)]
            /\ DOMAIN log'[t] = 1..(Len(log[t]) + 1)
            /\ Len(log'[t]) = Len(log[t]) + 1
            /\ log'[t][Len(log[t]) + 1] = e
            /\ \A i \in DOMAIN log[t] : i \in DOMAIN log'[t] /\ log'[t][i] = log[t][i]
<1> DEFINE t == call[w].task
           e == call[w].event
<1>1. t \in Tasks /\ e \in Event /\ e.seq \in Nat \ {0}
  BY CallIsCalling DEF Insert
<1>2. log[t] \in Seq(Event) /\ Len(log[t]) \in Nat /\ DOMAIN log[t] = 1..Len(log[t])
  BY <1>1 DEF TypeOK
<1>3. status[t] # None /\ e.seq \in 1..(Len(log[t]) + 1)
  BY DEF Insert, CallMatchesLog
<1>4. e.seq \notin 1..Len(log[t])
  BY <1>1, <1>2 DEF Insert, SeqTaken, SeqContiguous
<1>5. log' = [log EXCEPT ![t] = Append(log[t], e)] /\ log'[t] = Append(log[t], e)
  BY <1>1 DEF Insert, TypeOK
<1>6. /\ Len(Append(log[t], e)) = Len(log[t]) + 1
      /\ DOMAIN Append(log[t], e) = 1..(Len(log[t]) + 1)
      /\ Append(log[t], e)[Len(log[t]) + 1] = e
      /\ \A i \in 1..Len(log[t]) : Append(log[t], e)[i] = log[t][i]
  BY <1>1, <1>2
<1> HIDE DEF t, e
<1>7. /\ e.seq = Len(log[t]) + 1
      /\ \A i \in DOMAIN log[t] : i \in DOMAIN log'[t] /\ log'[t][i] = log[t][i]
  BY <1>1, <1>2, <1>3, <1>4, <1>5, <1>6
<1>8. /\ DOMAIN log'[t] = 1..(Len(log[t]) + 1) /\ Len(log'[t]) = Len(log[t]) + 1
      /\ log'[t][Len(log[t]) + 1] = e
  BY <1>5, <1>6
<1> QED  BY <1>1, <1>3, <1>5, <1>7, <1>8 DEF t, e

(***************************************************************************)
(* Only Insert changes a log, and only to extend it.                       *)
(***************************************************************************)
LEMMA LogOnlyByInsert ==
  ASSUME [LogNext]_logVars
  PROVE  log' = log \/ \E w \in Writers : Insert(w)
BY DEF LogNext, logVars, InsertTask, AppendTaskToThread, Append1, BeginAppend, AppendStep,
       InsertConflict, UpdateTurn, Publish, ContextCancelled, Receive, Unsubscribe,
       Subscribe, Crash

(***************************************************************************)
(* An event once in a log stays where it is.                               *)
(***************************************************************************)
LEMMA LogGrows ==
  ASSUME TypeOK, SeqContiguous, CallMatchesLog, [LogNext]_logVars, NEW t \in Tasks
  PROVE  /\ Len(log[t]) <= Len(log'[t])
         /\ \A i \in DOMAIN log[t] : i \in DOMAIN log'[t] /\ log'[t][i] = log[t][i]
<1>1. log[t] \in Seq(Event) /\ Len(log[t]) \in Nat
  BY DEF TypeOK
<1>2. CASE log' = log
  BY <1>1, <1>2
<1>3. ASSUME NEW w \in Writers, Insert(w)
      PROVE  /\ Len(log[t]) <= Len(log'[t])
             /\ \A i \in DOMAIN log[t] : i \in DOMAIN log'[t] /\ log'[t][i] = log[t][i]
  <2>1. CASE t = call[w].task
    BY <1>1, <1>3, <2>1, InsertIsNext
  <2>2. CASE t # call[w].task
    <3>1. log'[t] = log[t]
      BY <1>3, <2>2 DEF Insert, TypeOK
    <3> QED  BY <1>1, <3>1
  <2> QED  BY <2>1, <2>2
<1> QED  BY <1>2, <1>3, LogOnlyByInsert

(***************************************************************************)
(* Every step keeps the numbers of a log contiguous.                       *)
(***************************************************************************)
LEMMA SeqStep ==
  ASSUME TypeOK, SeqContiguous, CallMatchesLog, [LogNext]_logVars
  PROVE  SeqContiguous'
<1>1. CASE log' = log
  BY <1>1 DEF SeqContiguous
<1>2. ASSUME NEW w \in Writers, Insert(w)
      PROVE  SeqContiguous'
  <2> SUFFICES ASSUME NEW t \in Tasks, NEW i \in DOMAIN log'[t]
               PROVE  log'[t][i].seq = i
    BY DEF SeqContiguous
  <2>1. CASE t # call[w].task
    <3>1. log'[t] = log[t]
      BY <1>2, <2>1 DEF Insert, TypeOK
    <3> QED  BY <3>1 DEF SeqContiguous
  <2>2. CASE t = call[w].task
    <3>1. /\ DOMAIN log'[t] = 1..(Len(log[t]) + 1)
          /\ log'[t][Len(log[t]) + 1].seq = Len(log[t]) + 1
          /\ \A j \in DOMAIN log[t] : log'[t][j] = log[t][j]
      BY <1>2, <2>2, InsertIsNext
    <3>2. Len(log[t]) \in Nat /\ DOMAIN log[t] = 1..Len(log[t])
      BY DEF TypeOK
    <3>3. i = Len(log[t]) + 1 \/ i \in DOMAIN log[t]
      BY <3>1, <3>2
    <3> QED  BY <3>1, <3>3 DEF SeqContiguous
  <2> QED  BY <2>1, <2>2
<1> QED  BY <1>1, <1>2, LogOnlyByInsert

(***************************************************************************)
(* Rows are never deleted.                                                 *)
(***************************************************************************)
LEMMA RowStays ==
  ASSUME TypeOK, [LogNext]_logVars, NEW t \in Tasks, status[t] # None
  PROVE  status'[t] # None
<1>1. CASE status' = status
  BY <1>1
<1>2. ASSUME NEW u \in Tasks, InsertTask(u)
      PROVE  status'[t] # None
  BY <1>2 DEF InsertTask, TypeOK, None
<1>3. ASSUME NEW w \in Writers, Insert(w)
      PROVE  status'[t] # None
  <2>1. call[w].event.state # None
    BY <1>3, CallIsCalling DEF Insert, Statuses, Terminal, None
  <2> QED  BY <1>3, <2>1 DEF Insert, TypeOK
<1> QED
  BY <1>1, <1>2, <1>3 DEF LogNext, logVars, AppendTaskToThread, Append1, BeginAppend,
     AppendStep, InsertConflict, UpdateTurn, Publish, ContextCancelled, Receive,
     Unsubscribe, Subscribe, Crash

\* What CallMatchesLog says of one writer.
Matches(w) ==
  LET c == call[w]
  IN /\ c.step = "insert" =>
          status[c.task] # None /\ c.event.seq \in 1..(Len(log[c.task]) + 1)
     /\ c.step \in {"turn", "publish"} =>
          /\ c.event.seq \in 1..Len(log[c.task])
          /\ log[c.task][c.event.seq] = c.event

(***************************************************************************)
(* A writer that does not move keeps matching the log, whatever the others *)
(* do.                                                                     *)
(***************************************************************************)
LEMMA OthersMatch ==
  ASSUME TypeOK, SeqContiguous, CallMatchesLog, [LogNext]_logVars,
         NEW w \in Writers, call'[w] = call[w]
  PROVE  Matches(w)'
<1> DEFINE t == call[w].task
           e == call[w].event
<1>1. CASE call[w].step \in {"ok", "err"}
  BY <1>1 DEF Matches
<1>2. CASE call[w].step \notin {"ok", "err"}
  <2>1. t \in Tasks /\ e.seq \in Nat
    BY <1>2, CallIsCalling
  <2>2. Len(log[t]) \in Nat /\ DOMAIN log[t] = 1..Len(log[t])
    BY <2>1 DEF TypeOK
  <2>3. /\ Len(log[t]) <= Len(log'[t])
        /\ \A i \in DOMAIN log[t] : i \in DOMAIN log'[t] /\ log'[t][i] = log[t][i]
    BY <2>1, LogGrows
  <2>4. Len(log'[t]) \in Nat
    BY <2>1, TypeStep DEF TypeOK
  <2>5. CASE call[w].step = "insert"
    <3>1. status[t] # None /\ e.seq \in 1..(Len(log[t]) + 1)
      BY <2>5 DEF CallMatchesLog
    <3>2. status'[t] # None
      BY <2>1, <3>1, RowStays
    <3>3. e.seq \in 1..(Len(log'[t]) + 1)
      BY <2>1, <2>2, <2>3, <2>4, <3>1
    <3> QED  BY <2>5, <3>2, <3>3 DEF Matches
  <2>6. CASE call[w].step \in {"turn", "publish"}
    <3>1. e.seq \in 1..Len(log[t]) /\ log[t][e.seq] = e
      BY <2>6 DEF CallMatchesLog
    <3>2. e.seq \in 1..Len(log'[t]) /\ log'[t][e.seq] = e
      BY <2>1, <2>2, <2>3, <2>4, <3>1
    <3> QED  BY <2>6, <3>2 DEF Matches
  <2>7. call[w].step \in {"insert", "turn", "publish"}
    BY <1>2, CallIsCalling DEF Calling
  <2> QED  BY <2>5, <2>6, <2>7
<1> QED  BY <1>1, <1>2

(***************************************************************************)
(* Every step keeps the appends under way in line with the log.            *)
(***************************************************************************)
LEMMA CallStep ==
  ASSUME TypeOK, SeqContiguous, CallMatchesLog, [LogNext]_logVars
  PROVE  CallMatchesLog'
<1> SUFFICES ASSUME NEW w \in Writers
             PROVE  Matches(w)'
  BY DEF CallMatchesLog, Matches
<1>1. CASE call'[w] = call[w]
  BY <1>1, OthersMatch
<1>2. ASSUME Append1(w)
      PROVE  Matches(w)'
  <2>1. PICK t \in Tasks, in \in Inputs :
          /\ status[t] # None
          /\ BeginAppend(w, t, in.kind, in.state, in.handle)
          /\ UNCHANGED <<status, log>>
    BY <1>2 DEF Append1
  <2>2. /\ call'[w].step = "insert" /\ call'[w].task = t
        /\ call'[w].event.seq = NextSeq(t)
    BY <2>1 DEF BeginAppend, TypeOK
  <2>3. NextSeq(t) \in 1..(Len(log[t]) + 1)
    BY NextSeqIsNext DEF TypeOK
  <2> QED  BY <2>1, <2>2, <2>3 DEF Matches
<1>3. ASSUME Insert(w)
      PROVE  Matches(w)'
  <2> DEFINE t == call[w].task
             e == call[w].event
  <2>1. call'[w].step = "turn" /\ call'[w].task = t /\ call'[w].event = e
    BY <1>3 DEF Insert, TypeOK
  <2>2. /\ t \in Tasks /\ e.seq = Len(log[t]) + 1
        /\ Len(log'[t]) = Len(log[t]) + 1 /\ log'[t][Len(log[t]) + 1] = e
    BY <1>3, InsertIsNext
  <2>3. Len(log[t]) \in Nat
    BY <2>2 DEF TypeOK
  <2>4. e.seq \in 1..Len(log'[t]) /\ log'[t][e.seq] = e
    BY <2>2, <2>3
  <2> QED  BY <2>1, <2>4 DEF Matches
<1>4. ASSUME UpdateTurn(w)
      PROVE  Matches(w)'
  <2>1. /\ call'[w].step = "publish" /\ call'[w].task = call[w].task
        /\ call'[w].event = call[w].event /\ log' = log
    BY <1>4 DEF UpdateTurn, TypeOK
  <2>2. Matches(w) /\ call[w].step = "turn"
    BY <1>4 DEF CallMatchesLog, Matches, UpdateTurn
  <2> QED  BY <2>1, <2>2 DEF Matches
<1>5. ASSUME InsertConflict(w) \/ Publish(w) \/ ContextCancelled(w) \/ Crash
      PROVE  Matches(w)'
  <2>1. call'[w].step \in {"ok", "err"}
    BY <1>5 DEF InsertConflict, Publish, ContextCancelled, Crash, TypeOK
  <2> QED  BY <2>1 DEF Matches
<1>6. \/ call'[w] = call[w] \/ Append1(w) \/ Insert(w) \/ UpdateTurn(w)
      \/ InsertConflict(w) \/ Publish(w) \/ ContextCancelled(w) \/ Crash
  <2>1. ASSUME NEW v \in Writers, v # w, Append1(v) \/ AppendStep(v) \/ ContextCancelled(v)
        PROVE  call'[w] = call[w]
    BY <2>1 DEF Append1, BeginAppend, AppendStep, Insert, InsertConflict, UpdateTurn, Publish,
       ContextCancelled, TypeOK
  <2> QED
    BY <2>1 DEF LogNext, logVars, InsertTask, AppendTaskToThread, AppendStep, Receive,
       Unsubscribe, Subscribe
<1> QED  BY <1>1, <1>2, <1>3, <1>4, <1>5, <1>6

-----------------------------------------------------------------------------
(***************************************************************************)
(* Every step keeps the task row equal to the last event's state.          *)
(***************************************************************************)
LEMMA RowStep ==
  ASSUME TypeOK, SeqContiguous, CallMatchesLog, RowMatchesLog, [LogNext]_logVars
  PROVE  RowMatchesLog'
<1>1. CASE UNCHANGED <<status, log>>
  BY <1>1 DEF RowMatchesLog, LastState
<1>2. ASSUME NEW t \in Tasks, InsertTask(t)
      PROVE  RowMatchesLog'
  <2> SUFFICES ASSUME NEW u \in Tasks
               PROVE  IF status'[u] = None THEN log'[u] = <<>> ELSE status'[u] = LastState(u)'
    BY DEF RowMatchesLog
  <2>1. log' = log /\ log[t] = <<>> /\ status'[t] = "created"
    BY <1>2 DEF InsertTask, RowMatchesLog, TypeOK
  <2>2. CASE u = t
    BY <2>1, <2>2 DEF LastState, None
  <2>3. CASE u # t
    <3>1. status'[u] = status[u] /\ log'[u] = log[u]
      BY <1>2, <2>3 DEF InsertTask, TypeOK
    <3> QED  BY <3>1 DEF RowMatchesLog, LastState
  <2> QED  BY <2>2, <2>3
<1>3. ASSUME NEW w \in Writers, Insert(w)
      PROVE  RowMatchesLog'
  <2> SUFFICES ASSUME NEW u \in Tasks
               PROVE  IF status'[u] = None THEN log'[u] = <<>> ELSE status'[u] = LastState(u)'
    BY DEF RowMatchesLog
  <2>1. CASE u = call[w].task
    <3>1. /\ Len(log'[u]) = Len(log[u]) + 1
          /\ log'[u][Len(log[u]) + 1] = call[w].event
          /\ DOMAIN log'[u] = 1..(Len(log[u]) + 1)
      BY <1>3, <2>1, InsertIsNext
    <3>2. status'[u] = call[w].event.state
      BY <1>3, <2>1 DEF Insert, TypeOK
    <3>3. status'[u] # None
      BY <1>3, <3>2, CallIsCalling DEF Insert, Statuses, Terminal, None
    <3>4. log'[u] # <<>>
      BY <3>1 DEF TypeOK
    <3> QED  BY <3>1, <3>2, <3>3, <3>4 DEF LastState
  <2>2. CASE u # call[w].task
    <3>1. status'[u] = status[u] /\ log'[u] = log[u]
      BY <1>3, <2>2 DEF Insert, TypeOK
    <3> QED  BY <3>1 DEF RowMatchesLog, LastState
  <2> QED  BY <2>1, <2>2
<1> QED
  BY <1>1, <1>2, <1>3 DEF LogNext, logVars, AppendTaskToThread, Append1, BeginAppend,
     AppendStep, InsertConflict, UpdateTurn, Publish, ContextCancelled, Receive,
     Unsubscribe, Subscribe, Crash

(***************************************************************************)
(* Every step keeps a turn within the states its task was in.              *)
(***************************************************************************)
LEMMA TurnStep ==
  ASSUME TypeOK, SeqContiguous, CallMatchesLog, TurnEchoesLog, [LogNext]_logVars
  PROVE  TurnEchoesLog'
<1> DEFINE Seen(t) == {None, "created"} \cup {log[t][i].state : i \in DOMAIN log[t]}
<1>1. \A t \in Tasks : Seen(t) \subseteq Seen(t)'
  BY LogGrows
<1> SUFFICES ASSUME NEW t \in Tasks
             PROVE  turn'[t] \in Seen(t)'
  BY DEF TurnEchoesLog
<1>2. CASE turn'[t] = turn[t]
  BY <1>1, <1>2 DEF TurnEchoesLog
<1>3. ASSUME NEW u \in Tasks, AppendTaskToThread(u)
      PROVE  turn'[t] \in Seen(t)'
  BY <1>1, <1>3 DEF AppendTaskToThread, TypeOK, TurnEchoesLog
<1>4. ASSUME NEW w \in Writers, UpdateTurn(w)
      PROVE  turn'[t] \in Seen(t)'
  <2>1. CASE call[w].task = t
    <3> DEFINE e == call[w].event
    <3>1. log' = log /\ turn'[t] \in {None, e.state}
      BY <1>4, <2>1 DEF UpdateTurn, TypeOK
    <3>2. e.seq \in 1..Len(log[t]) /\ log[t][e.seq] = e
      BY <1>4, <2>1 DEF UpdateTurn, CallMatchesLog
    <3>3. e.seq \in DOMAIN log[t]
      BY <3>2 DEF TypeOK
    <3> QED  BY <3>1, <3>2, <3>3
  <2>2. CASE call[w].task # t
    <3>1. turn'[t] = turn[t]
      BY <1>4, <2>2 DEF UpdateTurn, TypeOK
    <3> QED  BY <1>2, <3>1
  <2> QED  BY <2>1, <2>2
<1> QED
  BY <1>2, <1>3, <1>4 DEF LogNext, logVars, InsertTask, Append1, BeginAppend, AppendStep,
     Insert, InsertConflict, Publish, ContextCancelled, Receive, Unsubscribe, Subscribe, Crash

\* A subscriber entry that is not in the table holds nothing.
FreeIsEmpty == \A s \in Subscribers : sub[s].task = None => sub[s].chan = <<>>

Held(s) ==
  /\ sub[s].task = None => sub[s].chan = <<>>
  /\ \A i \in DOMAIN sub[s].chan :
        \E j \in DOMAIN log[sub[s].task] : log[sub[s].task][j] = sub[s].chan[i]

(***************************************************************************)
(* A channel a step does not touch still carries committed events only.    *)
(***************************************************************************)
LEMMA OtherChannels ==
  ASSUME TypeOK, SeqContiguous, CallMatchesLog, [LogNext]_logVars,
         NEW s \in Subscribers, Held(s), sub'[s] = sub[s]
  PROVE  Held(s)'
<1>1. CASE sub[s].task = None
  BY <1>1 DEF Held
<1>2. CASE sub[s].task # None
  <2>1. sub[s].task \in Tasks
    BY <1>2 DEF TypeOK
  <2> QED  BY <1>2, <2>1, LogGrows DEF Held
<1> QED  BY <1>1, <1>2

(***************************************************************************)
(* Every step leaves only committed events in the channels.                *)
(***************************************************************************)
LEMMA FanOutStep ==
  ASSUME TypeOK, SeqContiguous, CallMatchesLog, FreeIsEmpty, FanOutIsCommitted,
         [LogNext]_logVars
  PROVE  FreeIsEmpty' /\ FanOutIsCommitted'
<1> SUFFICES ASSUME NEW s \in Subscribers
             PROVE  Held(s)'
  BY DEF FreeIsEmpty, FanOutIsCommitted, Held
<1>1. Held(s)
  BY DEF FreeIsEmpty, FanOutIsCommitted, Held
<1>2. sub[s].chan \in Seq(Event)
  BY DEF TypeOK
<1>3. CASE sub'[s] = sub[s]
  BY <1>1, <1>3, OtherChannels
<1>4. ASSUME NEW w \in Writers, Publish(w)
      PROVE  Held(s)'
  <2> DEFINE t == call[w].task
             e == call[w].event
  <2>1. sub'[s] = Offer(sub[s], t, e) /\ log' = log
    BY <1>4 DEF Publish
  <2>2. t \in Tasks /\ e \in Event
    BY <1>4, CallIsCalling DEF Publish
  <2>3. CASE ~(sub[s].task = t /\ Len(sub[s].chan) < ChanCap)
    BY <1>3, <2>1, <2>3 DEF Offer
  <2>4. CASE sub[s].task = t /\ Len(sub[s].chan) < ChanCap
    <3>1. sub'[s].task = t /\ sub'[s].chan = Append(sub[s].chan, e)
      BY <2>1, <2>4 DEF Offer, TypeOK
    <3>2. t # None
      BY <2>2, LogAssumption
    <3>3. e.seq \in DOMAIN log[t] /\ log[t][e.seq] = e
      BY <1>4, <2>2 DEF Publish, CallMatchesLog, TypeOK
    <3>4. ASSUME NEW i \in DOMAIN Append(sub[s].chan, e)
          PROVE  \E j \in DOMAIN log[t] : log[t][j] = Append(sub[s].chan, e)[i]
      <4>1. CASE i \in DOMAIN sub[s].chan
        <5>1. Append(sub[s].chan, e)[i] = sub[s].chan[i]
          BY <1>2, <2>2, <4>1
        <5> QED  BY <1>1, <2>4, <4>1, <5>1 DEF Held
      <4>2. CASE i \notin DOMAIN sub[s].chan
        <5>1. Append(sub[s].chan, e)[i] = e
          BY <1>2, <2>2, <4>2
        <5> QED  BY <3>3, <5>1
      <4> QED  BY <4>1, <4>2
    <3> QED  BY <2>1, <3>1, <3>2, <3>4 DEF Held
  <2> QED  BY <2>3, <2>4
<1>5. ASSUME Receive(s)
      PROVE  Held(s)'
  <2>1. /\ sub'[s].task = sub[s].task /\ sub'[s].chan = Tail(sub[s].chan)
        /\ log' = log /\ sub[s].chan # <<>>
    BY <1>5 DEF Receive, TypeOK
  <2>2. \A i \in DOMAIN Tail(sub[s].chan) :
           i + 1 \in DOMAIN sub[s].chan /\ Tail(sub[s].chan)[i] = sub[s].chan[i + 1]
    BY <1>2, <2>1
  <2> QED  BY <1>1, <2>1, <2>2 DEF Held
<1>6. ASSUME Unsubscribe(s) \/ Crash
      PROVE  Held(s)'
  <2>1. sub'[s] = Free
    BY <1>6 DEF Unsubscribe, Crash, TypeOK
  <2> QED  BY <2>1 DEF Held, Free
<1>7. ASSUME NEW t \in Tasks, Subscribe(s, t)
      PROVE  Held(s)'
  <2>1. sub'[s].task = t /\ sub'[s].chan = <<>>
    BY <1>1, <1>7 DEF Subscribe, Held, TypeOK
  <2>2. t # None
    BY LogAssumption
  <2> QED  BY <2>1, <2>2 DEF Held
<1>8. \/ sub'[s] = sub[s]
      \/ \E w \in Writers : Publish(w)
      \/ Receive(s) \/ Unsubscribe(s) \/ Crash
      \/ \E t \in Tasks : Subscribe(s, t)
  <2>1. ASSUME NEW r \in Subscribers, r # s,
               Receive(r) \/ Unsubscribe(r) \/ \E t \in Tasks : Subscribe(r, t)
        PROVE  sub'[s] = sub[s]
    BY <2>1 DEF Receive, Unsubscribe, Subscribe, TypeOK
  <2> QED
    BY <2>1 DEF LogNext, logVars, InsertTask, AppendTaskToThread, Append1, BeginAppend,
       AppendStep, Insert, InsertConflict, UpdateTurn, ContextCancelled
<1> QED  BY <1>3, <1>4, <1>5, <1>6, <1>7, <1>8

-----------------------------------------------------------------------------
\* The inductive invariant: each part needs TypeOK, SeqContiguous and
\* CallMatchesLog of the step before.
LogInv ==
  /\ TypeOK
  /\ SeqContiguous
  /\ CallMatchesLog
  /\ RowMatchesLog
  /\ TurnEchoesLog
  /\ FreeIsEmpty
  /\ FanOutIsCommitted

(***************************************************************************)
(* The invariant holds initially ...                                       *)
(***************************************************************************)
LEMMA LogInvInit == LogInit => LogInv
<1> SUFFICES ASSUME LogInit
             PROVE  LogInv
  OBVIOUS
<1>1. [step |-> "ok"] \in Returned
  BY DEF Returned
<1>2. Free \in [task : Tasks \cup {None}, chan : Seq(Event)] /\ Len(Free.chan) = 0
  BY DEF Free
<1>3. TypeOK
  BY <1>1, <1>2, LogAssumption DEF LogInit, TypeOK, Bindings
<1>4. SeqContiguous /\ CallMatchesLog /\ RowMatchesLog /\ TurnEchoesLog
  BY DEF LogInit, SeqContiguous, CallMatchesLog, RowMatchesLog, TurnEchoesLog
<1>5. FreeIsEmpty /\ FanOutIsCommitted
  BY DEF LogInit, FreeIsEmpty, FanOutIsCommitted, Free
<1> QED  BY <1>3, <1>4, <1>5 DEF LogInv

(***************************************************************************)
(* ... and every step keeps it.                                            *)
(***************************************************************************)
LEMMA LogInvStep == LogInv /\ [LogNext]_logVars => LogInv'
BY TypeStep, SeqStep, CallStep, RowStep, TurnStep, FanOutStep DEF LogInv

(***************************************************************************)
(* The invariant holds throughout, for any tasks, writers and subscribers. *)
(* It is what makes the five properties of TaskLog inductive: they need    *)
(* one another.                                                            *)
(***************************************************************************)
THEOREM LogInvariant == LogSpec => []LogInv
BY LogInvInit, LogInvStep, PTL DEF LogSpec

(***************************************************************************)
(* Every variable of the log has its type and no channel exceeds its       *)
(* capacity, for any capacity.                                             *)
(***************************************************************************)
THEOREM TypeCorrect == LogSpec => []TypeOK
<1>1. LogInv => TypeOK
  BY DEF LogInv
<1> QED  BY <1>1, LogInvariant, PTL

(***************************************************************************)
(* Sequence numbers are contiguous and in commit order for any number of   *)
(* concurrent writers.                                                     *)
(***************************************************************************)
THEOREM SeqIsContiguous == LogSpec => []SeqContiguous
<1>1. LogInv => SeqContiguous
  BY DEF LogInv
<1> QED  BY <1>1, LogInvariant, PTL

(***************************************************************************)
(* The task row always shows the state of the last committed event.        *)
(***************************************************************************)
THEOREM RowIsLastEvent == LogSpec => []RowMatchesLog
<1>1. LogInv => RowMatchesLog
  BY DEF LogInv
<1> QED  BY <1>1, LogInvariant, PTL

(***************************************************************************)
(* No append under way is ahead of the log or at odds with it.             *)
(***************************************************************************)
THEOREM CallIsCommitted == LogSpec => []CallMatchesLog
<1>1. LogInv => CallMatchesLog
  BY DEF LogInv
<1> QED  BY <1>1, LogInvariant, PTL

(***************************************************************************)
(* Live streams only carry committed events.                               *)
(***************************************************************************)
THEOREM StreamsAreCommitted == LogSpec => []FanOutIsCommitted
<1>1. LogInv => FanOutIsCommitted
  BY DEF LogInv
<1> QED  BY <1>1, LogInvariant, PTL

(***************************************************************************)
(* A thread turn only shows statuses its task has been in.                 *)
(***************************************************************************)
THEOREM TurnsAreSeen == LogSpec => []TurnEchoesLog
<1>1. LogInv => TurnEchoesLog
  BY DEF LogInv
<1> QED  BY <1>1, LogInvariant, PTL

-----------------------------------------------------------------------------
(***************************************************************************)
(* TaskHistory and TaskLog read the same vocabulary.                       *)
(***************************************************************************)
LEMMA SameVocabulary ==
  /\ History!None = None
  /\ History!Statuses = Statuses
  /\ History!Kinds = Kinds
BY DEF History!None, None, History!Terminal, Terminal, History!Statuses, Statuses,
       History!Kinds, Kinds

(***************************************************************************)
(* Every step of the log is a step of TaskHistory, or leaves it alone.     *)
(***************************************************************************)
LEMMA HistoryStep ==
  LogInv /\ [LogNext]_logVars => [History!HistoryNext]_History!historyVars
<1> SUFFICES ASSUME LogInv, [LogNext]_logVars
             PROVE  [History!HistoryNext]_History!historyVars
  OBVIOUS
<1>1. CASE UNCHANGED <<status, log>>
  BY <1>1 DEF History!historyVars
<1>2. ASSUME NEW t \in Tasks, InsertTask(t)
      PROVE  History!HistoryNext
  BY <1>2, SameVocabulary DEF InsertTask, History!HistoryNext, History!Create
<1>3. ASSUME NEW w \in Writers, Insert(w)
      PROVE  History!HistoryNext
  <2> DEFINE t == call[w].task
             e == call[w].event
  <2>1. /\ t \in Tasks /\ e \in Event /\ e.seq = Len(log[t]) + 1 /\ status[t] # None
        /\ log' = [log EXCEPT ![t] = Append(log[t], e)]
    BY <1>3, InsertIsNext DEF LogInv
  <2>2. e.kind \in Kinds /\ e.state \in Statuses
    BY <2>1 DEF Event
  <2>3. e = [seq |-> Len(log[t]) + 1, kind |-> e.kind, state |-> e.state]
    BY <2>1 DEF Event
  <2>4. status' = [status EXCEPT ![t] = e.state]
    BY <1>3 DEF Insert
  <2>5. History!Record(t, e.kind, e.state)
    BY <2>1, <2>3, <2>4, SameVocabulary DEF History!Record
  <2> QED  BY <2>1, <2>2, <2>5, SameVocabulary DEF History!HistoryNext
<1> QED
  BY <1>1, <1>2, <1>3 DEF LogNext, logVars, AppendTaskToThread, Append1, BeginAppend,
     AppendStep, InsertConflict, UpdateTurn, Publish, ContextCancelled, Receive,
     Unsubscribe, Subscribe, Crash

(***************************************************************************)
(* The store implements TaskHistory: to its readers, an append of four     *)
(* unlocked steps by any number of writers is one atomic record.           *)
(***************************************************************************)
THEOREM LogKeepsHistory == LogSpec => KeepsHistory
<1>1. LogInit => History!HistoryInit
  BY SameVocabulary DEF LogInit, History!HistoryInit
<1> QED
  BY <1>1, LogInvariant, HistoryStep, PTL DEF LogSpec, KeepsHistory, History!HistorySpec
=============================================================================
