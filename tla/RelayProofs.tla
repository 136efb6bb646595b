----------------------------- MODULE RelayProofs -----------------------------
(***************************************************************************)
(* Proofs about Relay: what a proxy tells and how a restart accounts for   *)
(* it, for any number of proxies, events of the peer and crashes.          *)
(***************************************************************************)
EXTENDS Relay, TLAPS

\* The number of the last frame the relay has read.
ReadSeq(p) == IF wire[p].read = 0 THEN 0 ELSE wire[p].frames[wire[p].read].seq

\* What the peer has told so far: its events are numbered, its frames are some
\* of them with rising numbers, and the relay is somewhere in between.
PeerTold ==
  \A p \in Proxies :
    /\ \A i \in DOMAIN dest[p] : dest[p][i].seq = i
    /\ \A i \in DOMAIN wire[p].frames :
         /\ wire[p].frames[i].seq \in DOMAIN dest[p]
         /\ wire[p].frames[i] = dest[p][wire[p].frames[i].seq]
    /\ \A i, j \in DOMAIN wire[p].frames :
         i < j => wire[p].frames[i].seq < wire[p].frames[j].seq
    /\ wire[p].read <= Len(wire[p].frames)

\* The proxy mirrors what was read and nothing beyond it.
MirroredIsRead ==
  \A p \in Proxies : \A i \in DOMAIN log[p] : log[p][i].from <= ReadSeq(p)

\* The second inductive invariant: log, stream and destination.
MirrorInv ==
  /\ RelayTypeOK
  /\ PeerTold
  /\ MirroredIsRead
  /\ ProxyTellsTruth

OwnFailure(e) == e.from = 0 /\ e.state = "failed"

Live == Creating \cup Relaying

\* No goroutine runs while the node starts, and only then is there a list of
\* bindings to look at, all of which have a row.
OnlyWhileStarting ==
  /\ node # "up" => \A p \in Proxies : relay[p] \notin Live
  /\ node # "reconciling" => todo = {}
  /\ \A p \in todo : binding[p] # None
  /\ \A p \in Proxies : relay[p] = "new" => binding[p] = None

\* The relay goes on only as long as it has not failed its proxy.
LiveHasNotFailed ==
  \A p \in Proxies : relay[p] \in Live \cup {"new"} =>
     \A i \in DOMAIN log[p] : ~OwnFailure(log[p][i])

\* Before the binding is marked the outcome is the last event of the log.
MarkedShowsOutcome ==
  \A p \in Proxies : relay[p] = "marked" => log[p] # <<>> /\ Status(p) \in Terminal

\* While the node starts, an interrupted proxy is on the list or accounted for.
ListedOrAccounted ==
  node = "reconciling" => \A p \in Proxies :
    relay[p] = "gone" /\ binding[p] # None =>
      /\ p \in todo \/ HasOutcome(p)
      /\ binding[p] # Streaming

\* Such a failure is the last event of its log.
FailureAtEnd ==
  \A p \in Proxies : \A i \in DOMAIN log[p] : OwnFailure(log[p][i]) => i = Len(log[p])

\* Only the relay, and not a restart, fails a proxy directly after an outcome.
FailureAfterOutcome(p, i) ==
  OwnFailure(log[p][i]) /\ i > 1 /\ log[p][i - 1].state \in Terminal

RestartSparesOutcome ==
  \A p \in Proxies : \A i \in DOMAIN log[p] : FailureAfterOutcome(p, i) => relay[p] = "over"

\* The first one: log, binding and restart.
BooksInv ==
  /\ OnlyWhileStarting
  /\ LiveHasNotFailed
  /\ MarkedShowsOutcome
  /\ ListedOrAccounted
  /\ BindingShowsOutcome
  /\ RestartAccountsForAll
  /\ FailureAtEnd
  /\ RestartSparesOutcome

-----------------------------------------------------------------------------
\* The actions of one proxy, in the groups of the specification.
Fails(p) == SubmitFails(p) \/ BindFails(p) \/ TurnBindFails(p)

ProxyStep(p) ==
  \/ CreateProxy(p) \/ AbandonCreate(p) \/ Destination(p) \/ Fails(p)
  \/ RelayStep(p) \/ Reconcile(p)

(***************************************************************************)
(* A step of the specification is one of one proxy, or of the node.        *)
(***************************************************************************)
LEMMA StepOfOne ==
  ASSUME [Next]_vars
  PROVE  \/ \E p \in Proxies : ProxyStep(p)
         \/ Crash \/ Restart \/ Serve \/ UNCHANGED vars
BY DEF Next, ProxyStep, Fails

(***************************************************************************)
(* The last element of a sequence, and what appending does to it.          *)
(***************************************************************************)
LEMMA LastOf ==
  ASSUME NEW S, NEW s \in Seq(S), s # <<>>
  PROVE  Len(s) \in DOMAIN s /\ s[Len(s)] \in S
OBVIOUS

\* What appending does to a sequence.
LEMMA Appended ==
  ASSUME NEW S, NEW s \in Seq(S), NEW e \in S
  PROVE  /\ Append(s, e) \in Seq(S)
         /\ Append(s, e) # <<>>
         /\ Len(Append(s, e)) = Len(s) + 1
         /\ DOMAIN Append(s, e) = DOMAIN s \cup {Len(s) + 1}
         /\ \A i \in DOMAIN s : i \in 1..Len(s) /\ Append(s, e)[i] = s[i]
         /\ Append(s, e)[Len(s) + 1] = e
OBVIOUS

(***************************************************************************)
(* What a step may do to a stream keeps it one.                            *)
(***************************************************************************)
LEMMA WireUpdates ==
  ASSUME NEW w \in Wire
  PROVE  /\ w.frames \in Seq(Event) /\ w.read \in Nat
         /\ [w EXCEPT !.read = w.read + 1] \in Wire
         /\ \A at \in {"open", "closed", "cut", w.at} : [w EXCEPT !.at = at] \in Wire
         /\ \A fs \in Seq(Event) : [w EXCEPT !.frames = fs] \in Wire
<1> DEFINE Frames == Seq(Event)
<1> HIDE DEF Frames
<1>1. Wire = [at : {"idle", "open", "closed", "cut"}, frames : Frames, read : Nat]
  BY DEF Wire, Frames
<1>2. w.frames \in Frames /\ w.read \in Nat /\ [w EXCEPT !.read = w.read + 1] \in Wire
  BY <1>1
<1>3. ASSUME NEW at \in {"open", "closed", "cut", w.at} PROVE [w EXCEPT !.at = at] \in Wire
  BY <1>1, <1>3
<1>4. ASSUME NEW fs \in Frames PROVE [w EXCEPT !.frames = fs] \in Wire
  BY <1>1, <1>4
<1> QED  BY <1>2, <1>3, <1>4 DEF Frames

USE RelayAssumption DEF Streaming, Interrupted, None, Terminal, Statuses, Kinds,
    Creating, Relaying, Relays, Own, Record, RecordFailure, SetBinding, Move, peerVars

(***************************************************************************)
(* The state a log shows is a state, whatever the log holds.               *)
(***************************************************************************)
LEMMA StatusTyped ==
  ASSUME RelayTypeOK, NEW p \in Proxies
  PROVE  Status(p) \in Statuses
<1>1. log[p] \in Seq(Entry)
  BY DEF RelayTypeOK
<1>2. ASSUME log[p] # <<>>
      PROVE  log[p][Len(log[p])] \in Entry
  BY <1>1, <1>2, LastOf
<1> QED  BY <1>2 DEF Status, Entry

(***************************************************************************)
(* The frame the relay reads next is an event, so its number is positive.  *)
(***************************************************************************)
LEMMA NextFrameTyped ==
  ASSUME RelayTypeOK, NEW p \in Proxies, Unread(p)
  PROVE  /\ NextFrame(p) \in Event
         /\ Mirrored(NextFrame(p)) \in Entry /\ NextFrame(p).seq > 0
         /\ wire[p].read + 1 \in DOMAIN wire[p].frames
<1>1. /\ wire[p].frames \in Seq(Event) /\ wire[p].read \in Nat
      /\ wire[p].read < Len(wire[p].frames)
  BY WireUpdates DEF RelayTypeOK, Unread
<1>2. wire[p].read + 1 \in DOMAIN wire[p].frames
  BY <1>1
<1>3. NextFrame(p) \in Event
  BY <1>1, <1>2 DEF NextFrame
<1> QED  BY <1>2, <1>3 DEF Mirrored, Event, Entry
(***************************************************************************)
(* Every step leaves the variables typed.                                  *)
(***************************************************************************)
LEMMA OwnRecordTyped ==
  ASSUME RelayTypeOK, NEW p \in Proxies,
         NEW kind \in Kinds, NEW state \in Statuses, Record(p, Own(kind, state))
  PROVE  log' \in [Proxies -> Seq(Entry)]
<1>1. Own(kind, state) \in Entry
  BY DEF Entry
<1> QED  BY <1>1, Appended DEF RelayTypeOK

\* Creating a proxy, giving it up and failing it keep the types.
LEMMA CreateTypes ==
  ASSUME RelayTypeOK, NEW p \in Proxies, CreateProxy(p) \/ AbandonCreate(p) \/ Fails(p)
  PROVE  RelayTypeOK'
<1> USE OwnRecordTyped DEF RelayTypeOK
<1>1. CASE InsertProxy(p)   BY <1>1 DEF InsertProxy
<1>2. CASE RecordCreated(p) BY <1>2 DEF RecordCreated
<1>3. CASE RecordRouted(p)  BY <1>3 DEF RecordRouted
<1>4. CASE StartRelay(p)    BY <1>4 DEF StartRelay
<1>5. CASE AbandonCreate(p) BY <1>5 DEF AbandonCreate
<1>6. CASE SubmitFails(p)   BY <1>6 DEF SubmitFails
<1>7. CASE BindFails(p)     BY <1>7 DEF BindFails
<1>8. CASE TurnBindFails(p) BY <1>8 DEF TurnBindFails
<1> QED  BY <1>1, <1>2, <1>3, <1>4, <1>5, <1>6, <1>7, <1>8 DEF CreateProxy, Fails

\* The number of the last frame is a number.
LEMMA LastFrameTyped ==
  ASSUME RelayTypeOK, NEW p \in Proxies
  PROVE  LastFrame(p) \in Nat
<1>1. wire[p].frames \in Seq(Event)
  BY WireUpdates DEF RelayTypeOK
<1>2. ASSUME wire[p].frames # <<>>
      PROVE  wire[p].frames[Len(wire[p].frames)] \in Event
  BY <1>1, <1>2, LastOf
<1> QED  BY <1>2 DEF LastFrame, Event

\* The peer's steps keep the types.
LEMMA DestinationTypes ==
  ASSUME RelayTypeOK, NEW p \in Proxies, Destination(p)
  PROVE  RelayTypeOK'
<1> USE DEF RelayTypeOK
<1>1. CASE Accept(p)
  <2>1. [seq |-> 1, kind |-> "task.created", state |-> "created"] \in Event
    BY DEF Event
  <2> QED  BY <1>1, <2>1 DEF Accept
<1>2. CASE DestRecords(p)
  <2>1. PICK in \in DestInputs : dest' = [dest EXCEPT ![p] = Append(@,
                   [seq |-> Len(@) + 1, kind |-> in.kind, state |-> in.state])]
    BY <1>2 DEF DestRecords
  <2>2. [seq |-> Len(dest[p]) + 1, kind |-> in.kind, state |-> in.state] \in Event
    BY DEF Event
  <2>3. dest' \in [Proxies -> Seq(Event)]
    BY <2>1, <2>2, Appended
  <2> QED  BY <1>2, <2>3 DEF DestRecords
<1>3. CASE SendFrame(p)
  <2>1. LastFrame(p) \in Nat
    BY LastFrameTyped
  <2>2. PICK i \in (LastFrame(p) + 1)..Len(dest[p]) :
          wire' = [wire EXCEPT ![p].frames = Append(@, dest[p][i])]
    BY <1>3 DEF SendFrame
  <2>3. dest[p][i] \in Event
    BY <2>1
  <2>4. Append(wire[p].frames, dest[p][i]) \in Seq(Event)
    <3>1. wire[p] \in Wire
      OBVIOUS
    <3>2. wire[p].frames \in Seq(Event)
      BY <3>1, WireUpdates
    <3> QED  BY <2>3, <3>2, Appended
  <2>5. wire' = [wire EXCEPT ![p] = [@ EXCEPT !.frames = Append(wire[p].frames, dest[p][i])]]
    BY <2>2
  <2>6. wire' \in [Proxies -> Wire]
    BY <2>4, <2>5, WireUpdates
  <2> QED  BY <1>3, <2>6 DEF SendFrame
<1>4. CASE CloseStream(p) \/ CutStream(p)
  <2>1. PICK at \in {"closed", "cut"} : wire' = [wire EXCEPT ![p] = [@ EXCEPT !.at = at]]
    BY <1>4 DEF CloseStream, CutStream
  <2>2. wire' \in [Proxies -> Wire]
    BY <2>1, WireUpdates
  <2> QED  BY <1>4, <2>2 DEF CloseStream, CutStream
<1> QED  BY <1>1, <1>2, <1>3, <1>4 DEF Destination

\* The relay's steps and the reconciliation keep the types.
LEMMA RelayTypes ==
  ASSUME RelayTypeOK, MarkedShowsOutcome, NEW p \in Proxies, RelayStep(p) \/ Reconcile(p)
  PROVE  RelayTypeOK'
<1> USE DEF RelayTypeOK
<1>1. CASE Accepted(p)    BY <1>1 DEF Accepted
<1>2. CASE Bind(p)        BY <1>2 DEF Bind
<1>3. CASE Dispatch(p)    BY <1>3, OwnRecordTyped DEF Dispatch
<1>4. CASE OpenStream(p)
  <2>1. wire' = [wire EXCEPT ![p] = [@ EXCEPT !.at = "open"]]
    BY <1>4 DEF OpenStream
  <2>2. wire' \in [Proxies -> Wire]
    BY <2>1, WireUpdates
  <2> QED  BY <1>4, <2>2 DEF OpenStream
<1>5. CASE Mirror(p)
  <2>1. Mirrored(NextFrame(p)) \in Entry
    BY <1>5, NextFrameTyped DEF Mirror
  <2>2. log' \in [Proxies -> Seq(Entry)]
    BY <1>5, <2>1, Appended DEF Mirror
  <2>3. wire' \in [Proxies -> Wire]
    <3>1. wire' = [wire EXCEPT ![p] = [@ EXCEPT !.read = wire[p].read + 1]]
      BY <1>5 DEF Mirror
    <3>2. [wire[p] EXCEPT !.read = wire[p].read + 1] \in Wire
      BY WireUpdates
    <3> QED  BY <3>1, <3>2
  <2>4. relay' \in [Proxies -> Relays]
    BY <1>5 DEF Mirror
  <2> QED  BY <1>5, <2>2, <2>3, <2>4 DEF Mirror
<1>6. CASE MarkOutcome(p)
  <2>1. Status(p) \in Terminal
    BY <1>6 DEF MarkOutcome, MarkedShowsOutcome
  <2> QED  BY <1>6, <2>1 DEF MarkOutcome
<1>7. CASE StreamEnds(p)  BY <1>7 DEF StreamEnds
<1>8. CASE StreamFails(p)
  <2>1. PICK at \in {"cut", wire[p].at} : wire' = [wire EXCEPT ![p] = [@ EXCEPT !.at = at]]
    BY <1>8 DEF StreamFails
  <2>2. wire' \in [Proxies -> Wire]
    BY <2>1, WireUpdates
  <2> QED  BY <1>8, <2>2 DEF StreamFails
<1>9. CASE RecordCut(p)   BY <1>9, OwnRecordTyped DEF RecordCut
<1>10. CASE Reconcile(p)
  <2>1. CASE Status(p) \in Terminal
    BY <1>10, <2>1 DEF Reconcile
  <2>2. CASE Status(p) \notin Terminal
    BY <1>10, <2>2, OwnRecordTyped DEF Reconcile
  <2> QED  BY <2>1, <2>2
<1> QED
  BY <1>1, <1>2, <1>3, <1>4, <1>5, <1>6, <1>7, <1>8, <1>9, <1>10 DEF RelayStep

\* Crash and restart keep the types.
LEMMA NodeTypes ==
  ASSUME RelayTypeOK, Crash \/ Restart \/ Serve \/ UNCHANGED vars
  PROVE  RelayTypeOK'
<1> USE DEF RelayTypeOK
<1>1. CASE Crash
  <2>1. ASSUME NEW p \in Proxies
        PROVE  wire'[p] \in Wire
    <3>1. PICK at \in {"cut", wire[p].at} : wire'[p] = [wire[p] EXCEPT !.at = at]
      BY <1>1 DEF Crash
    <3>2. wire[p] \in Wire
      OBVIOUS
    <3> QED  BY <3>1, <3>2, WireUpdates
  <2>2. wire' \in [Proxies -> Wire]
    BY <1>1, <2>1 DEF Crash
  <2>3. relay' \in [Proxies -> Relays]
    BY <1>1 DEF Crash
  <2> QED  BY <1>1, <2>2, <2>3 DEF Crash
<1>2. CASE Restart
  <2>1. binding' \in [Proxies -> {None, Streaming, Interrupted} \cup Terminal]
    BY <1>2 DEF Restart
  <2>2. todo' \subseteq Proxies
    BY <1>2 DEF Restart, Unsettled
  <2> QED  BY <1>2, <2>1, <2>2 DEF Restart
<1>3. CASE Serve          BY <1>3 DEF Serve
<1>4. CASE UNCHANGED vars BY <1>4 DEF vars
<1> QED  BY <1>1, <1>2, <1>3, <1>4

-----------------------------------------------------------------------------
(***************************************************************************)
(* A recorded event is the last of its log, and the rest stays in place.   *)
(***************************************************************************)
LEMMA RecordAppends ==
  ASSUME RelayTypeOK, NEW p \in Proxies, NEW e \in Entry, Record(p, e)
  PROVE  /\ log' \in [Proxies -> Seq(Entry)]
         /\ Len(log'[p]) = Len(log[p]) + 1
         /\ Len(log'[p]) \in DOMAIN log'[p]
         /\ log'[p][Len(log'[p])] = e
         /\ \A q \in Proxies \ {p} : log'[q] = log[q]
         /\ \A q \in Proxies : \A k \in DOMAIN log[q] :
              k \in DOMAIN log'[q] /\ log'[q][k] = log[q][k]
         /\ \A q \in Proxies : \A k \in DOMAIN log'[q] :
              \/ k \in DOMAIN log[q] /\ log'[q][k] = log[q][k]
              \/ q = p /\ k = Len(log'[p]) /\ log'[q][k] = e
         /\ \A q \in Proxies : \A k \in DOMAIN log[q] : k \in Nat /\ k <= Len(log[q])
         /\ \A q \in Proxies : Len(log[q]) \in Nat
<1>1. log \in [Proxies -> Seq(Entry)] /\ log' = [log EXCEPT ![p] = Append(@, e)]
  BY DEF RelayTypeOK
<1>2. log'[p] = Append(log[p], e) /\ \A q \in Proxies \ {p} : log'[q] = log[q]
  BY <1>1
<1>3. \A q \in Proxies : log[q] \in Seq(Entry)
  BY <1>1
<1>4. log' \in [Proxies -> Seq(Entry)]
  BY <1>1, Appended
<1> QED  BY <1>2, <1>3, <1>4, Appended

-----------------------------------------------------------------------------
(* What a step may do to the books.                                        *)

\* The goroutine of p moves on and records nothing; it may write the binding.
Quiet(p) ==
  \E from \in Live \cup {"new"}, to \in (Live \ {"marked"}) \cup {"lost", "over"} :
    /\ Move(p, from, to)
    /\ UNCHANGED log
    /\ \/ UNCHANGED binding
       \/ from # "new" /\ \E s \in {None, Streaming, Interrupted} \cup Terminal :
            /\ binding' = [binding EXCEPT ![p] = s]
            /\ s \in Terminal => \E i \in DOMAIN log[p] : log[p][i].state = s

\* It records an event; after a failure of its own it is over.
Records(p) ==
  \E from \in Live, to \in Live \cup {"over"}, e \in Entry :
    /\ Move(p, from, to)
    /\ Record(p, e)
    /\ OwnFailure(e) => to = "over"
    /\ to = "marked" => e.state \in Terminal
    /\ UNCHANGED binding

\* The peer goes on, or nothing happens.
Elsewhere == UNCHANGED <<log, binding, relay, node, todo>>

(***************************************************************************)
(* Every step of a proxy is of one of these kinds, or reconciles it.       *)
(***************************************************************************)
LEMMA KindsOfStep ==
  ASSUME RelayTypeOK, MarkedShowsOutcome, NEW p \in Proxies, ProxyStep(p)
  PROVE  Quiet(p) \/ Records(p) \/ Elsewhere \/ Reconcile(p)
<1> USE DEF Live
<1>1. CASE CreateProxy(p) \/ AbandonCreate(p)
  <2>1. CASE InsertProxy(p) \/ StartRelay(p) \/ AbandonCreate(p)
    BY <2>1 DEF InsertProxy, StartRelay, AbandonCreate, Quiet
  <2>2. CASE RecordCreated(p) \/ RecordRouted(p)
    BY <2>2 DEF RecordCreated, RecordRouted, Records, Entry, OwnFailure
  <2> QED  BY <1>1, <2>1, <2>2 DEF CreateProxy
<1>2. CASE Destination(p)
  <2>1. CASE Accept(p)
    BY <2>1 DEF Accept, Quiet
  <2>2. CASE DestRecords(p) \/ SendFrame(p) \/ CloseStream(p) \/ CutStream(p)
    BY <2>2 DEF DestRecords, SendFrame, CloseStream, CutStream, Elsewhere
  <2> QED  BY <1>2, <2>1, <2>2 DEF Destination
<1>3. CASE Fails(p) \/ RecordCut(p)
  <2>1. \E from \in Live : Move(p, from, "over")
    BY <1>3 DEF Fails, SubmitFails, BindFails, TurnBindFails, RecordCut
  <2>2. Record(p, Own("task.failed", "failed")) /\ UNCHANGED binding
    BY <1>3 DEF Fails, SubmitFails, BindFails, TurnBindFails, RecordCut
  <2>3. Own("task.failed", "failed") \in Entry
    BY DEF Entry
  <2> QED  BY <2>1, <2>2, <2>3 DEF Records
<1>4. CASE RelayStep(p)
  <2>1. CASE Accepted(p) \/ OpenStream(p) \/ StreamEnds(p)
    BY <2>1 DEF Accepted, OpenStream, StreamEnds, Quiet
  <2>2. CASE Bind(p)
    <3>1. PICK s \in {Streaming} : binding' = [binding EXCEPT ![p] = s]
      BY <2>2 DEF Bind
    <3> QED  BY <2>2, <3>1 DEF Bind, Quiet
  <2>3. CASE Dispatch(p)
    BY <2>3 DEF Dispatch, Records, Entry, OwnFailure
  <2>4. CASE Mirror(p)
    <3>1. Mirrored(NextFrame(p)) \in Entry /\ NextFrame(p).seq > 0
      BY <2>4, NextFrameTyped DEF Mirror
    <3>2. ~OwnFailure(Mirrored(NextFrame(p)))
      BY <3>1 DEF OwnFailure, Mirrored
    <3>3. Mirrored(NextFrame(p)).state = NextFrame(p).state
      BY DEF Mirrored
    <3>4. PICK to \in {"marked", "streaming"} :
            /\ Move(p, "streaming", to)
            /\ to = "marked" => NextFrame(p).state \in Terminal
      BY <2>4 DEF Mirror
    <3> QED  BY <2>4, <3>1, <3>2, <3>3, <3>4 DEF Mirror, Records
  <2>5. CASE MarkOutcome(p)
    <3>1. log[p] # <<>> /\ Status(p) \in Terminal
      BY <2>5 DEF MarkOutcome, MarkedShowsOutcome
    <3>2. \E i \in DOMAIN log[p] : log[p][i].state = Status(p)
      BY <3>1, LastOf DEF Status, RelayTypeOK
    <3>3. PICK s \in {None, Streaming, Interrupted} \cup Terminal :
            /\ binding' = [binding EXCEPT ![p] = s]
            /\ s \in {None, Status(p)}
      BY <2>5, <3>1 DEF MarkOutcome
    <3> QED  BY <2>5, <3>2, <3>3 DEF MarkOutcome, Quiet
  <2>6. CASE StreamFails(p)
    <3>1. PICK s \in {None, Interrupted} : binding' = [binding EXCEPT ![p] = s]
      BY <2>6 DEF StreamFails
    <3> QED  BY <2>6, <3>1 DEF StreamFails, Quiet
  <2> QED  BY <1>3, <1>4, <2>1, <2>2, <2>3, <2>4, <2>5, <2>6 DEF RelayStep
<1> QED  BY <1>1, <1>2, <1>3, <1>4 DEF ProxyStep

-----------------------------------------------------------------------------
(***************************************************************************)
(* Each kind of step keeps the books.                                      *)
(***************************************************************************)
LEMMA QuietKeeps ==
  ASSUME BooksInv, NEW p \in Proxies, Quiet(p), RelayTypeOK'
  PROVE  BooksInv'
<1> USE DEF BooksInv
<1>1. PICK from \in Live \cup {"new"}, to \in (Live \ {"marked"}) \cup {"lost", "over"} :
        /\ Move(p, from, to)
        /\ UNCHANGED log
        /\ \/ UNCHANGED binding
           \/ from # "new" /\ \E s \in {None, Streaming, Interrupted} \cup Terminal :
                /\ binding' = [binding EXCEPT ![p] = s]
                /\ s \in Terminal => \E i \in DOMAIN log[p] : log[p][i].state = s
  BY DEF Quiet
<1>2. /\ node = "up" /\ node' = "up" /\ todo' = todo
      /\ relay'[p] = to /\ relay[p] = from
      /\ \A q \in Proxies \ {p} : relay'[q] = relay[q]
  BY <1>1 DEF BindingShowsOutcome, RelayTypeOK
<1>3. /\ \A q \in Proxies \ {p} : binding'[q] = binding[q]
      /\ from = "new" => binding'[p] = binding[p]
      /\ binding'[p] = binding[p] \/ binding'[p] \in {None, Streaming, Interrupted}
           \/ \E i \in DOMAIN log[p] : log[p][i].state = binding'[p]
  BY <1>1 DEF BindingShowsOutcome, RelayTypeOK
<1>4. to \notin {"new", "marked", "gone"}
  BY DEF Live
<1>5. OnlyWhileStarting'
  BY <1>2, <1>3, <1>4 DEF OnlyWhileStarting
<1>6. LiveHasNotFailed'
  BY <1>1, <1>2, <1>4 DEF LiveHasNotFailed
<1>7. MarkedShowsOutcome'
  BY <1>1, <1>2, <1>4 DEF MarkedShowsOutcome, Status
<1>8. ListedOrAccounted'
  BY <1>2 DEF ListedOrAccounted
<1>9. BindingShowsOutcome'
  BY <1>1, <1>3 DEF BindingShowsOutcome
<1>10. RestartAccountsForAll'
  BY <1>1, <1>2, <1>3, <1>4 DEF RestartAccountsForAll, HasOutcome
<1>11. FailureAtEnd'
  BY <1>1 DEF FailureAtEnd
<1>12. RestartSparesOutcome'
  <2>1. \A i \in DOMAIN log[p] : ~OwnFailure(log[p][i])
    BY <1>2 DEF LiveHasNotFailed
  <2> QED  BY <1>1, <1>2, <2>1 DEF RestartSparesOutcome, FailureAfterOutcome
<1> QED  BY <1>5, <1>6, <1>7, <1>8, <1>9, <1>10, <1>11, <1>12

\* A record, after which the relay is over if it is a failure of its own.
LEMMA RecordsKeeps ==
  ASSUME BooksInv, NEW p \in Proxies, Records(p), RelayTypeOK'
  PROVE  BooksInv'
<1> USE DEF BooksInv
<1>1. PICK from \in Live, to \in Live \cup {"over"}, e \in Entry :
        /\ Move(p, from, to)
        /\ Record(p, e)
        /\ OwnFailure(e) => to = "over"
        /\ to = "marked" => e.state \in Terminal
        /\ UNCHANGED binding
  BY DEF Records
<1>2. /\ node = "up" /\ node' = "up" /\ todo' = todo
      /\ relay'[p] = to /\ relay[p] = from
      /\ \A q \in Proxies \ {p} : relay'[q] = relay[q]
  BY <1>1 DEF BindingShowsOutcome, RelayTypeOK
<1>3. /\ \A q \in Proxies \ {p} : log'[q] = log[q]
      /\ \A k \in DOMAIN log[p] : k \in DOMAIN log'[p] /\ log'[p][k] = log[p][k]
      /\ \A k \in DOMAIN log'[p] :
           \/ k \in DOMAIN log[p] /\ log'[p][k] = log[p][k]
           \/ k = Len(log'[p]) /\ log'[p][k] = e
      /\ Len(log'[p]) \in DOMAIN log'[p] /\ log'[p][Len(log'[p])] = e
  <2>1. RelayTypeOK /\ Record(p, e) /\ e \in Entry
    BY <1>1 DEF BindingShowsOutcome
  <2> HIDE DEF Record, BooksInv
  <2> QED  BY <2>1, RecordAppends
<1>4. to \notin {"new", "gone"} /\ "over" \notin Live
  BY DEF Live
<1>5. \A i \in DOMAIN log[p] : ~OwnFailure(log[p][i])
  BY <1>2 DEF LiveHasNotFailed
<1>6. OnlyWhileStarting'
  BY <1>1, <1>2, <1>4 DEF OnlyWhileStarting
<1>7. LiveHasNotFailed'
  BY <1>1, <1>2, <1>3, <1>4, <1>5 DEF LiveHasNotFailed
<1>8. MarkedShowsOutcome'
  <2>1. to = "marked" => log'[p] # <<>> /\ Status(p)' = e.state
    BY <1>3 DEF Status
  <2> QED  BY <1>1, <1>2, <1>3, <2>1 DEF MarkedShowsOutcome, Status
<1>9. ListedOrAccounted'
  BY <1>2 DEF ListedOrAccounted
<1>10. BindingShowsOutcome'
  <2>1. ASSUME NEW q \in Proxies, binding'[q] \in Terminal
        PROVE  \E i \in DOMAIN log'[q] : log'[q][i].state = binding'[q]
    <3>1. PICK i \in DOMAIN log[q] : log[q][i].state = binding[q]
      BY <1>1, <2>1 DEF BindingShowsOutcome
    <3> QED  BY <1>1, <1>3, <3>1
  <2> QED  BY <2>1 DEF BindingShowsOutcome
<1>11. RestartAccountsForAll'
  <2>1. ASSUME NEW q \in Proxies, relay'[q] = "gone", binding'[q] # None
        PROVE  HasOutcome(q)' /\ binding'[q] # Streaming
    <3>1. q # p
      BY <1>2, <1>4, <2>1
    <3> QED  BY <1>1, <1>2, <1>3, <2>1, <3>1 DEF RestartAccountsForAll, HasOutcome
  <2> QED  BY <2>1 DEF RestartAccountsForAll
<1>12. FailureAtEnd'
  <2>1. \A i \in DOMAIN log'[p] : OwnFailure(log'[p][i]) => i = Len(log'[p])
    BY <1>3, <1>5
  <2> QED  BY <1>3, <2>1 DEF FailureAtEnd
<1>13. RestartSparesOutcome'
  <2>1. ASSUME NEW i \in DOMAIN log'[p], OwnFailure(log'[p][i]) PROVE relay'[p] = "over"
    BY <1>1, <1>2, <1>3, <1>5, <2>1
  <2>2. ASSUME NEW q \in Proxies \ {p}, NEW i \in DOMAIN log'[q],
               FailureAfterOutcome(q, i)'
        PROVE  relay'[q] = "over"
    BY <1>2, <1>3, <2>2 DEF RestartSparesOutcome, FailureAfterOutcome
  <2> QED  BY <2>1, <2>2 DEF RestartSparesOutcome, FailureAfterOutcome
<1> QED  BY <1>6, <1>7, <1>8, <1>9, <1>10, <1>11, <1>12, <1>13

\* A step elsewhere.
LEMMA ElsewhereKeeps ==
  ASSUME BooksInv, Elsewhere, RelayTypeOK'
  PROVE  BooksInv'
BY DEF BooksInv, Elsewhere, OnlyWhileStarting, LiveHasNotFailed, MarkedShowsOutcome,
  ListedOrAccounted, BindingShowsOutcome, RestartAccountsForAll, FailureAtEnd,
  RestartSparesOutcome, FailureAfterOutcome, HasOutcome, Status

\* A reconciliation repairs the binding or records the one failure.
LEMMA ReconcileKeeps ==
  ASSUME BooksInv, NEW p \in Proxies, Reconcile(p), RelayTypeOK'
  PROVE  BooksInv'
<1> USE DEF BooksInv
<1>1. /\ node = "reconciling" /\ node' = "reconciling" /\ relay' = relay
      /\ p \in todo /\ todo' = todo \ {p} /\ binding[p] # None
  BY DEF Reconcile, OnlyWhileStarting
<1>2. relay[p] \notin Live \cup {"new"}
  BY <1>1 DEF OnlyWhileStarting
<1>3. RelayTypeOK
  BY DEF BindingShowsOutcome
<1>4. CASE Status(p) \in Terminal
  <2>1. log' = log /\ binding' = [binding EXCEPT ![p] = Status(p)]
    BY <1>1, <1>4 DEF Reconcile
  <2>2. log[p] # <<>> /\ \E i \in DOMAIN log[p] : log[p][i].state = Status(p)
    BY <1>3, <1>4, LastOf DEF Status, RelayTypeOK
  <2>3. binding'[p] = Status(p) /\ \A q \in Proxies \ {p} : binding'[q] = binding[q]
    BY <1>3, <2>1 DEF RelayTypeOK
  <2>4. Status(p) \notin {None, Streaming}
    BY <1>4
  <2>5. OnlyWhileStarting'
    <3>1. \A q \in todo' : q \in Proxies \ {p} /\ binding[q] # None
      BY <1>1, <1>3 DEF OnlyWhileStarting, RelayTypeOK
    <3>2. \A q \in Proxies : relay[q] = "new" => q # p /\ binding[q] = None
      BY <1>2 DEF OnlyWhileStarting
    <3>3. \A q \in Proxies : relay[q] \notin Live
      BY <1>1 DEF OnlyWhileStarting
    <3> QED  BY <1>1, <2>3, <3>1, <3>2, <3>3 DEF OnlyWhileStarting
  <2>6. LiveHasNotFailed' /\ MarkedShowsOutcome' /\ FailureAtEnd' /\ RestartSparesOutcome'
    BY <1>1, <2>1 DEF LiveHasNotFailed, MarkedShowsOutcome, FailureAtEnd,
      RestartSparesOutcome, FailureAfterOutcome, Status
  <2>7. ListedOrAccounted'
    <3>1. HasOutcome(p)'
      BY <1>4, <2>1, <2>2 DEF HasOutcome
    <3> QED  BY <1>1, <2>1, <2>3, <2>4, <3>1 DEF ListedOrAccounted, HasOutcome
  <2>8. BindingShowsOutcome'
    BY <2>1, <2>2, <2>3 DEF BindingShowsOutcome
  <2>9. RestartAccountsForAll'
    BY <1>1 DEF RestartAccountsForAll
  <2> QED  BY <2>5, <2>6, <2>7, <2>8, <2>9
<1>5. CASE Status(p) \notin Terminal
  <2>1. Record(p, Own("task.failed", "failed")) /\ UNCHANGED binding
    BY <1>1, <1>5 DEF Reconcile
  <2>2. Own("task.failed", "failed") \in Entry /\ Own("task.failed", "failed").state = "failed"
    BY DEF Entry
  <2>3. /\ \A q \in Proxies \ {p} : log'[q] = log[q]
        /\ \A k \in DOMAIN log[p] : k \in DOMAIN log'[p] /\ log'[p][k] = log[p][k]
        /\ \A k \in DOMAIN log'[p] :
             \/ k \in DOMAIN log[p] /\ log'[p][k] = log[p][k]
             \/ k = Len(log'[p])
        /\ Len(log'[p]) \in DOMAIN log'[p] /\ log'[p][Len(log'[p])].state = "failed"
    <3> HIDE DEF Record, BooksInv, Own
    <3> QED  BY <1>3, <2>1, <2>2, RecordAppends
  <2>12. ASSUME Len(log'[p]) > 1 PROVE Len(log'[p]) - 1 = Len(log[p]) /\ Len(log[p]) \in DOMAIN log[p]
    <3>1. Len(log'[p]) = Len(log[p]) + 1 /\ Len(log[p]) \in Nat /\ log[p] \in Seq(Entry)
      <4> HIDE DEF Record, BooksInv, Own
      <4> QED  BY <1>3, <2>1, <2>2, RecordAppends DEF RelayTypeOK
    <3> QED  BY <2>12, <3>1
  <2>4. OnlyWhileStarting'
    BY <1>1, <1>2, <2>1 DEF OnlyWhileStarting
  <2>5. LiveHasNotFailed' /\ MarkedShowsOutcome'
    <3>1. \A q \in Proxies : relay'[q] \in Live \cup {"new"} => log'[q] = log[q] /\ relay'[q] = relay[q]
      BY <1>1, <1>2, <2>3
    <3>2. "marked" \in Live
      BY DEF Live
    <3> QED  BY <3>1, <3>2 DEF LiveHasNotFailed, MarkedShowsOutcome, Status
  <2>6. \A q \in Proxies : HasOutcome(q) \/ q = p => HasOutcome(q)'
    BY <2>3 DEF HasOutcome
  <2>7. ListedOrAccounted'
    BY <1>1, <2>1, <2>6 DEF ListedOrAccounted
  <2>8. BindingShowsOutcome'
    <3>1. ASSUME NEW q \in Proxies, binding'[q] \in Terminal
          PROVE  \E i \in DOMAIN log'[q] : log'[q][i].state = binding'[q]
      <4>1. PICK i \in DOMAIN log[q] : log[q][i].state = binding[q]
        BY <2>1, <3>1 DEF BindingShowsOutcome
      <4> QED  BY <2>1, <2>3, <4>1
    <3> QED  BY <3>1 DEF BindingShowsOutcome
  <2>9. RestartAccountsForAll'
    BY <1>1 DEF RestartAccountsForAll
  <2>10. FailureAtEnd'
    <3>1. ASSUME NEW i \in DOMAIN log[p] PROVE ~OwnFailure(log[p][i])
      <4>1. i = Len(log[p]) /\ log[p] # <<>> => log[p][i].state \notin Terminal
        BY <1>5 DEF Status
      <4>2. log[p] # <<>>
        BY <1>3, <3>1 DEF RelayTypeOK
      <4> QED  BY <4>1, <4>2 DEF FailureAtEnd, OwnFailure
    <3> QED  BY <2>3, <3>1 DEF FailureAtEnd
  <2>11. RestartSparesOutcome'
    <3>1. ASSUME NEW i \in DOMAIN log'[p], FailureAfterOutcome(p, i)' PROVE relay'[p] = "over"
      <4>1. CASE i \in DOMAIN log[p] /\ log'[p][i] = log[p][i]
        <5>1. i - 1 \in DOMAIN log[p]
          BY <1>3, <3>1, <4>1 DEF FailureAfterOutcome, RelayTypeOK
        <5> QED  BY <1>1, <2>3, <3>1, <4>1, <5>1 DEF RestartSparesOutcome, FailureAfterOutcome
      <4>2. CASE i = Len(log'[p])
        <5>1. i - 1 = Len(log[p]) /\ i - 1 \in DOMAIN log[p]
          BY <2>12, <3>1, <4>2 DEF FailureAfterOutcome
        <5>2. log'[p][i - 1] = log[p][Len(log[p])] /\ log[p] # <<>>
          BY <2>3, <5>1
        <5> QED  BY <1>5, <3>1, <5>2 DEF FailureAfterOutcome, Status
      <4> QED  BY <2>3, <4>1, <4>2
    <3>2. ASSUME NEW q \in Proxies \ {p}, NEW i \in DOMAIN log'[q],
                 FailureAfterOutcome(q, i)'
          PROVE  relay'[q] = "over"
      BY <1>1, <2>3, <3>2 DEF RestartSparesOutcome, FailureAfterOutcome
    <3> QED  BY <3>1, <3>2 DEF RestartSparesOutcome
  <2> QED  BY <2>4, <2>5, <2>7, <2>8, <2>9, <2>10, <2>11
<1> QED  BY <1>4, <1>5

\* A crash, whatever was under way: after it no relay is live.
LEMMA CrashKeeps ==
  ASSUME BooksInv, Crash, RelayTypeOK'
  PROVE  BooksInv'
<1> USE DEF BooksInv
<1>1. /\ node' = "down" /\ todo' = {} /\ UNCHANGED <<log, binding>>
      /\ \A p \in Proxies : relay'[p] = IF relay[p] \in Live THEN "gone" ELSE relay[p]
  BY DEF Crash, Live
<1>2. \A p \in Proxies : /\ relay'[p] \notin Live /\ relay'[p] # "marked"
                         /\ relay'[p] = "new" => relay[p] = "new"
  BY <1>1 DEF Live
<1>3. OnlyWhileStarting' /\ ListedOrAccounted' /\ RestartAccountsForAll'
  BY <1>1, <1>2 DEF OnlyWhileStarting, ListedOrAccounted, RestartAccountsForAll
<1>4. LiveHasNotFailed' /\ MarkedShowsOutcome' /\ BindingShowsOutcome' /\ FailureAtEnd'
  BY <1>1, <1>2 DEF LiveHasNotFailed, MarkedShowsOutcome, BindingShowsOutcome,
    FailureAtEnd
<1>5. RestartSparesOutcome'
  <2>1. "over" \notin Live
    BY DEF Live
  <2> QED  BY <1>1, <2>1 DEF RestartSparesOutcome, FailureAfterOutcome
<1> QED  BY <1>3, <1>4, <1>5

\* A start of the node lists every binding in no terminal status.
LEMMA RestartKeeps ==
  ASSUME BooksInv, Restart, RelayTypeOK'
  PROVE  BooksInv'
<1> USE DEF BooksInv
<1>1. /\ node = "down" /\ node' = "reconciling" /\ UNCHANGED <<log, relay>>
      /\ todo' = Unsettled
      /\ \A p \in Proxies :
           binding'[p] = IF p \in Unsettled THEN Interrupted ELSE binding[p]
  BY DEF Restart
<1>2. \A p \in Proxies : relay[p] \notin Live
  BY <1>1 DEF OnlyWhileStarting
<1>3. OnlyWhileStarting'
  BY <1>1, <1>2 DEF OnlyWhileStarting, Unsettled
<1>4. LiveHasNotFailed' /\ MarkedShowsOutcome' /\ FailureAtEnd' /\ RestartSparesOutcome'
  BY <1>1 DEF LiveHasNotFailed, MarkedShowsOutcome, FailureAtEnd, RestartSparesOutcome,
    FailureAfterOutcome, Status
<1>5. BindingShowsOutcome'
  BY <1>1 DEF BindingShowsOutcome
<1>6. ListedOrAccounted'
  <2>1. ASSUME NEW p \in Proxies, binding'[p] # None, p \notin todo'
        PROVE  HasOutcome(p)' /\ binding'[p] # Streaming
    <3>1. binding'[p] = binding[p] /\ binding[p] \in Terminal
      BY <1>1, <2>1 DEF BindingShowsOutcome, RelayTypeOK, Unsettled
    <3> QED  BY <1>1, <3>1 DEF BindingShowsOutcome, HasOutcome
  <2>2. \A p \in todo' : binding'[p] # Streaming
    BY <1>1 DEF Unsettled
  <2> QED  BY <2>1, <2>2 DEF ListedOrAccounted
<1>7. RestartAccountsForAll'
  BY <1>1 DEF RestartAccountsForAll
<1> QED  BY <1>3, <1>4, <1>5, <1>6, <1>7

\* The node serves once the list is empty.
LEMMA ServeKeeps ==
  ASSUME BooksInv, Serve, RelayTypeOK'
  PROVE  BooksInv'
<1> USE DEF BooksInv
<1>1. /\ node = "reconciling" /\ todo = {} /\ node' = "up"
      /\ UNCHANGED <<log, binding, relay, todo>>
  BY DEF Serve
<1>2. OnlyWhileStarting' /\ ListedOrAccounted'
  BY <1>1 DEF OnlyWhileStarting, ListedOrAccounted
<1>3. /\ LiveHasNotFailed' /\ MarkedShowsOutcome' /\ BindingShowsOutcome'
      /\ FailureAtEnd' /\ RestartSparesOutcome'
  BY <1>1 DEF LiveHasNotFailed, MarkedShowsOutcome, BindingShowsOutcome,
    FailureAtEnd, RestartSparesOutcome, FailureAfterOutcome, Status
<1>4. RestartAccountsForAll'
  BY <1>1 DEF ListedOrAccounted, RestartAccountsForAll, HasOutcome
<1> QED  BY <1>2, <1>3, <1>4

(***************************************************************************)
(* The books hold in every reachable state.                                *)
(***************************************************************************)
LEMMA BooksInvariant == Spec => []BooksInv
<1>1. Init => BooksInv
  <2>1. ASSUME Init PROVE RelayTypeOK
    BY <2>1 DEF Init, RelayTypeOK, Wire
  <2> QED  BY <2>1 DEF Init, BooksInv, OnlyWhileStarting, LiveHasNotFailed,
    MarkedShowsOutcome, ListedOrAccounted, BindingShowsOutcome,
    RestartAccountsForAll, FailureAtEnd, RestartSparesOutcome, FailureAfterOutcome, Live
<1>2. ASSUME BooksInv, [Next]_vars PROVE BooksInv'
  <2>1. RelayTypeOK /\ MarkedShowsOutcome
    BY <1>2 DEF BooksInv, BindingShowsOutcome
  <2>2. CASE \E p \in Proxies : ProxyStep(p)
    <3>1. PICK p \in Proxies : ProxyStep(p)
      BY <2>2
    <3>2. RelayTypeOK'
      BY <2>1, <3>1, CreateTypes, DestinationTypes, RelayTypes DEF ProxyStep
    <3>3. Quiet(p) \/ Records(p) \/ Elsewhere \/ Reconcile(p)
      BY <2>1, <3>1, KindsOfStep
    <3> QED  BY <1>2, <3>2, <3>3, QuietKeeps, RecordsKeeps, ElsewhereKeeps, ReconcileKeeps
  <2>3. CASE Crash \/ Restart \/ Serve \/ UNCHANGED vars
    <3>1. RelayTypeOK'
      BY <2>1, <2>3, NodeTypes
    <3>2. UNCHANGED vars => Elsewhere
      BY DEF vars, Elsewhere
    <3> QED  BY <1>2, <2>3, <3>1, <3>2, CrashKeeps, RestartKeeps, ServeKeeps, ElsewhereKeeps
  <2> QED  BY <1>2, <2>2, <2>3, StepOfOne
<1> QED  BY <1>1, <1>2, PTL DEF Spec

(***************************************************************************)
(* Whatever crashes and whenever, a node that serves has accounted for all *)
(* relays that were interrupted after their binding was stored.            *)
(***************************************************************************)
THEOREM RestartAccounts == Spec => []RestartAccountsForAll
<1>1. BooksInv => RestartAccountsForAll
  BY DEF BooksInv
<1> QED  BY <1>1, BooksInvariant, PTL

(***************************************************************************)
(* The variables stay typed, and a binding's outcome is one of its log.    *)
(***************************************************************************)
THEOREM BindingOutcome == Spec => []BindingShowsOutcome
<1>1. BooksInv => BindingShowsOutcome
  BY DEF BooksInv
<1> QED  BY <1>1, BooksInvariant, PTL

(***************************************************************************)
(* The origin's own failure ends the log of a proxy, through any number of *)
(* restarts, and no restart adds one to an outcome.                        *)
(***************************************************************************)
THEOREM OwnFailureEnds == Spec => []OwnFailureIsLast
<1>1. BooksInv => OwnFailureIsLast
  BY DEF BooksInv, FailureAtEnd, RestartSparesOutcome, FailureAfterOutcome, OwnFailure,
    OwnFailureIsLast, FailedByOrigin
<1> QED  BY <1>1, BooksInvariant, PTL

-----------------------------------------------------------------------------
(***************************************************************************)
(* Frames, and how far they were read, in numbers.                         *)
(***************************************************************************)
LEMMA FramesTyped ==
  ASSUME RelayTypeOK, NEW p \in Proxies
  PROVE  /\ wire[p].frames \in Seq(Event) /\ wire[p].read \in Nat
         /\ \A i \in DOMAIN wire[p].frames :
              /\ i \in 1..Len(wire[p].frames)
              /\ wire[p].frames[i].seq \in Nat \ {0}
         /\ wire[p].read <= Len(wire[p].frames) => ReadSeq(p) \in Nat
         /\ \A i \in DOMAIN log[p] : log[p][i].from \in Nat
<1>1. /\ wire[p].frames \in Seq(Event) /\ wire[p].read \in Nat
  BY WireUpdates DEF RelayTypeOK
<1>2. \A i \in DOMAIN wire[p].frames :
        i \in 1..Len(wire[p].frames) /\ wire[p].frames[i] \in Event
  BY <1>1
<1>3. \A i \in DOMAIN wire[p].frames : wire[p].frames[i].seq \in Nat \ {0}
  BY <1>2 DEF Event
<1>4. wire[p].read # 0 /\ wire[p].read <= Len(wire[p].frames) =>
        wire[p].read \in DOMAIN wire[p].frames
  BY <1>1
<1>5. log[p] \in Seq(Entry)
  BY DEF RelayTypeOK
<1>6. \A i \in DOMAIN log[p] : log[p][i] \in Entry
  BY <1>5
<1> QED  BY <1>1, <1>2, <1>3, <1>4, <1>6 DEF ReadSeq, Entry

\* dest and frames only get longer, and nothing is read.
PeerGrows ==
  /\ UNCHANGED log
  /\ \A q \in Proxies :
       /\ wire'[q].read = wire[q].read
       /\ \A i \in DOMAIN dest[q] : i \in DOMAIN dest'[q] /\ dest'[q][i] = dest[q][i]
       /\ \A i \in DOMAIN wire[q].frames :
            i \in DOMAIN wire'[q].frames /\ wire'[q].frames[i] = wire[q].frames[i]

(***************************************************************************)
(* What the peer adds does not disturb what was mirrored.                  *)
(***************************************************************************)
LEMMA GrowthKeeps ==
  ASSUME MirrorInv, PeerGrows
  PROVE  MirroredIsRead' /\ ProxyTellsTruth'
<1>1. \A q \in Proxies : ReadSeq(q)' = ReadSeq(q)
  <2>1. ASSUME NEW q \in Proxies, wire[q].read # 0
        PROVE  wire[q].read \in DOMAIN wire[q].frames
    <3>1. /\ wire[q].frames \in Seq(Event) /\ wire[q].read \in Nat
          /\ wire[q].read <= Len(wire[q].frames)
      BY FramesTyped DEF MirrorInv, PeerTold
    <3> QED  BY <2>1, <3>1
  <2> QED  BY <2>1 DEF PeerGrows, ReadSeq
<1>2. MirroredIsRead'
  BY <1>1 DEF MirrorInv, MirroredIsRead, PeerGrows
<1>3. ProxyTellsTruth'
  BY DEF MirrorInv, ProxyTellsTruth, PeerGrows
<1> QED  BY <1>2, <1>3

(***************************************************************************)
(* A stream that changes its place only is still told from dest.           *)
(***************************************************************************)
LEMMA PlaceKeeps ==
  ASSUME MirrorInv, UNCHANGED <<dest, log>>,
         \A q \in Proxies : wire'[q].frames = wire[q].frames /\ wire'[q].read = wire[q].read
  PROVE  PeerTold' /\ MirroredIsRead' /\ ProxyTellsTruth'
<1>1. PeerGrows
  BY DEF PeerGrows
<1>2. PeerTold'
  BY DEF MirrorInv, PeerTold
<1> QED  BY <1>1, <1>2, GrowthKeeps

\* The destination task begins, before any frame.
LEMMA AcceptMirrors ==
  ASSUME MirrorInv, NEW p \in Proxies, Accept(p)
  PROVE  PeerTold' /\ MirroredIsRead' /\ ProxyTellsTruth'
<1>1. /\ UNCHANGED <<wire, log>> /\ dest[p] = <<>>
      /\ dest' = [dest EXCEPT ![p] =
           <<[seq |-> 1, kind |-> "task.created", state |-> "created"]>>]
      /\ dest \in [Proxies -> Seq(Event)]
  BY DEF Accept, MirrorInv, RelayTypeOK
<1>2. /\ \A q \in Proxies \ {p} : dest'[q] = dest[q]
      /\ \A i \in DOMAIN dest'[p] : dest'[p][i].seq = i
  BY <1>1
<1>3. DOMAIN dest[p] = {}
  BY <1>1
<1>4. PeerGrows
  BY <1>1, <1>2, <1>3 DEF PeerGrows
<1>5. PeerTold'
  <2>1. DOMAIN wire[p].frames = {}
    BY <1>3 DEF MirrorInv, PeerTold
  <2> QED  BY <1>1, <1>2, <2>1 DEF MirrorInv, PeerTold
<1> QED  BY <1>4, <1>5, GrowthKeeps

\* The destination records an event under the next number.
LEMMA DestMirrors ==
  ASSUME MirrorInv, NEW p \in Proxies, DestRecords(p)
  PROVE  PeerTold' /\ MirroredIsRead' /\ ProxyTellsTruth'
<1>1. PICK in \in DestInputs : dest' = [dest EXCEPT ![p] = Append(@,
                 [seq |-> Len(@) + 1, kind |-> in.kind, state |-> in.state])]
  BY DEF DestRecords
<1> DEFINE e == [seq |-> Len(dest[p]) + 1, kind |-> in.kind, state |-> in.state]
<1>2. dest[p] \in Seq(Event) /\ e \in Event /\ dest'[p] = Append(dest[p], e)
      /\ \A q \in Proxies \ {p} : dest'[q] = dest[q]
  BY <1>1 DEF MirrorInv, RelayTypeOK, Event
<1>3. /\ \A i \in DOMAIN dest[p] : i \in DOMAIN dest'[p] /\ dest'[p][i] = dest[p][i]
      /\ \A i \in DOMAIN dest'[p] : i \in DOMAIN dest[p] \/ i = Len(dest[p]) + 1
      /\ dest'[p][Len(dest[p]) + 1] = e
  <2> HIDE DEF e
  <2> QED  BY <1>2, Appended
<1>4. UNCHANGED <<wire, log>>
  BY DEF DestRecords
<1>5. PeerGrows
  BY <1>2, <1>3, <1>4 DEF PeerGrows
<1>6. PeerTold'
  <2>1. \A i \in DOMAIN dest'[p] : dest'[p][i].seq = i
    BY <1>3 DEF MirrorInv, PeerTold
  <2>2. \A q \in Proxies : \A i \in DOMAIN dest'[q] : dest'[q][i].seq = i
    BY <1>2, <2>1 DEF MirrorInv, PeerTold
  <2> QED  BY <1>4, <1>5, <2>2 DEF MirrorInv, PeerTold, PeerGrows
<1> QED  BY <1>5, <1>6, GrowthKeeps

\* A frame is written whose number is above all others.
LEMMA SendMirrors ==
  ASSUME MirrorInv, NEW p \in Proxies, SendFrame(p)
  PROVE  PeerTold' /\ MirroredIsRead' /\ ProxyTellsTruth'
<1> DEFINE fs == wire[p].frames
<1>1. PICK n \in (LastFrame(p) + 1)..Len(dest[p]) :
        wire' = [wire EXCEPT ![p].frames = Append(@, dest[p][n])]
  BY DEF SendFrame
<1>2. /\ wire[p].read \in Nat /\ wire[p].read <= Len(fs)
      /\ fs \in Seq(Event) /\ \A i \in DOMAIN fs : i \in 1..Len(fs) /\ fs[i].seq \in Nat \ {0}
  BY FramesTyped DEF MirrorInv, PeerTold
<1>3. LastFrame(p) \in Nat /\ \A i \in DOMAIN fs : fs[i].seq <= LastFrame(p)
  <2>1. CASE fs = <<>>
    BY <2>1 DEF LastFrame
  <2>2. CASE fs # <<>>
    <3>1. Len(fs) \in DOMAIN fs /\ LastFrame(p) = fs[Len(fs)].seq
      BY <1>2, <2>2, LastOf DEF LastFrame
    <3>2. \A i \in DOMAIN fs : i = Len(fs) \/ i < Len(fs)
      BY <1>2
    <3>3. \A i \in DOMAIN fs : i < Len(fs) => fs[i].seq < fs[Len(fs)].seq
      BY <3>1 DEF MirrorInv, PeerTold
    <3> QED  BY <1>2, <3>1, <3>2, <3>3
  <2> QED  BY <2>1, <2>2
<1>4. n \in DOMAIN dest[p] /\ dest[p][n] \in Event /\ dest[p][n].seq = n
  <2>1. dest[p] \in Seq(Event) /\ n \in 1..Len(dest[p])
    BY <1>1, <1>3 DEF MirrorInv, RelayTypeOK
  <2>2. n \in DOMAIN dest[p] /\ dest[p][n] \in Event
    BY <2>1
  <2> QED  BY <2>2 DEF MirrorInv, PeerTold
<1>5. UNCHANGED <<dest, log>>
  BY DEF SendFrame
<1>6. /\ \A q \in Proxies \ {p} : wire'[q] = wire[q]
      /\ wire'[p].frames = Append(fs, dest[p][n]) /\ wire'[p].read = wire[p].read
  <2>1. wire \in [Proxies -> Wire] /\ wire[p] \in Wire
    BY DEF MirrorInv, RelayTypeOK
  <2> QED  BY <1>1, <2>1 DEF Wire
<1>7. /\ \A i \in DOMAIN fs : i \in 1..Len(fs) /\ i \in DOMAIN wire'[p].frames
                             /\ wire'[p].frames[i] = fs[i]
      /\ \A i \in DOMAIN wire'[p].frames : i \in DOMAIN fs \/ i = Len(fs) + 1
      /\ wire'[p].frames[Len(fs) + 1] = dest[p][n]
      /\ Len(wire'[p].frames) = Len(fs) + 1
  BY <1>2, <1>4, <1>6, Appended
<1>8. PeerGrows
  BY <1>5, <1>6, <1>7 DEF PeerGrows
<1>9. PeerTold'
  <2>1. \A i \in DOMAIN wire'[p].frames :
          /\ wire'[p].frames[i].seq \in DOMAIN dest[p]
          /\ wire'[p].frames[i] = dest[p][wire'[p].frames[i].seq]
    <3>1. ASSUME NEW i \in DOMAIN fs
          PROVE  fs[i].seq \in DOMAIN dest[p] /\ fs[i] = dest[p][fs[i].seq]
      BY <3>1 DEF MirrorInv, PeerTold
    <3>2. dest[p][n].seq \in DOMAIN dest[p] /\ dest[p][n] = dest[p][dest[p][n].seq]
      BY <1>4
    <3> HIDE DEF fs
    <3> QED  BY <1>7, <3>1, <3>2
  <2>2. ASSUME NEW i \in DOMAIN wire'[p].frames, NEW j \in DOMAIN wire'[p].frames, i < j
        PROVE  wire'[p].frames[i].seq < wire'[p].frames[j].seq
    <3>1. Len(fs) \in Nat
      BY <1>2
    <3>2. i \in DOMAIN fs
      BY <1>7, <2>2, <3>1
    <3>3. CASE j \in DOMAIN fs
      BY <1>7, <2>2, <3>2, <3>3 DEF MirrorInv, PeerTold
    <3>4. CASE j = Len(fs) + 1
      <4>1. wire'[p].frames[i].seq = fs[i].seq /\ wire'[p].frames[j].seq = n
        BY <1>4, <1>7, <3>2, <3>4
      <4>2. fs[i].seq <= LastFrame(p) /\ n > LastFrame(p) /\ fs[i].seq \in Nat
        BY <1>1, <1>2, <1>3, <3>2
      <4> QED  BY <1>3, <4>1, <4>2
    <3> QED  BY <1>7, <3>3, <3>4
  <2>3. wire'[p].read <= Len(wire'[p].frames)
    <3>1. Len(fs) \in Nat
      BY <1>2
    <3> QED  BY <1>2, <1>6, <1>7, <3>1
  <2>4. \A q \in Proxies \ {p} : wire'[q] = wire[q] /\ dest'[q] = dest[q]
    BY <1>5, <1>6
  <2> HIDE DEF fs
  <2> QED  BY <1>5, <2>1, <2>2, <2>3, <2>4 DEF MirrorInv, PeerTold
<1> QED  BY <1>8, <1>9, GrowthKeeps

(***************************************************************************)
(* One frame read is one entry mirrored, with a number above all others.   *)
(***************************************************************************)
LEMMA MirrorMirrors ==
  ASSUME MirrorInv, NEW p \in Proxies, Mirror(p)
  PROVE  PeerTold' /\ MirroredIsRead' /\ ProxyTellsTruth'
<1> DEFINE fs == wire[p].frames
<1> DEFINE f == NextFrame(p)
<1>1. RelayTypeOK /\ Unread(p) /\ UNCHANGED dest /\ Record(p, Mirrored(f))
      /\ wire' = [wire EXCEPT ![p].read = @ + 1]
  BY DEF MirrorInv, Mirror
<1>2. /\ \A q \in Proxies \ {p} : wire'[q] = wire[q]
      /\ wire'[p].frames = fs /\ wire'[p].read = wire[p].read + 1
  <2>1. wire \in [Proxies -> Wire] /\ wire[p] \in Wire
    BY <1>1 DEF RelayTypeOK
  <2> QED  BY <1>1, <2>1 DEF Wire
<1>3. /\ Mirrored(f) \in Entry /\ f.seq > 0
      /\ wire[p].read + 1 \in DOMAIN fs /\ f = fs[wire[p].read + 1]
  BY <1>1, NextFrameTyped DEF NextFrame
<1>4. /\ fs \in Seq(Event) /\ wire[p].read \in Nat /\ wire[p].read <= Len(fs)
      /\ \A i \in DOMAIN fs : i \in 1..Len(fs) /\ fs[i].seq \in Nat
      /\ ReadSeq(p) \in Nat
      /\ \A i \in DOMAIN log[p] : log[p][i].from \in Nat
  BY <1>1, FramesTyped DEF MirrorInv, PeerTold
<1>5. ReadSeq(p) < f.seq
  <2>1. CASE wire[p].read = 0
    BY <1>3, <1>4, <2>1 DEF ReadSeq
  <2>2. CASE wire[p].read # 0
    <3>1. wire[p].read \in DOMAIN fs /\ wire[p].read < wire[p].read + 1
      BY <1>3, <1>4, <2>2
    <3>2. fs[wire[p].read].seq < fs[wire[p].read + 1].seq
      BY <1>3, <3>1 DEF MirrorInv, PeerTold
    <3> QED  BY <1>3, <2>2, <3>2 DEF ReadSeq
  <2> QED  BY <2>1, <2>2
<1>6. ReadSeq(p)' = f.seq /\ \A q \in Proxies \ {p} : ReadSeq(q)' = ReadSeq(q)
  <2>1. wire[p].read + 1 # 0
    BY <1>4
  <2> QED  BY <1>2, <1>3, <2>1 DEF ReadSeq
<1>7. /\ \A q \in Proxies \ {p} : log'[q] = log[q]
      /\ \A k \in DOMAIN log'[p] :
           \/ k \in DOMAIN log[p] /\ log'[p][k] = log[p][k]
           \/ k = Len(log[p]) + 1 /\ log'[p][k] = Mirrored(f)
      /\ \A k \in DOMAIN log[p] : k \in Nat /\ k <= Len(log[p])
      /\ Len(log[p]) \in Nat
  <2> HIDE DEF f, Record
  <2> QED  BY <1>1, <1>3, RecordAppends
<1>8. Mirrored(f).from = f.seq /\ Mirrored(f).state = f.state
  BY DEF Mirrored
<1>9. PeerTold'
  <2>1. wire'[p].read <= Len(wire'[p].frames)
    BY <1>2, <1>3, <1>4
  <2>2. \A q \in Proxies : wire'[q].frames = wire[q].frames
    BY <1>2
  <2>3. \A q \in Proxies : wire'[q].read <= Len(wire'[q].frames)
    BY <1>2, <2>1 DEF MirrorInv, PeerTold
  <2> QED  BY <1>1, <2>2, <2>3 DEF MirrorInv, PeerTold
<1>10. \A k \in DOMAIN log[p] : log[p][k].from < f.seq
  BY <1>3, <1>4, <1>5 DEF MirrorInv, MirroredIsRead
<1>11. MirroredIsRead'
  <2>1. ASSUME NEW k \in DOMAIN log'[p] PROVE log'[p][k].from <= f.seq
    <3>1. f.seq \in Nat
      BY <1>3, <1>4
    <3> QED  BY <1>4, <1>7, <1>8, <1>10, <3>1
  <2> HIDE DEF f
  <2> QED  BY <1>6, <1>7, <2>1 DEF MirrorInv, MirroredIsRead
<1>12. ProxyTellsTruth'
  <2>1. /\ f.seq \in DOMAIN dest[p] /\ f.state = dest[p][f.seq].state
    BY <1>3 DEF MirrorInv, PeerTold
  <2>2. ASSUME NEW i \in DOMAIN log'[p], NEW j \in DOMAIN log'[p], i < j,
               log'[p][i].from > 0, log'[p][j].from > 0
        PROVE  log'[p][i].from < log'[p][j].from
    <3>1. i \in DOMAIN log[p] /\ log'[p][i] = log[p][i]
      BY <1>7, <2>2
    <3>2. CASE j \in DOMAIN log[p] /\ log'[p][j] = log[p][j]
      BY <2>2, <3>1, <3>2 DEF MirrorInv, ProxyTellsTruth
    <3>3. CASE log'[p][j] = Mirrored(f)
      BY <1>8, <1>10, <3>1, <3>3
    <3> QED  BY <1>7, <3>2, <3>3
  <2>3. ASSUME NEW i \in DOMAIN log'[p]
        PROVE  IF log'[p][i].from = 0 THEN log'[p][i].state # "completed"
               ELSE /\ log'[p][i].from \in DOMAIN dest[p]
                    /\ log'[p][i].state = dest[p][log'[p][i].from].state
    <3>1. CASE i \in DOMAIN log[p] /\ log'[p][i] = log[p][i]
      BY <3>1 DEF MirrorInv, ProxyTellsTruth
    <3>2. CASE log'[p][i] = Mirrored(f)
      BY <1>3, <1>8, <2>1, <3>2
    <3> QED  BY <1>7, <3>1, <3>2
  <2> HIDE DEF f
  <2> QED  BY <1>1, <1>7, <2>2, <2>3 DEF MirrorInv, ProxyTellsTruth
<1> QED  BY <1>9, <1>11, <1>12

(***************************************************************************)
(* The origin's own entries mirror nothing and claim no completion.        *)
(***************************************************************************)
LEMMA OwnRecordMirrors ==
  ASSUME MirrorInv, UNCHANGED dest, NEW p \in Proxies,
         \A q \in Proxies : wire'[q].frames = wire[q].frames /\ wire'[q].read = wire[q].read,
         NEW kind \in Kinds, NEW state \in Statuses \ {"completed"},
         Record(p, Own(kind, state))
  PROVE  PeerTold' /\ MirroredIsRead' /\ ProxyTellsTruth'
<1> DEFINE e == Own(kind, state)
<1>1. e \in Entry /\ e.from = 0 /\ e.state # "completed"
  BY DEF Entry
<1>2. /\ \A q \in Proxies \ {p} : log'[q] = log[q]
      /\ \A k \in DOMAIN log'[p] :
           \/ k \in DOMAIN log[p] /\ log'[p][k] = log[p][k]
           \/ log'[p][k] = e
  <2>1. RelayTypeOK /\ Record(p, e)
    BY DEF MirrorInv
  <2> HIDE DEF e, Record
  <2> QED  BY <1>1, <2>1, RecordAppends
<1> HIDE DEF e
<1>3. PeerTold'
  BY DEF MirrorInv, PeerTold
<1>4. MirroredIsRead'
  <2>1. \A q \in Proxies : ReadSeq(q)' = ReadSeq(q) /\ ReadSeq(q) \in Nat
    BY FramesTyped DEF MirrorInv, PeerTold, ReadSeq
  <2>2. \A k \in DOMAIN log'[p] : log'[p][k].from <= ReadSeq(p)
    BY <1>1, <1>2, <2>1 DEF MirrorInv, MirroredIsRead
  <2> QED  BY <1>2, <2>1, <2>2 DEF MirrorInv, MirroredIsRead
<1>5. ProxyTellsTruth'
  <2>1. \A i, j \in DOMAIN log'[p] :
          i < j /\ log'[p][i].from > 0 /\ log'[p][j].from > 0 =>
             log'[p][i].from < log'[p][j].from
    BY <1>1, <1>2 DEF MirrorInv, ProxyTellsTruth
  <2>2. ASSUME NEW i \in DOMAIN log'[p]
        PROVE  IF log'[p][i].from = 0 THEN log'[p][i].state # "completed"
               ELSE /\ log'[p][i].from \in DOMAIN dest[p]
                    /\ log'[p][i].state = dest[p][log'[p][i].from].state
    BY <1>1, <1>2 DEF MirrorInv, ProxyTellsTruth
  <2> QED  BY <1>2, <2>1, <2>2 DEF MirrorInv, ProxyTellsTruth
<1> QED  BY <1>3, <1>4, <1>5

(***************************************************************************)
(* The remaining steps record an event of the origin's own, or none.       *)
(***************************************************************************)
OwnStep ==
  \E p \in Proxies, kind \in Kinds, state \in Statuses \ {"completed"} :
    Record(p, Own(kind, state))

\* A step that leaves dest, frames and what was read as they are.
LEMMA OtherStepsMirror ==
  ASSUME MirrorInv, UNCHANGED dest, UNCHANGED log \/ OwnStep,
         \A q \in Proxies : wire'[q].frames = wire[q].frames /\ wire'[q].read = wire[q].read
  PROVE  PeerTold' /\ MirroredIsRead' /\ ProxyTellsTruth'
<1>1. CASE UNCHANGED log
  BY <1>1, PlaceKeeps
<1>2. CASE OwnStep
  <2>1. PICK p \in Proxies, kind \in Kinds, state \in Statuses \ {"completed"} :
          Record(p, Own(kind, state))
    BY <1>2 DEF OwnStep
  <2> QED  BY <2>1, OwnRecordMirrors
<1> QED  BY <1>1, <1>2

\* A stream that changes its place keeps its frames.
LEMMA PlaceOfOne ==
  ASSUME RelayTypeOK, NEW p \in Proxies, NEW at,
         wire' = [wire EXCEPT ![p] = [@ EXCEPT !.at = at]]
  PROVE  /\ \A q \in Proxies : wire'[q].frames = wire[q].frames /\ wire'[q].read = wire[q].read
         /\ \A q \in Proxies \ {p} : wire'[q].at = wire[q].at
         /\ wire'[p].at = at
<1>1. wire \in [Proxies -> Wire] /\ wire[p] \in Wire
  BY DEF RelayTypeOK
<1>2. /\ \A q \in Proxies \ {p} : wire'[q] = wire[q]
      /\ wire'[p] = [wire[p] EXCEPT !.at = at]
  BY <1>1
<1>3. wire'[p].frames = wire[p].frames /\ wire'[p].read = wire[p].read /\ wire'[p].at = at
  BY <1>1, <1>2 DEF Wire
<1> QED  BY <1>2, <1>3

\* Every step of a proxy keeps the second invariant.
LEMMA OneMirrors ==
  ASSUME MirrorInv, NEW p \in Proxies, ProxyStep(p)
  PROVE  PeerTold' /\ MirroredIsRead' /\ ProxyTellsTruth'
<1> DEFINE Same == UNCHANGED peerVars /\ (UNCHANGED log \/ OwnStep)
<1>1. Same => PeerTold' /\ MirroredIsRead' /\ ProxyTellsTruth'
  BY OtherStepsMirror
<1>2. CASE CreateProxy(p) \/ AbandonCreate(p)
  <2>1. Same
    BY <1>2 DEF CreateProxy, AbandonCreate, InsertProxy, RecordCreated, RecordRouted,
      StartRelay, OwnStep
  <2> QED  BY <1>1, <2>1
<1>3. CASE Fails(p) \/ RecordCut(p)
  <2>1. Same
    BY <1>3 DEF Fails, SubmitFails, BindFails, TurnBindFails, RecordCut, OwnStep
  <2> QED  BY <1>1, <2>1
<1>4. CASE Accepted(p) \/ Bind(p) \/ Dispatch(p) \/ MarkOutcome(p) \/ StreamEnds(p)
  <2>1. Same
    BY <1>4 DEF Accepted, Bind, Dispatch, MarkOutcome, StreamEnds, OwnStep
  <2> QED  BY <1>1, <2>1
<1>5. CASE Reconcile(p)
  <2>1. Same
    BY <1>5 DEF Reconcile, OwnStep
  <2> QED  BY <1>1, <2>1
<1>6. CASE CloseStream(p) \/ CutStream(p) \/ OpenStream(p) \/ StreamFails(p)
  <2>1. UNCHANGED <<dest, log>>
    BY <1>6 DEF CloseStream, CutStream, OpenStream, StreamFails
  <2>2. PICK at \in {"closed", "cut", "open", wire[p].at} :
          wire' = [wire EXCEPT ![p] = [@ EXCEPT !.at = at]]
    BY <1>6 DEF CloseStream, CutStream, OpenStream, StreamFails
  <2> QED  BY <2>1, <2>2, PlaceOfOne, OtherStepsMirror DEF MirrorInv
<1> QED
  BY <1>2, <1>3, <1>4, <1>5, <1>6, AcceptMirrors, DestMirrors, SendMirrors, MirrorMirrors
  DEF ProxyStep, Destination, RelayStep

\* So does every step of the node.
LEMMA NodeMirrors ==
  ASSUME MirrorInv, Crash \/ Restart \/ Serve \/ UNCHANGED vars
  PROVE  PeerTold' /\ MirroredIsRead' /\ ProxyTellsTruth'
<1>1. UNCHANGED <<dest, log>>
  BY DEF Crash, Restart, Serve, vars
<1>2. \A q \in Proxies : wire'[q].frames = wire[q].frames /\ wire'[q].read = wire[q].read
  <2>1. CASE Crash
    <3>1. \A q \in Proxies :
            wire[q] \in Wire /\ \E at : wire'[q] = [wire[q] EXCEPT !.at = at]
      BY <2>1 DEF Crash, MirrorInv, RelayTypeOK
    <3> QED  BY <3>1 DEF Wire
  <2>2. CASE Restart \/ Serve \/ UNCHANGED vars
    BY <2>2 DEF Restart, Serve, vars
  <2> QED  BY <2>1, <2>2
<1> QED  BY <1>1, <1>2, OtherStepsMirror

(***************************************************************************)
(* The second invariant holds in every reachable state.                    *)
(***************************************************************************)
LEMMA MirrorInvariant == Spec => []MirrorInv
<1>1. BooksInv => RelayTypeOK
  BY DEF BooksInv, BindingShowsOutcome
<1>2. Init => MirrorInv
  <2>1. ASSUME Init PROVE RelayTypeOK
    BY <2>1 DEF Init, RelayTypeOK, Wire
  <2>2. ASSUME Init, NEW p \in Proxies
        PROVE  /\ dest[p] = <<>> /\ log[p] = <<>>
               /\ wire[p].frames = <<>> /\ wire[p].read = 0
    BY <2>2 DEF Init
  <2> QED  BY <2>1, <2>2 DEF MirrorInv, PeerTold, MirroredIsRead, ProxyTellsTruth
<1>3. ASSUME MirrorInv, RelayTypeOK', [Next]_vars PROVE MirrorInv'
  BY <1>3, StepOfOne, OneMirrors, NodeMirrors DEF MirrorInv
<1> QED  BY <1>1, <1>2, <1>3, BooksInvariant, PTL DEF Spec

(***************************************************************************)
(* What a proxy tells is true in every reachable state: its mirrored       *)
(* events are the destination's, in its order and each at most once, and   *)
(* the origin never claims a completion of its own.                        *)
(***************************************************************************)
THEOREM ProxyTruth == Spec => []ProxyTellsTruth
<1>1. MirrorInv => ProxyTellsTruth
  BY DEF MirrorInv
<1> QED  BY <1>1, MirrorInvariant, PTL

-----------------------------------------------------------------------------
(***************************************************************************)
(* FrameFeed and Relay speak of the same states and events.                *)
(***************************************************************************)
LEMMA SameWords ==
  ASSUME NEW p \in Proxies
  PROVE  /\ Feed(p)!Terminal = Terminal
         /\ Feed(p)!Statuses = Statuses
         /\ Feed(p)!Kinds = Kinds
         /\ Feed(p)!LastSeq = LastFrame(p)
         /\ \A sent : Feed(p)!Ended(sent) = EndSent(sent)
BY DEF Feed!Terminal, Feed!Statuses, Feed!Kinds, Feed!LastSeq, Feed!Ended, LastFrame, EndSent

\* The stream is opened once.
Unopened == {"new", "routed", "submitted", "accepted", "bound", "dispatched"} \cup Creating

IdleUntilOpened ==
  \A p \in Proxies : relay[p] \in Unopened => wire[p].at = "idle"

FeedOrNothing(p) == Feed(p)!FeedNext \/ UNCHANGED Feed(p)!feedVars

\* Writing a frame is the feed's Send.
LEMMA SendIsSend ==
  ASSUME MirrorInv, NEW p \in Proxies, SendFrame(p)
  PROVE  Feed(p)!Send /\ \A q \in Proxies \ {p} : UNCHANGED Feed(q)!feedVars
<1>1. PICK n \in (LastFrame(p) + 1)..Len(dest[p]) :
        wire' = [wire EXCEPT ![p].frames = Append(@, dest[p][n])]
  BY DEF SendFrame
<1>2. UNCHANGED dest /\ wire[p].at = "open"
  BY DEF SendFrame
<1>3. wire \in [Proxies -> Wire] /\ wire[p] \in Wire
  BY DEF MirrorInv, RelayTypeOK
<1>4. /\ \A q \in Proxies \ {p} : wire'[q] = wire[q]
      /\ wire'[p].frames = Append(wire[p].frames, dest[p][n]) /\ wire'[p].at = "open"
  BY <1>1, <1>2, <1>3 DEF Wire
<1>5. \A q \in Proxies \ {p} : UNCHANGED Feed(q)!feedVars
  BY <1>2, <1>4 DEF Feed!feedVars
<1>6. LastFrame(p) \in Nat
  BY LastFrameTyped DEF MirrorInv
<1>7. dest[p] \in Seq(Event) /\ n \in DOMAIN dest[p]
  BY <1>1, <1>6 DEF MirrorInv, RelayTypeOK
<1>8. dest[p][n].seq > LastFrame(p)
  BY <1>1, <1>6, <1>7 DEF MirrorInv, PeerTold
<1> QED  BY <1>2, <1>4, <1>5, <1>7, <1>8, SameWords DEF Feed!Send

\* What the destination records is the feed's Grow.
LEMMA DestIsGrow ==
  ASSUME MirrorInv, NEW p \in Proxies, Accept(p) \/ DestRecords(p)
  PROVE  Feed(p)!Grow /\ \A q \in Proxies \ {p} : UNCHANGED Feed(q)!feedVars
<1>1. \E kind \in Kinds, state \in Statuses :
        dest' = [dest EXCEPT ![p] =
                   Append(@, [seq |-> Len(@) + 1, kind |-> kind, state |-> state])]
  <2>1. CASE Accept(p)
    <3>1. dest[p] = <<>> /\ dest' = [dest EXCEPT ![p] =
            <<[seq |-> 1, kind |-> "task.created", state |-> "created"]>>]
      BY <2>1 DEF Accept
    <3>2. Append(dest[p], [seq |-> Len(dest[p]) + 1, kind |-> "task.created",
                           state |-> "created"])
            = <<[seq |-> 1, kind |-> "task.created", state |-> "created"]>>
      BY <3>1
    <3> QED  BY <3>1, <3>2
  <2>2. CASE DestRecords(p)
    <3>1. PICK in \in DestInputs : dest' = [dest EXCEPT ![p] = Append(@,
                 [seq |-> Len(@) + 1, kind |-> in.kind, state |-> in.state])]
      BY <2>2 DEF DestRecords
    <3>2. in.kind \in Kinds /\ in.state \in Statuses
      OBVIOUS
    <3> HIDE DEF Kinds, Statuses
    <3> QED  BY <3>1, <3>2
  <2> QED  BY <2>1, <2>2
<1>2. PICK kind \in Kinds, state \in Statuses :
        dest' = [dest EXCEPT ![p] =
                   Append(@, [seq |-> Len(@) + 1, kind |-> kind, state |-> state])]
  BY <1>1
<1> DEFINE e == [seq |-> Len(dest[p]) + 1, kind |-> kind, state |-> state]
<1>3. dest[p] \in Seq(Event) /\ dest'[p] = Append(dest[p], e) /\ e \in Event
      /\ \A q \in Proxies \ {p} : dest'[q] = dest[q]
  BY <1>2 DEF MirrorInv, RelayTypeOK, Event
<1>4. dest'[p] # dest[p]
  <2> HIDE DEF e
  <2>1. Len(dest[p]) \in Nat /\ Len(dest'[p]) = Len(dest[p]) + 1
    BY <1>3, Appended
  <2> QED  BY <2>1
<1>5. UNCHANGED wire
  BY DEF Accept, DestRecords
<1>6. Feed(p)!Grow
  BY <1>3, <1>4, <1>5, SameWords DEF Feed!Grow
<1>7. \A q \in Proxies \ {p} : UNCHANGED Feed(q)!feedVars
  BY <1>3, <1>5 DEF Feed!feedVars
<1> QED  BY <1>6, <1>7

\* Opening, closing and cutting a stream are the feed's.
LEMMA PlaceIsFeed ==
  ASSUME MirrorInv, IdleUntilOpened, NEW p \in Proxies,
         CloseStream(p) \/ CutStream(p) \/ OpenStream(p) \/ StreamFails(p)
  PROVE  FeedOrNothing(p) /\ \A q \in Proxies \ {p} : UNCHANGED Feed(q)!feedVars
<1>1. PICK at \in {"closed", "cut", "open", wire[p].at} :
        /\ wire' = [wire EXCEPT ![p] = [@ EXCEPT !.at = at]]
        /\ \/ at = "closed" /\ wire[p].at = "open" /\ EndSent(wire[p].frames)
           \/ at = "cut" /\ wire[p].at = "open"
           \/ at = "open" /\ wire[p].at = "idle"
           \/ at = wire[p].at
  <2>1. CASE OpenStream(p)
    <3>1. wire[p].at = "idle"
      BY <2>1 DEF OpenStream, IdleUntilOpened, Unopened
    <3> QED  BY <2>1, <3>1 DEF OpenStream
  <2>2. CASE CloseStream(p) \/ CutStream(p) \/ StreamFails(p)
    BY <2>2 DEF CloseStream, CutStream, StreamFails
  <2> QED  BY <2>1, <2>2
<1>2. UNCHANGED dest
  BY DEF CloseStream, CutStream, OpenStream, StreamFails
<1>3. /\ \A q \in Proxies : wire'[q].frames = wire[q].frames
      /\ \A q \in Proxies \ {p} : wire'[q].at = wire[q].at
      /\ wire'[p].at = at
  BY <1>1, PlaceOfOne DEF MirrorInv
<1>4. \A q \in Proxies \ {p} : UNCHANGED Feed(q)!feedVars
  BY <1>2, <1>3 DEF Feed!feedVars
<1>5. CASE at = wire[p].at
  BY <1>2, <1>3, <1>4, <1>5 DEF FeedOrNothing, Feed!feedVars
<1>6. CASE at # wire[p].at
  <2>1. Feed(p)!Open \/ Feed(p)!Close \/ Feed(p)!Cut
    BY <1>1, <1>2, <1>3, <1>6, SameWords DEF Feed!Open, Feed!Close, Feed!Cut
  <2> QED  BY <1>4, <2>1 DEF FeedOrNothing, Feed!FeedNext
<1> QED  BY <1>4, <1>5, <1>6

\* Reading a frame is no step of the feed.
LEMMA MirrorIsNoFeed ==
  ASSUME MirrorInv, NEW p \in Proxies, Mirror(p)
  PROVE  \A q \in Proxies : UNCHANGED Feed(q)!feedVars
<1>1. wire \in [Proxies -> Wire] /\ wire[p] \in Wire
      /\ wire' = [wire EXCEPT ![p].read = @ + 1] /\ UNCHANGED dest
  BY DEF MirrorInv, RelayTypeOK, Mirror
<1>2. /\ \A q \in Proxies \ {p} : wire'[q] = wire[q]
      /\ wire'[p].frames = wire[p].frames /\ wire'[p].at = wire[p].at
  BY <1>1 DEF Wire
<1> QED  BY <1>1, <1>2 DEF Feed!feedVars

\* Every step of a proxy is one of its feed and of no other's.
LEMMA OneIsFeed ==
  ASSUME MirrorInv, IdleUntilOpened, NEW p \in Proxies, ProxyStep(p)
  PROVE  \A q \in Proxies : FeedOrNothing(q)
<1>1. UNCHANGED peerVars => \A q \in Proxies : UNCHANGED Feed(q)!feedVars
  BY DEF Feed!feedVars
<1>2. CASE CreateProxy(p) \/ AbandonCreate(p)
  <2>1. UNCHANGED peerVars
    BY <1>2 DEF CreateProxy, AbandonCreate, InsertProxy, RecordCreated, RecordRouted,
      StartRelay
  <2> QED  BY <1>1, <2>1 DEF FeedOrNothing
<1>3. CASE Fails(p) \/ RecordCut(p) \/ Reconcile(p)
  <2>1. UNCHANGED peerVars
    BY <1>3 DEF Fails, SubmitFails, BindFails, TurnBindFails, RecordCut, Reconcile
  <2> QED  BY <1>1, <2>1 DEF FeedOrNothing
<1>4. CASE Accepted(p) \/ Bind(p) \/ Dispatch(p) \/ MarkOutcome(p) \/ StreamEnds(p)
  <2>1. UNCHANGED peerVars
    BY <1>4 DEF Accepted, Bind, Dispatch, MarkOutcome, StreamEnds
  <2> QED  BY <1>1, <2>1 DEF FeedOrNothing
<1>5. CASE Accept(p) \/ DestRecords(p)
  <2>1. Feed(p)!Grow /\ \A q \in Proxies \ {p} : UNCHANGED Feed(q)!feedVars
    BY <1>5, DestIsGrow
  <2> QED  BY <2>1 DEF FeedOrNothing, Feed!FeedNext
<1>6. CASE SendFrame(p)
  <2>1. Feed(p)!Send /\ \A q \in Proxies \ {p} : UNCHANGED Feed(q)!feedVars
    BY <1>6, SendIsSend
  <2> QED  BY <2>1 DEF FeedOrNothing, Feed!FeedNext
<1>7. CASE CloseStream(p) \/ CutStream(p) \/ OpenStream(p) \/ StreamFails(p)
  BY <1>7, PlaceIsFeed DEF FeedOrNothing
<1>8. CASE Mirror(p)
  BY <1>8, MirrorIsNoFeed DEF FeedOrNothing
<1> QED
  BY <1>2, <1>3, <1>4, <1>5, <1>6, <1>7, <1>8 DEF ProxyStep, Destination, RelayStep

\* A crash cuts all feeds that were open.
LEMMA NodeIsFeed ==
  ASSUME MirrorInv, Crash \/ Restart \/ Serve \/ UNCHANGED vars
  PROVE  \A q \in Proxies : FeedOrNothing(q)
<1>1. UNCHANGED dest
  BY DEF Crash, Restart, Serve, vars
<1>2. CASE Crash
  <2>1. ASSUME NEW q \in Proxies
        PROVE  /\ wire'[q].frames = wire[q].frames
               /\ wire'[q].at = IF wire[q].at = "open" THEN "cut" ELSE wire[q].at
    <3>1. wire[q] \in Wire /\ wire'[q] = [wire[q] EXCEPT !.at = IF @ = "open" THEN "cut" ELSE @]
      BY <1>2 DEF Crash, MirrorInv, RelayTypeOK
    <3> QED  BY <3>1 DEF Wire
  <2>2. ASSUME NEW q \in Proxies PROVE Feed(q)!Cut \/ UNCHANGED Feed(q)!feedVars
    BY <1>1, <2>1 DEF Feed!Cut, Feed!feedVars
  <2> QED  BY <2>2 DEF FeedOrNothing, Feed!FeedNext
<1>3. CASE Restart \/ Serve \/ UNCHANGED vars
  <2>1. UNCHANGED wire
    BY <1>3 DEF Restart, Serve, vars
  <2> QED  BY <1>1, <2>1 DEF FeedOrNothing, Feed!feedVars
<1> QED  BY <1>2, <1>3

\* A stream is not opened before its relay comes to it.
LEMMA StaysIdle ==
  ASSUME MirrorInv, IdleUntilOpened, [Next]_vars
  PROVE  IdleUntilOpened'
<1> USE DEF IdleUntilOpened, Unopened
<1>1. ASSUME NEW p \in Proxies, ProxyStep(p) PROVE IdleUntilOpened'
  <2> DEFINE Moves == UNCHANGED wire /\ \E to \in Relays :
               /\ relay' = [relay EXCEPT ![p] = to]
               /\ to \in Unopened => relay[p] \in Unopened
  <2>1. relay \in [Proxies -> Relays]
    BY DEF MirrorInv, RelayTypeOK
  <2>2. ASSUME Moves PROVE IdleUntilOpened'
    BY <2>1, <2>2
  <2>3. CASE CreateProxy(p) \/ AbandonCreate(p)
    <3>1. Moves
      BY <2>3 DEF CreateProxy, AbandonCreate, InsertProxy, RecordCreated, RecordRouted,
        StartRelay
    <3> QED  BY <2>2, <3>1
  <2>4. CASE Fails(p) \/ RecordCut(p)
    <3>1. Moves
      BY <2>4 DEF Fails, SubmitFails, BindFails, TurnBindFails, RecordCut
    <3> QED  BY <2>2, <3>1
  <2>5. CASE Accepted(p) \/ Bind(p) \/ Dispatch(p) \/ MarkOutcome(p) \/ StreamEnds(p)
             \/ Accept(p)
    <3>1. Moves
      BY <2>5 DEF Accepted, Bind, Dispatch, MarkOutcome, StreamEnds, Accept
    <3> QED  BY <2>2, <3>1
  <2>6. CASE DestRecords(p) \/ Reconcile(p)
    BY <2>6 DEF DestRecords, Reconcile
  <2>7. CASE SendFrame(p) \/ Mirror(p) \/ OpenStream(p) \/ StreamFails(p)
             \/ CloseStream(p) \/ CutStream(p)
    <3>1. \A q \in Proxies \ {p} : wire'[q] = wire[q] /\ relay'[q] = relay[q]
      BY <2>1, <2>7 DEF SendFrame, Mirror, OpenStream, StreamFails, CloseStream,
        CutStream, MirrorInv, RelayTypeOK
    <3>2. relay'[p] \notin Unopened
      <4>1. CASE Mirror(p) \/ OpenStream(p) \/ StreamFails(p)
        BY <2>1, <4>1 DEF Mirror, OpenStream, StreamFails
      <4>2. CASE SendFrame(p) \/ CloseStream(p) \/ CutStream(p)
        BY <4>2 DEF SendFrame, CloseStream, CutStream
      <4> QED  BY <2>7, <4>1, <4>2
    <3> QED  BY <3>1, <3>2
  <2> QED
    BY <1>1, <2>3, <2>4, <2>5, <2>6, <2>7 DEF ProxyStep, Destination, RelayStep
<1>2. CASE Crash
  <2>1. ASSUME NEW p \in Proxies, relay'[p] \in Unopened PROVE wire'[p].at = "idle"
    <3>1. relay[p] = "new"
      BY <1>2, <2>1 DEF Crash
    <3>2. wire[p] \in Wire /\ wire[p].at = "idle"
      BY <3>1 DEF MirrorInv, RelayTypeOK
    <3>3. wire'[p] = [wire[p] EXCEPT !.at = IF @ = "open" THEN "cut" ELSE @]
      BY <1>2 DEF Crash
    <3> QED  BY <3>2, <3>3 DEF Wire
  <2> QED  BY <2>1
<1>3. CASE Restart \/ Serve \/ UNCHANGED vars
  BY <1>3 DEF Restart, Serve, vars
<1> QED  BY <1>1, <1>2, <1>3, StepOfOne

(***************************************************************************)
(* The peer that Relay assumes keeps FrameFeed's promise and no more is    *)
(* assumed of it: each step is one of the feed of every proxy, or changes  *)
(* nothing of it.                                                          *)
(***************************************************************************)
THEOREM RelayFeeds == Spec => PeerIsFeed
<1> DEFINE Fed == \A p \in Proxies : [Feed(p)!FeedNext]_(Feed(p)!feedVars)
<1>1. Init => IdleUntilOpened /\ \A p \in Proxies : Feed(p)!FeedInit
  BY DEF Init, IdleUntilOpened, Feed!FeedInit
<1>2. MirrorInv /\ IdleUntilOpened /\ [Next]_vars => [Fed]_vars /\ IdleUntilOpened'
  <2>1. ASSUME MirrorInv, IdleUntilOpened, [Next]_vars
        PROVE  \A p \in Proxies : FeedOrNothing(p)
    BY <2>1, StepOfOne, OneIsFeed, NodeIsFeed
  <2> QED  BY <2>1, StaysIdle DEF FeedOrNothing
<1> QED  BY <1>1, <1>2, MirrorInvariant, PTL DEF Spec, PeerIsFeed

=============================================================================
