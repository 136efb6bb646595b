---------------------------- MODULE AcpRunProofs ----------------------------
(***************************************************************************)
(* Proofs about AcpRun: the scope, its binding and the registry of runs,   *)
(* for any number of tasks on one scope, any channel capacities and any    *)
(* number of notifications and sessions.                                   *)
(***************************************************************************)
EXTENDS AcpRun, SequenceTheorems, TLAPS

\* The types of the variables the three properties read, and of the
\* subscriptions, where consumeRun finds the state it sends next.
ScopeTypes ==
  /\ owner \in Tasks \cup {None}
  /\ bound \in 0..MaxSessions /\ opened \in 0..MaxSessions
  /\ at \in [Tasks -> Steps]
  /\ sess \in [Tasks -> 0..MaxSessions]
  /\ runs \subseteq Tasks
  /\ loop \in [Tasks -> LoopState]
  /\ feed \in [Tasks -> Feed]

\* consumeRun does not run before Submit has launched it.
NotYetLooping == \A t \in Tasks : at[t] \in {"idle"} \cup Submitting => loop[t].pc = "off"

\* The inductive invariant.
ScopeInv == /\ ScopeTypes
            /\ NotYetLooping
            /\ ScopeHeldByLiveRun
            /\ BindingIsLiveSession
            /\ RegistryMatchesRuns

\* What the invariant reads.
readVars == <<owner, bound, opened, at, sess, runs, loop, feed>>

ScopeParts == NotYetLooping /\ ScopeHeldByLiveRun /\ BindingIsLiveSession /\ RegistryMatchesRuns

USE DEF Submitting, Returned, Steps, Holding, Loops

(***************************************************************************)
(* Nothing is held, bound or registered before a task is submitted.        *)
(***************************************************************************)
LEMMA ScopeInvInit == Init => ScopeInv
<1> SUFFICES ASSUME Init PROVE ScopeInv
  OBVIOUS
<1>1. ScopeTypes
  BY RunAssumption DEF Init, ScopeTypes, LoopState, Feed, Note
<1>2. ScopeParts
  BY RunAssumption DEF Init, ScopeParts, NotYetLooping, ScopeHeldByLiveRun,
     BindingIsLiveSession, RegistryMatchesRuns, Live
<1> QED  BY <1>1, <1>2 DEF ScopeInv, ScopeParts

(***************************************************************************)
(* A step that changes none of these variables keeps the invariant.        *)
(***************************************************************************)
LEMMA ScopeInvUnread == ScopeInv /\ UNCHANGED readVars => ScopeInv'
BY DEF readVars, ScopeInv, ScopeTypes, NotYetLooping, ScopeHeldByLiveRun,
   BindingIsLiveSession, RegistryMatchesRuns, Live

(***************************************************************************)
(* Every step of Submit leaves the variables typed.                        *)
(***************************************************************************)
LEMMA SubmitTypes ==
  ASSUME ScopeTypes, NEW t \in Tasks, Submit(t)
  PROVE  ScopeTypes'
<1> USE RunAssumption DEF ScopeTypes, Goto, scopeVars, callerVars, loopVars, pipeVars
<1>1. CASE TryAcquire(t)     BY <1>1 DEF TryAcquire
<1>2. CASE ScopeBusy(t)      BY <1>2 DEF ScopeBusy, SubmitFails
<1>3. CASE LoadSession(t)    BY <1>3 DEF LoadSession
<1>4. CASE OpenSession(t)    BY <1>4 DEF OpenSession
<1>5. CASE PersistBinding(t) BY <1>5 DEF PersistBinding
<1>6. CASE Register(t)       BY <1>6 DEF Register
<1>7. CASE GiveUp(t)         BY <1>7 DEF GiveUp, SubmitFails, Release
<1>8. CASE Launch(t)
  <2>1. loop' \in [Tasks -> LoopState]
    <3>1. [loop[t] EXCEPT !.pc = "accept"] \in LoopState
      BY DEF LoopState
    <3>2. loop' = [loop EXCEPT ![t] = [loop[t] EXCEPT !.pc = "accept"]]
      BY <1>8 DEF Launch
    <3> QED  BY <3>1, <3>2
  <2>2. feed' \in [Tasks -> Feed]
    BY <1>8 DEF Launch, Feed
  <2> QED  BY <1>8, <2>1, <2>2 DEF Launch
<1> QED  BY <1>1, <1>2, <1>3, <1>4, <1>5, <1>6, <1>7, <1>8 DEF Submit

(***************************************************************************)
(* Submit takes the scope only when it is free, gives it back on every     *)
(* error path, and binds a session only while it holds the scope.          *)
(***************************************************************************)
LEMMA SubmitKeeps ==
  ASSUME ScopeInv, NEW t \in Tasks, Submit(t)
  PROVE  ScopeParts'
<1> USE RunAssumption
    DEF ScopeInv, ScopeTypes, LoopState, ScopeParts, NotYetLooping, ScopeHeldByLiveRun,
        BindingIsLiveSession, RegistryMatchesRuns, Live, Goto, scopeVars, callerVars,
        loopVars, pipeVars
<1>1. CASE TryAcquire(t)     BY <1>1 DEF TryAcquire
<1>2. CASE ScopeBusy(t)      BY <1>2 DEF ScopeBusy, SubmitFails
<1>3. CASE LoadSession(t)    BY <1>3 DEF LoadSession
<1>4. CASE OpenSession(t)    BY <1>4 DEF OpenSession
<1>5. CASE PersistBinding(t) BY <1>5 DEF PersistBinding
<1>6. CASE Register(t)       BY <1>6 DEF Register
<1>7. CASE GiveUp(t)         BY <1>7 DEF GiveUp, SubmitFails, Release
<1>8. CASE Launch(t)         BY <1>8 DEF Launch
<1> QED  BY <1>1, <1>2, <1>3, <1>4, <1>5, <1>6, <1>7, <1>8 DEF Submit

\* consumeRun, with its ticker.
LoopStep(t) == ConsumeRun(t) \/ LoopIdle(t)

(***************************************************************************)
(* Every step of consumeRun leaves the variables typed: a notification it  *)
(* turns into an event names a state of a task.                            *)
(***************************************************************************)
LEMMA LoopTypes ==
  ASSUME ScopeTypes, NEW t \in Tasks, LoopStep(t)
  PROVE  ScopeTypes'
<1> USE DEF ScopeTypes, scopeVars, callerVars, pipeVars
<1>1. CASE LoopAccept(t)         BY <1>1 DEF LoopAccept, LoopState
<1>2. CASE LoopPromptFailed(t) \/ LoopIdle(t)
  <2>1. LoopFails(t)
    BY <1>2 DEF LoopPromptFailed, LoopIdle
  <2>2. owner' \in Tasks \cup {None}
    BY <2>1 DEF LoopFails, Release
  <2>3. loop' \in [Tasks -> LoopState]
    BY <2>1 DEF LoopFails, LoopState
  <2> QED  BY <2>1, <2>2, <2>3 DEF LoopFails
<1>3. CASE LoopPromptReturned(t) BY <1>3 DEF LoopPromptReturned, LoopState
<1>4. CASE LoopDrained(t)
  <2>1. "completed" \in {None} \cup Statuses
    BY DEF Statuses, Terminal
  <2>2. CASE loop' = [loop EXCEPT ![t].pc = "emit", ![t].state = "completed", ![t].last = TRUE]
    <3>1. [loop[t] EXCEPT !.pc = "emit", !.state = "completed", !.last = TRUE] \in LoopState
      BY <2>1 DEF LoopState
    <3>2. loop' \in [Tasks -> LoopState]
      BY <2>2, <3>1
    <3> QED  BY <1>4, <3>2 DEF LoopDrained
  <2>3. CASE loop' = [loop EXCEPT ![t].pc = "release"]
    <3>1. loop' \in [Tasks -> LoopState]
      BY <2>3 DEF LoopState
    <3> QED  BY <1>4, <3>1 DEF LoopDrained
  <2> QED  BY <1>4, <2>2, <2>3 DEF LoopDrained
<1>5. CASE LoopNote(t)
  <2> DEFINE note == Head(feed[t].notes)
  <2>1. feed[t] \in Feed /\ feed[t].notes \in Seq(Note) /\ feed[t].notes # <<>>
    BY <1>5 DEF LoopNote, Feed
  <2>2. note \in Note /\ Tail(feed[t].notes) \in Seq(Note)
    BY <2>1
  <2>3. feed' \in [Tasks -> Feed]
    BY <1>5, <2>1, <2>2 DEF LoopNote, Feed
  <2>4. note.what # "chunk" => note.what \in {None} \cup Statuses
    BY <2>2, RunAssumption DEF Note, Statuses, Terminal
  <2>5. (note.what \in Terminal) \in BOOLEAN
    OBVIOUS
  <2> HIDE DEF note
  <2>6. \/ loop' = loop
        \/ /\ note.what # "chunk"
           /\ loop' = [loop EXCEPT ![t].pc = "emit", ![t].state = note.what,
                         ![t].last = note.what \in Terminal, ![t].structured = TRUE]
    BY <1>5 DEF LoopNote, note
  <2>7. loop' \in [Tasks -> LoopState]
    BY <2>4, <2>5, <2>6 DEF LoopState
  <2> QED  BY <1>5, <2>3, <2>7 DEF LoopNote
<1>6. CASE LoopEmit(t)           BY <1>6 DEF LoopEmit, LoopState
<1>7. CASE LoopRelease(t)        BY <1>7 DEF LoopRelease, Release, LoopState
<1>8. CASE LoopClose(t)          BY <1>8 DEF LoopClose, LoopState
<1>9. CASE LoopUnregister(t)
  <2>1. loop' \in [Tasks -> LoopState]
    BY <1>9 DEF LoopUnregister, LoopState
  <2>2. feed' \in [Tasks -> Feed]
    BY <1>9 DEF LoopUnregister, Feed
  <2> QED  BY <1>9, <2>1, <2>2 DEF LoopUnregister
<1> QED  BY <1>1, <1>2, <1>3, <1>4, <1>5, <1>6, <1>7, <1>8, <1>9 DEF LoopStep, ConsumeRun

(***************************************************************************)
(* consumeRun gives the scope back on each way out of its loop, before the *)
(* deferred calls, and leaves the registry last.                           *)
(***************************************************************************)
LEMMA LoopKeeps ==
  ASSUME ScopeInv, NEW t \in Tasks, LoopStep(t)
  PROVE  ScopeParts'
<1> USE RunAssumption
    DEF ScopeInv, ScopeTypes, LoopState, ScopeParts, NotYetLooping, ScopeHeldByLiveRun,
        BindingIsLiveSession, RegistryMatchesRuns, Live, scopeVars, callerVars, pipeVars
<1>1. CASE LoopAccept(t)         BY <1>1 DEF LoopAccept
<1>2. CASE LoopPromptFailed(t) \/ LoopIdle(t)
  <2>1. LoopFails(t) /\ loop[t].pc = "select"
    BY <1>2 DEF LoopPromptFailed, LoopIdle
  <2> QED  BY <2>1 DEF LoopFails, Release
<1>3. CASE LoopPromptReturned(t) BY <1>3 DEF LoopPromptReturned
<1>4. CASE LoopDrained(t)        BY <1>4 DEF LoopDrained
<1>5. CASE LoopNote(t)
  <2>1. /\ \A u \in Tasks : \/ loop'[u].pc = loop[u].pc
                            \/ {loop[u].pc, loop'[u].pc} \subseteq Holding
        /\ UNCHANGED <<owner, bound, at, sess, runs>>
        /\ loop[t].pc = "select"
    BY <1>5 DEF LoopNote
  <2>2. \A u \in Tasks : /\ loop'[u].pc = "off" <=> loop[u].pc = "off"
                         /\ loop'[u].pc = "done" <=> loop[u].pc = "done"
                         /\ loop'[u].pc \in Holding <=> loop[u].pc \in Holding
    BY <2>1
  <2> QED  BY <2>1, <2>2
<1>6. CASE LoopEmit(t)           BY <1>6 DEF LoopEmit
<1>7. CASE LoopRelease(t)        BY <1>7 DEF LoopRelease, Release
<1>8. CASE LoopClose(t)          BY <1>8 DEF LoopClose
<1>9. CASE LoopUnregister(t)     BY <1>9 DEF LoopUnregister
<1> QED  BY <1>1, <1>2, <1>3, <1>4, <1>5, <1>6, <1>7, <1>8, <1>9 DEF LoopStep, ConsumeRun

(***************************************************************************)
(* A notification of the runtime extends subscriptions only.               *)
(***************************************************************************)
LEMMA NotifyKeeps ==
  ASSUME ScopeInv, NEW t \in Tasks, NEW what \in Notes, Notify(t, what)
  PROVE  ScopeInv'
<1> DEFINE note == [sess |-> sess[t], what |-> what]
<1>1. note \in Note
  BY DEF ScopeInv, ScopeTypes, Note
<1>2. feed' = [u \in Tasks |-> IF feed[u].open /\ Len(feed[u].notes) < NoteCap
                                THEN [feed[u] EXCEPT !.notes = Append(@, note)]
                                ELSE feed[u]]
  BY DEF Notify
<1> HIDE DEF note
<1>3. feed' \in [Tasks -> Feed]
  <2>1. ASSUME NEW s \in Feed PROVE [s EXCEPT !.notes = Append(@, note)] \in Feed
    BY <1>1 DEF Feed
  <2>2. \A u \in Tasks : feed[u] \in Feed
    BY DEF ScopeInv, ScopeTypes
  <2> QED  BY <1>2, <2>1, <2>2
<1> QED  BY <1>3 DEF Notify, ScopeInv, ScopeTypes, NotYetLooping, ScopeHeldByLiveRun,
            BindingIsLiveSession, RegistryMatchesRuns, Live, scopeVars, callerVars

(***************************************************************************)
(* The forwarding goroutine and the reads of runTask touch neither the     *)
(* scope nor the registry; runTask moves on only after Submit.             *)
(***************************************************************************)
LEMMA ReaderKeeps ==
  ASSUME ScopeInv, NEW t \in Tasks, Forward(t) \/ Read(t)
  PROVE  ScopeInv'
<1>1. CASE Forward(t)
  BY <1>1, ScopeInvUnread
     DEF Forward, FwdTake, FwdSend, FwdError, FwdClosed, readVars, scopeVars, callerVars, loopVars
<1>2. CASE Read(t)
  <2>1. /\ at[t] \in {"submitted", "reading"}
        /\ \E to \in {"reading", "settled", "gone"} : at' = [at EXCEPT ![t] = to]
        /\ UNCHANGED <<owner, bound, opened, sess, runs, loop, feed>>
    BY <1>2 DEF Read, StreamEvents, MissingRun, ReadEvent, ReadError, ReadClosed, Goto,
       scopeVars, loopVars
  <2> QED  BY <2>1 DEF ScopeInv, ScopeTypes, NotYetLooping, ScopeHeldByLiveRun,
             BindingIsLiveSession, RegistryMatchesRuns, Live
<1> QED  BY <1>1, <1>2

(***************************************************************************)
(* Every step keeps the invariant.                                         *)
(***************************************************************************)
LEMMA ScopeInvStep == ScopeInv /\ [Next]_runVars => ScopeInv'
<1> SUFFICES ASSUME ScopeInv, [Next]_runVars PROVE ScopeInv'
  OBVIOUS
<1>1. ASSUME NEW t \in Tasks, Submit(t) PROVE ScopeInv'
  BY <1>1, SubmitTypes, SubmitKeeps DEF ScopeInv, ScopeParts
<1>2. ASSUME NEW t \in Tasks, LoopStep(t) PROVE ScopeInv'
  BY <1>2, LoopTypes, LoopKeeps DEF ScopeInv, ScopeParts
<1>3. ASSUME NEW t \in Tasks, Forward(t) \/ Read(t) PROVE ScopeInv'
  BY <1>3, ReaderKeeps
<1>4. ASSUME NEW t \in Tasks, PromptEnds(t) PROVE ScopeInv'
  BY <1>4, ScopeInvUnread DEF PromptEnds, readVars, scopeVars, callerVars
<1>5. ASSUME NEW t \in Tasks, NEW what \in Notes, Notify(t, what) PROVE ScopeInv'
  BY <1>5, NotifyKeeps
<1>6. CASE UNCHANGED runVars
  BY <1>6, ScopeInvUnread DEF runVars, readVars
<1> QED  BY <1>1, <1>2, <1>3, <1>4, <1>5, <1>6 DEF Next, LoopStep

(***************************************************************************)
(* The inductive invariant holds throughout.                               *)
(***************************************************************************)
THEOREM ScopeInvariant == Spec => []ScopeInv
BY ScopeInvInit, ScopeInvStep, PTL DEF Spec

(***************************************************************************)
(* The scope belongs to the one task that is submitting or running.        *)
(***************************************************************************)
THEOREM ScopeIsExclusive == Spec => []ScopeHeldByLiveRun
<1>1. ScopeInv => ScopeHeldByLiveRun
  BY DEF ScopeInv
<1> QED  BY <1>1, ScopeInvariant, PTL

(***************************************************************************)
(* While a run goes on the session persisted for its scope is its own.     *)
(***************************************************************************)
THEOREM BindingStaysOwn == Spec => []BindingIsLiveSession
<1>1. ScopeInv => BindingIsLiveSession
  BY DEF ScopeInv
<1> QED  BY <1>1, ScopeInvariant, PTL

(***************************************************************************)
(* The registry of runs holds exactly the runs that have not wound up.     *)
(***************************************************************************)
THEOREM RegistryIsExact == Spec => []RegistryMatchesRuns
<1>1. ScopeInv => RegistryMatchesRuns
  BY DEF ScopeInv
<1> QED  BY <1>1, ScopeInvariant, PTL

-----------------------------------------------------------------------------
(* What a run sends and what runTask reads *)

HIDE DEF Submitting, Returned, Steps, Holding, Loops

RunStates == {"running", "awaiting_input"} \cup Terminal

\* The types of the other variables, and the capacities of the channels.
PipeTypes ==
  /\ prompt \in [Tasks -> {"none", "calling", "ok", "error"}]
  /\ remote \in [Tasks -> Prompt]
  /\ inner \in [Tasks -> Channels] /\ outer \in [Tasks -> Channels]
  /\ fwd \in [Tasks -> Forwarder]
  /\ taken \in [Tasks -> Seq(RunEvent)]
  /\ \A t \in Tasks : /\ Len(inner[t].events) <= ChanCap
                      /\ Len(outer[t].events) <= ChanCap
                      /\ Len(feed[t].notes) <= NoteCap
                      /\ Len(fwd[t].event) <= 1

\* Nothing has been sent before Submit returns.
Quiet(t) ==
  at[t] \in {"idle"} \cup Submitting =>
    /\ taken[t] = <<>> /\ outer[t].events = <<>> /\ fwd[t].event = <<>>
    /\ inner[t].events = <<>> /\ loop[t].sent = 0

\* What was read and what is under way is what was sent.
Counted(t) ==
  at[t] \in {"submitted", "reading", "gone"} =>
    LET all == taken[t] \o Unread(t)
    IN Len(all) = loop[t].sent /\ \A i \in 1..Len(all) : all[i].n = i

\* An outcome is the last thing sent, and the last thing read.
UnreadEnds(t) ==
  \A i \in 1..Len(Unread(t)) : Unread(t)[i].state \in Terminal =>
    i = Len(Unread(t)) /\ loop[t].pc \notin {"accept", "select", "emit"}

TakenEnds(t) ==
  \A i \in 1..Len(taken[t]) : taken[t][i].state \in Terminal =>
    i = Len(taken[t]) /\ at[t] = "settled"

\* The forwarding goroutine starts when runTask comes to read and forgets no event;
\* consumeRun knows which event is its last.
HandsFit(t) ==
  /\ at[t] \in {"idle", "submitted"} \cup Submitting => fwd[t].pc = "off"
  /\ fwd[t].pc # "holding" => fwd[t].event = <<>>
  /\ loop[t].pc = "emit" =>
       loop[t].state \in RunStates /\ (loop[t].state \in Terminal => loop[t].last)

PipeFits(t) == Quiet(t) /\ Counted(t) /\ UnreadEnds(t) /\ TakenEnds(t) /\ HandsFit(t)

\* The inductive invariant of the stream.
RunInv == ScopeInv /\ PipeTypes /\ \A t \in Tasks : PipeFits(t)

-----------------------------------------------------------------------------
(* Sequences *)

\* To append to the second part of a sequence is to append to the sequence.
LEMMA AppendOut ==
  ASSUME NEW S, NEW s \in Seq(S), NEW t \in Seq(S), NEW x \in S
  PROVE  s \o Append(t, x) = Append(s \o t, x)
<1>1. /\ Append(t, x) \in Seq(S) /\ Len(Append(t, x)) = Len(t) + 1
      /\ \A i \in 1..Len(t) : Append(t, x)[i] = t[i]
      /\ Append(t, x)[Len(t) + 1] = x /\ Len(s) \in Nat /\ Len(t) \in Nat
  OBVIOUS
<1> DEFINE u == s \o Append(t, x)
           v == Append(s \o t, x)
<1>2. /\ u \in Seq(S) /\ Len(u) = Len(s) + (Len(t) + 1)
      /\ \A i \in 1..Len(s) + (Len(t) + 1) :
           u[i] = IF i <= Len(s) THEN s[i] ELSE Append(t, x)[i - Len(s)]
  BY <1>1, ConcatProperties
<1>3. /\ s \o t \in Seq(S) /\ Len(s \o t) = Len(s) + Len(t)
      /\ \A i \in 1..Len(s) + Len(t) :
           (s \o t)[i] = IF i <= Len(s) THEN s[i] ELSE t[i - Len(s)]
  BY ConcatProperties
<1>4. /\ v \in Seq(S) /\ Len(v) = Len(s \o t) + 1
      /\ \A i \in 1..Len(s \o t) : v[i] = (s \o t)[i]
      /\ v[Len(s \o t) + 1] = x
  BY <1>3
<1> HIDE DEF u, v
<1>5. ASSUME NEW i \in 1..Len(u)
      PROVE  u[i] = v[i]
  <2>1. CASE i <= Len(s)
    <3>1. /\ i \in 1..(Len(s) + (Len(t) + 1)) /\ i \in 1..(Len(s) + Len(t))
          /\ i \in 1..Len(s \o t)
      BY <1>1, <1>2, <1>3, <2>1
    <3> QED  BY <1>2, <1>3, <1>4, <2>1, <3>1
  <2>2. CASE i > Len(s) /\ i <= Len(s) + Len(t)
    <3>1. i - Len(s) \in 1..Len(t)
      BY <1>1, <2>2
    <3> QED  BY <1>1, <1>2, <1>3, <1>4, <2>2, <3>1
  <2>3. CASE i = Len(s) + (Len(t) + 1)
    <3>1. /\ i - Len(s) = Len(t) + 1 /\ i = Len(s \o t) + 1 /\ ~(i <= Len(s))
          /\ i \in 1..(Len(s) + (Len(t) + 1))
      BY <1>1, <1>2, <1>3, <2>3
    <3>2. u[i] = Append(t, x)[i - Len(s)]
      BY <1>2, <3>1
    <3> QED  BY <1>1, <1>4, <3>1, <3>2
  <2>4. Len(s) \in Nat /\ Len(t) \in Nat /\ i \in 1..(Len(s) + (Len(t) + 1))
    BY <1>1, <1>2
  <2>5. \/ i <= Len(s) \/ i = Len(s) + (Len(t) + 1)
        \/ i > Len(s) /\ i <= Len(s) + Len(t)
    BY <2>4
  <2> QED  BY <2>1, <2>2, <2>3, <2>5
<1>6. Len(u) = Len(v)
  BY <1>1, <1>2, <1>3, <1>4
<1>7. u = v
  BY <1>2, <1>4, <1>5, <1>6, SeqEqual
<1> QED  BY <1>7 DEF u, v

\* The head of the second part may as well be the end of the first.
LEMMA HeadOver ==
  ASSUME NEW S, NEW s \in Seq(S), NEW t \in Seq(S), t # <<>>
  PROVE  /\ (s \o <<Head(t)>>) \o Tail(t) = s \o t
         /\ Append(s, Head(t)) = s \o <<Head(t)>>
<1>1. Head(t) \in S /\ Tail(t) \in Seq(S) /\ <<Head(t)>> \in Seq(S)
  OBVIOUS
<1>2. <<Head(t)>> \o Tail(t) = t
  <2>1. /\ Len(<<Head(t)>>) = 1 /\ <<Head(t)>>[1] = t[1] /\ Len(t) \in Nat \ {0}
        /\ Len(Tail(t)) = Len(t) - 1
        /\ \A i \in 1..(Len(t) - 1) : Tail(t)[i] = t[i + 1]
    OBVIOUS
  <2> DEFINE u == <<Head(t)>> \o Tail(t)
  <2>2. /\ u \in Seq(S) /\ Len(u) = 1 + (Len(t) - 1)
        /\ \A i \in 1..(1 + (Len(t) - 1)) :
             u[i] = IF i <= 1 THEN <<Head(t)>>[i] ELSE Tail(t)[i - 1]
    BY <1>1, <2>1, ConcatProperties
  <2> HIDE DEF u
  <2>3. Len(u) = Len(t)
    BY <2>1, <2>2
  <2>4. \A i \in 1..Len(u) : u[i] = t[i]
    BY <2>1, <2>2
  <2>5. u = t
    BY <2>2, <2>3, <2>4, SeqEqual
  <2> QED  BY <2>5 DEF u
<1>3. (s \o <<Head(t)>>) \o Tail(t) = s \o (<<Head(t)>> \o Tail(t))
  BY <1>1, ConcatAssociative
<1>4. Append(s, Head(t)) = s \o <<Head(t)>>
  BY <1>1
<1> QED  BY <1>2, <1>3, <1>4

\* Head and tail of a sequence whose first part is not empty.
LEMMA TailOut ==
  ASSUME NEW S, NEW s \in Seq(S), NEW t \in Seq(S), s # <<>>
  PROVE  s \o t # <<>> /\ Head(s \o t) = Head(s) /\ Tail(s \o t) = Tail(s) \o t
<1>1. /\ Len(s) \in Nat \ {0} /\ Len(t) \in Nat /\ Tail(s) \in Seq(S)
      /\ Len(Tail(s)) = Len(s) - 1
      /\ \A i \in 1..(Len(s) - 1) : Tail(s)[i] = s[i + 1]
  OBVIOUS
<1>2. /\ s \o t \in Seq(S) /\ Len(s \o t) = Len(s) + Len(t)
      /\ \A i \in 1..Len(s) + Len(t) :
           (s \o t)[i] = IF i <= Len(s) THEN s[i] ELSE t[i - Len(s)]
  BY ConcatProperties
<1>3. s \o t # <<>>
  BY <1>1, <1>2
<1>4. Head(s \o t) = Head(s)
  BY <1>1, <1>2, <1>3
<1> DEFINE u == Tail(s \o t)
           v == Tail(s) \o t
<1>5. /\ u \in Seq(S) /\ Len(u) = Len(s) + Len(t) - 1
      /\ \A i \in 1..(Len(s) + Len(t) - 1) : u[i] = (s \o t)[i + 1]
  BY <1>1, <1>2, <1>3
<1>6. /\ v \in Seq(S) /\ Len(v) = Len(s) - 1 + Len(t)
      /\ \A i \in 1..(Len(s) - 1 + Len(t)) :
           v[i] = IF i <= Len(s) - 1 THEN Tail(s)[i] ELSE t[i - (Len(s) - 1)]
  BY <1>1, ConcatProperties
<1> HIDE DEF u, v
<1>7. ASSUME NEW i \in 1..Len(u)
      PROVE  u[i] = v[i]
  <2>1. i \in 1..(Len(s) + Len(t) - 1) /\ i + 1 \in 1..(Len(s) + Len(t))
    BY <1>1, <1>5
  <2>2. u[i] = (IF i + 1 <= Len(s) THEN s[i + 1] ELSE t[i + 1 - Len(s)])
    BY <1>2, <1>5, <2>1
  <2>3. CASE i <= Len(s) - 1
    <3>1. i + 1 <= Len(s) /\ i \in 1..(Len(s) - 1) /\ i \in 1..(Len(s) - 1 + Len(t))
      BY <1>1, <2>1, <2>3
    <3> QED  BY <1>1, <1>6, <2>2, <2>3, <3>1
  <2>4. CASE ~(i <= Len(s) - 1)
    <3>1. /\ ~(i + 1 <= Len(s)) /\ i + 1 - Len(s) = i - (Len(s) - 1)
          /\ i \in 1..(Len(s) - 1 + Len(t))
      BY <1>1, <2>1, <2>4
    <3> QED  BY <1>6, <2>2, <2>4, <3>1
  <2> QED  BY <2>3, <2>4
<1>8. u = v
  <2>1. Len(u) = Len(v)
    BY <1>1, <1>5, <1>6
  <2> QED  BY <1>5, <1>6, <1>7, <2>1, SeqEqual
<1> QED  BY <1>3, <1>4, <1>8 DEF u, v

-----------------------------------------------------------------------------
(* What a step does to the events of one task *)

\* No event moves.
PipeRests(t) ==
  /\ taken'[t] = taken[t] /\ outer'[t].events = outer[t].events
  /\ fwd'[t].event = fwd[t].event /\ inner'[t].events = inner[t].events
  /\ loop'[t].sent = loop[t].sent

Rests(t) == PipeRests(t) /\ at'[t] = at[t] /\ loop'[t] = loop[t] /\ fwd'[t] = fwd[t]

\* Submit goes on ...
Prepares(t) ==
  /\ PipeRests(t) /\ fwd'[t] = fwd[t]
  /\ at[t] \in {"idle"} \cup Submitting /\ at'[t] \in {"submitted"} \cup Submitting
  /\ loop[t].pc = "off" /\ loop'[t].pc \in {"off", "accept"}

\* ... or fails.
Refuses(t) ==
  /\ at[t] \in {"idle"} \cup Submitting /\ at'[t] = "settled"
  /\ taken'[t] = <<[n |-> 1, state |-> "failed"]>>
  /\ outer'[t] = outer[t] /\ fwd'[t] = fwd[t] /\ inner'[t] = inner[t] /\ loop'[t] = loop[t]

\* consumeRun sends an event ...
Sends(t) ==
  /\ at'[t] = at[t] /\ taken'[t] = taken[t] /\ outer'[t] = outer[t] /\ fwd'[t] = fwd[t]
  /\ loop[t].pc \in {"accept", "emit"} /\ loop'[t].pc # "emit"
  /\ loop'[t].sent = loop[t].sent + 1
  /\ \E s \in RunStates :
       /\ inner'[t].events = Append(inner[t].events, [n |-> loop[t].sent + 1, state |-> s])
       /\ s \in Terminal => loop'[t].pc = "release"

\* ... or decides what to do next.
Decides(t) ==
  /\ PipeRests(t) /\ at'[t] = at[t] /\ fwd'[t] = fwd[t]
  /\ loop[t].pc \in {"accept", "select", "emit"} \/
       loop'[t].pc \notin {"accept", "select", "emit"}
  /\ loop'[t].pc = "emit" =>
       loop'[t].state \in RunStates /\ (loop'[t].state \in Terminal => loop'[t].last)

\* The forwarding goroutine takes, sends or returns.
Forwards(t) ==
  /\ at'[t] = at[t] /\ taken'[t] = taken[t] /\ loop'[t] = loop[t]
  /\ fwd[t].pc # "off" /\ Unread(t)' = Unread(t)
  /\ fwd'[t].pc # "holding" => fwd'[t].event = <<>>

\* runTask comes to read, or finds both channels closed ...
Moves(t) ==
  /\ PipeRests(t) /\ loop'[t] = loop[t]
  /\ \/ at[t] = "submitted" /\ at'[t] = "reading" /\ fwd'[t].pc # "holding"
     \/ at[t] = "reading" /\ at'[t] = "gone" /\ fwd'[t] = fwd[t]

\* ... or reads an event ...
Takes(t) ==
  LET e == Head(outer[t].events)
  IN /\ outer[t].events # <<>> /\ at[t] = "reading"
     /\ at'[t] = IF e.state \in Terminal THEN "settled" ELSE "reading"
     /\ taken'[t] = Append(taken[t], e) /\ outer'[t].events = Tail(outer[t].events)
     /\ fwd'[t] = fwd[t] /\ inner'[t] = inner[t] /\ loop'[t] = loop[t]

\* ... or an error.
Fails(t) ==
  /\ at[t] = "reading" /\ at'[t] = "settled"
  /\ taken'[t] = Append(taken[t], [n |-> Len(taken[t]) + 1, state |-> "failed"])
  /\ outer'[t].events = outer[t].events
  /\ fwd'[t] = fwd[t] /\ inner'[t] = inner[t] /\ loop'[t] = loop[t]

PipeStep(t) ==
  \/ Rests(t) \/ Prepares(t) \/ Refuses(t) \/ Sends(t) \/ Decides(t)
  \/ Forwards(t) \/ Moves(t) \/ Takes(t) \/ Fails(t)

\* The events of a task are where they belong.
LEMMA PipeIs ==
  ASSUME PipeTypes, ScopeTypes, NEW t \in Tasks
  PROVE  /\ taken[t] \in Seq(RunEvent) /\ outer[t].events \in Seq(RunEvent)
         /\ fwd[t].event \in Seq(RunEvent) /\ inner[t].events \in Seq(RunEvent)
         /\ outer[t].events \o fwd[t].event \in Seq(RunEvent)
         /\ Unread(t) \in Seq(RunEvent) /\ taken[t] \o Unread(t) \in Seq(RunEvent)
         /\ loop[t].sent \in Nat /\ at[t] \in Steps
<1>1. /\ taken[t] \in Seq(RunEvent) /\ outer[t] \in Channels
      /\ fwd[t] \in Forwarder /\ inner[t] \in Channels
  BY DEF PipeTypes
<1>2. loop[t] \in LoopState /\ at[t] \in Steps
  BY DEF ScopeTypes
<1>3. /\ outer[t].events \in Seq(RunEvent) /\ fwd[t].event \in Seq(RunEvent)
      /\ inner[t].events \in Seq(RunEvent)
  BY <1>1 DEF Channels, Forwarder
<1>4. loop[t].sent \in Nat
  BY <1>2 DEF LoopState
<1>5. outer[t].events \o fwd[t].event \in Seq(RunEvent)
  BY <1>3, ConcatProperties
<1>6. Unread(t) \in Seq(RunEvent)
  BY <1>3, <1>5, ConcatProperties DEF Unread
<1>7. taken[t] \o Unread(t) \in Seq(RunEvent)
  BY <1>1, <1>6, ConcatProperties
<1> QED  BY <1>1, <1>2, <1>3, <1>4, <1>5, <1>6, <1>7

\* Events that rest are still under way.
LEMMA UnreadRests ==
  ASSUME NEW t, PipeRests(t)
  PROVE  Unread(t)' = Unread(t)
BY DEF PipeRests, Unread

\* The invariant of a task whose events rest and whose runTask stays where it is.
LEMMA RestsKeeps ==
  ASSUME NEW t \in Tasks, PipeFits(t), Rests(t) \/ Decides(t)
  PROVE  PipeFits(t)'
<1>1. PipeRests(t) /\ at'[t] = at[t] /\ fwd'[t] = fwd[t] /\ Unread(t)' = Unread(t)
  BY UnreadRests DEF Rests, Decides
<1>2. Quiet(t)'
  BY <1>1 DEF PipeFits, Quiet, PipeRests
<1>3. Counted(t)'
  BY <1>1 DEF PipeFits, Counted, PipeRests
<1>4. \/ loop[t].pc \in {"accept", "select", "emit"}
      \/ loop'[t].pc \notin {"accept", "select", "emit"}
  BY DEF Rests, Decides
<1>5. UnreadEnds(t)'
  BY <1>1, <1>4 DEF PipeFits, UnreadEnds
<1>6. TakenEnds(t)'
  BY <1>1 DEF PipeFits, TakenEnds, PipeRests
<1>7. HandsFit(t)'
  BY <1>1 DEF PipeFits, HandsFit, Rests, Decides
<1> QED  BY <1>2, <1>3, <1>5, <1>6, <1>7 DEF PipeFits

\* While Submit goes on nothing has been sent.
LEMMA PreparesKeeps ==
  ASSUME NEW t \in Tasks, PipeFits(t), Prepares(t)
  PROVE  PipeFits(t)'
<1>1. /\ PipeRests(t) /\ fwd'[t] = fwd[t]
      /\ taken[t] = <<>> /\ outer[t].events = <<>> /\ fwd[t].event = <<>>
      /\ inner[t].events = <<>> /\ loop[t].sent = 0 /\ fwd[t].pc = "off"
  BY DEF Prepares, PipeFits, Quiet, HandsFit
<1>2. <<>> \o <<>> = <<>> /\ Len(<<>>) = 0
  BY ConcatEmptySeq, EmptySeq
<1>3. taken'[t] = <<>> /\ Unread(t)' = <<>> /\ loop'[t].sent = 0
  BY <1>1, <1>2 DEF PipeRests, Unread
<1>4. Quiet(t)'
  BY <1>1 DEF Quiet, PipeRests
<1>5. Counted(t)'
  BY <1>2, <1>3 DEF Counted
<1>6. UnreadEnds(t)' /\ TakenEnds(t)'
  BY <1>2, <1>3 DEF UnreadEnds, TakenEnds
<1>7. HandsFit(t)'
  BY <1>1 DEF HandsFit, Prepares
<1> QED  BY <1>4, <1>5, <1>6, <1>7 DEF PipeFits

\* A refused task has one event, its outcome.
LEMMA RefusesKeeps ==
  ASSUME NEW t \in Tasks, PipeFits(t), Refuses(t)
  PROVE  PipeFits(t)'
<1>1. at'[t] = "settled" /\ at'[t] \notin {"idle", "submitted"} \cup Submitting
  BY DEF Refuses, Submitting
<1>2. Unread(t)' = Unread(t)
  BY DEF Refuses, Unread
<1>3. Quiet(t)' /\ Counted(t)'
  BY <1>1 DEF Quiet, Counted
<1>4. UnreadEnds(t)'
  BY <1>2 DEF PipeFits, UnreadEnds, Refuses
<1>5. TakenEnds(t)'
  <2>1. Len(taken'[t]) = 1
    BY DEF Refuses
  <2> QED  BY <1>1, <2>1 DEF TakenEnds
<1>6. HandsFit(t)'
  BY <1>1 DEF PipeFits, HandsFit, Refuses
<1> QED  BY <1>3, <1>4, <1>5, <1>6 DEF PipeFits

\* A new event comes after all others, and an outcome only when nothing follows.
LEMMA SendsKeeps ==
  ASSUME NEW t \in Tasks, PipeTypes, ScopeInv, PipeFits(t), Sends(t)
  PROVE  PipeFits(t)'
<1>1. ScopeTypes /\ NotYetLooping
  BY DEF ScopeInv
<1>2. PICK a : a = taken[t]
  OBVIOUS
<1>3. PICK u : u = Unread(t)
  OBVIOUS
<1>4. PICK o : o = outer[t].events \o fwd[t].event
  OBVIOUS
<1>5. PICK n : n = loop[t].sent
  OBVIOUS
<1>6. PICK s \in RunStates :
        /\ inner'[t].events = Append(inner[t].events, [n |-> n + 1, state |-> s])
        /\ s \in Terminal => loop'[t].pc = "release"
  BY <1>5 DEF Sends
<1>7. PICK x : x = [n |-> n + 1, state |-> s]
  OBVIOUS
<1>8. /\ a \in Seq(RunEvent) /\ u \in Seq(RunEvent) /\ o \in Seq(RunEvent)
      /\ inner[t].events \in Seq(RunEvent) /\ a \o u \in Seq(RunEvent)
      /\ n \in Nat /\ u = o \o inner[t].events
  BY <1>1, <1>2, <1>3, <1>4, <1>5, PipeIs DEF Unread
<1>9. x \in RunEvent /\ x.n = n + 1 /\ x.state = s
  BY <1>6, <1>7, <1>8 DEF RunEvent, RunStates
<1>10. Unread(t)' = Append(u, x) /\ taken'[t] = a
  <2>1. PICK i : i = inner[t].events
    OBVIOUS
  <2>2. inner'[t].events = Append(i, x) /\ outer'[t] = outer[t] /\ fwd'[t] = fwd[t]
    BY <1>6, <1>7, <2>1 DEF Sends
  <2>3. Unread(t)' = o \o Append(i, x)
    BY <1>4, <2>2 DEF Unread
  <2>4. o \in Seq(RunEvent) /\ i \in Seq(RunEvent) /\ x \in RunEvent /\ u = o \o i
    BY <1>8, <1>9, <2>1
  <2>5. o \o Append(i, x) = Append(o \o i, x)
    BY <2>4, AppendOut
  <2> QED  BY <1>2, <2>3, <2>4, <2>5 DEF Sends
<1>11. a \o Append(u, x) = Append(a \o u, x)
  <2>1. a \in Seq(RunEvent) /\ u \in Seq(RunEvent) /\ x \in RunEvent
    BY <1>8, <1>9
  <2> QED  BY <2>1, AppendOut
<1>12. /\ at'[t] = at[t] /\ at[t] \notin {"idle"} \cup Submitting
  BY <1>1 DEF NotYetLooping, Sends
<1>13. Quiet(t)'
  BY <1>12 DEF Quiet
<1>14. Counted(t)'
  <2> SUFFICES ASSUME at[t] \in {"submitted", "reading", "gone"}
               PROVE  /\ Len(Append(a \o u, x)) = n + 1
                      /\ \A i \in 1..Len(Append(a \o u, x)) : Append(a \o u, x)[i].n = i
    <3>1. loop'[t].sent = n + 1
      BY <1>5 DEF Sends
    <3> QED  BY <1>10, <1>11, <1>12, <3>1 DEF Counted
  <2>1. Len(a \o u) = n /\ \A i \in 1..Len(a \o u) : (a \o u)[i].n = i
    BY <1>2, <1>3, <1>5 DEF PipeFits, Counted
  <2>2. PICK v : v = a \o u
    OBVIOUS
  <2>3. /\ Len(Append(v, x)) = n + 1 /\ Append(v, x)[n + 1] = x
        /\ \A i \in 1..n : Append(v, x)[i] = v[i]
    <3>1. v \in Seq(RunEvent) /\ x \in RunEvent
      BY <1>8, <1>9, <2>2
    <3>2. Len(v) = n
      BY <2>1, <2>2
    <3> QED  BY <3>1, <3>2
  <2>4. ASSUME NEW i \in 1..(n + 1)
        PROVE  Append(v, x)[i].n = i
    <3>1. CASE i = n + 1
      BY <1>9, <2>3, <3>1
    <3>2. CASE i \in 1..n
      BY <2>1, <2>2, <2>3, <3>2
    <3>3. n \in Nat
      BY <1>8
    <3>4. i = n + 1 \/ i \in 1..n
      BY <3>3
    <3> QED  BY <3>1, <3>2, <3>4
  <2> QED  BY <2>2, <2>3, <2>4
<1>15. UnreadEnds(t)'
  <2>1. \A i \in 1..Len(u) : u[i].state \notin Terminal
    BY <1>3 DEF PipeFits, UnreadEnds, Sends
  <2>2. /\ Len(u) \in Nat /\ Len(Append(u, x)) = Len(u) + 1 /\ Append(u, x)[Len(u) + 1] = x
        /\ \A i \in 1..Len(u) : Append(u, x)[i] = u[i]
    BY <1>8, <1>9
  <2>3. PICK v : v = Append(u, x)
    OBVIOUS
  <2>4. ASSUME NEW i \in 1..(Len(u) + 1), v[i].state \in Terminal
        PROVE  i = Len(u) + 1 /\ loop'[t].pc = "release"
    <3>1. i = Len(u) + 1
      BY <2>1, <2>2, <2>3, <2>4
    <3>2. s \in Terminal
      BY <1>9, <2>2, <2>3, <2>4, <3>1
    <3> QED  BY <1>6, <3>1, <3>2
  <2> QED  BY <1>10, <2>2, <2>3, <2>4 DEF UnreadEnds
<1>16. TakenEnds(t)'
  BY <1>2, <1>10, <1>12 DEF PipeFits, TakenEnds
<1>17. HandsFit(t)'
  BY <1>12 DEF PipeFits, HandsFit, Sends
<1> QED  BY <1>13, <1>14, <1>15, <1>16, <1>17 DEF PipeFits

\* The forwarding goroutine changes where events are, not which are under way.
LEMMA ForwardsKeeps ==
  ASSUME NEW t \in Tasks, PipeFits(t), Forwards(t)
  PROVE  PipeFits(t)'
<1>1. /\ at'[t] = at[t] /\ taken'[t] = taken[t] /\ loop'[t] = loop[t]
      /\ Unread(t)' = Unread(t)
      /\ at[t] \notin {"idle", "submitted"} \cup Submitting
  BY DEF Forwards, PipeFits, HandsFit
<1>2. Quiet(t)' /\ Counted(t)'
  BY <1>1 DEF PipeFits, Quiet, Counted
<1>3. UnreadEnds(t)' /\ TakenEnds(t)'
  BY <1>1 DEF PipeFits, UnreadEnds, TakenEnds
<1>4. HandsFit(t)'
  BY <1>1 DEF PipeFits, HandsFit, Forwards
<1> QED  BY <1>2, <1>3, <1>4 DEF PipeFits

\* runTask comes or goes without an event.
LEMMA MovesKeeps ==
  ASSUME NEW t \in Tasks, PipeFits(t), Moves(t)
  PROVE  PipeFits(t)'
<1>1. /\ PipeRests(t) /\ loop'[t] = loop[t] /\ Unread(t)' = Unread(t)
      /\ at[t] \in {"submitted", "reading"} /\ at'[t] \in {"reading", "gone"}
      /\ at'[t] \notin {"idle", "submitted"} \cup Submitting
  BY UnreadRests DEF Moves, Submitting
<1>2. Quiet(t)' /\ Counted(t)'
  BY <1>1 DEF PipeFits, Quiet, Counted, PipeRests
<1>3. UnreadEnds(t)' /\ TakenEnds(t)'
  BY <1>1 DEF PipeFits, UnreadEnds, TakenEnds, PipeRests
<1>4. fwd'[t].pc # "holding" => fwd'[t].event = <<>>
  BY <1>1 DEF PipeFits, HandsFit, Moves, PipeRests
<1>5. HandsFit(t)'
  BY <1>1, <1>4 DEF PipeFits, HandsFit
<1> QED  BY <1>2, <1>3, <1>5 DEF PipeFits

\* The next event read is the oldest under way.
LEMMA TakesKeeps ==
  ASSUME NEW t \in Tasks, PipeTypes, ScopeTypes, PipeFits(t), Takes(t)
  PROVE  PipeFits(t)'
<1>1. PICK a : a = taken[t]
  OBVIOUS
<1>2. PICK u : u = Unread(t)
  OBVIOUS
<1>3. PICK e : e = Head(outer[t].events)
  OBVIOUS
<1>4. /\ a \in Seq(RunEvent) /\ u \in Seq(RunEvent)
      /\ outer[t].events \in Seq(RunEvent) /\ fwd[t].event \in Seq(RunEvent)
      /\ outer[t].events \o fwd[t].event \in Seq(RunEvent)
      /\ inner[t].events \in Seq(RunEvent)
  BY <1>1, <1>2, PipeIs
<1>5. /\ outer[t].events # <<>> /\ outer'[t].events = Tail(outer[t].events)
      /\ fwd'[t] = fwd[t] /\ inner'[t] = inner[t] /\ loop'[t] = loop[t]
      /\ at[t] = "reading" /\ taken'[t] = Append(a, e)
      /\ at'[t] = IF e.state \in Terminal THEN "settled" ELSE "reading"
  BY <1>1, <1>3 DEF Takes
<1>6. u # <<>> /\ Head(u) = e /\ Unread(t)' = Tail(u)
  <2>1. PICK o : o = outer[t].events \o fwd[t].event
    OBVIOUS
  <2>2. o # <<>> /\ Head(o) = e /\ Tail(o) = Tail(outer[t].events) \o fwd[t].event
    BY <1>3, <1>4, <1>5, <2>1, TailOut
  <2>3. u = o \o inner[t].events
    BY <1>2, <2>1 DEF Unread
  <2>4. o \in Seq(RunEvent)
    BY <1>4, <2>1
  <2>5. u # <<>> /\ Head(u) = e /\ Tail(u) = Tail(o) \o inner[t].events
    BY <1>4, <2>2, <2>3, <2>4, TailOut
  <2>6. Unread(t)' = (Tail(outer[t].events) \o fwd[t].event) \o inner[t].events
    BY <1>5 DEF Unread
  <2> QED  BY <2>2, <2>5, <2>6
<1>7. Append(a, e) \o Tail(u) = a \o u
  <2>1. (a \o <<Head(u)>>) \o Tail(u) = a \o u /\ Append(a, Head(u)) = a \o <<Head(u)>>
    BY <1>4, <1>6, HeadOver
  <2> QED  BY <1>6, <2>1
<1>8. /\ Len(u) \in Nat \ {0} /\ e = u[1] /\ Len(Tail(u)) = Len(u) - 1
      /\ \A i \in 1..(Len(u) - 1) : Tail(u)[i] = u[i + 1]
  BY <1>4, <1>6
<1>9. at'[t] \notin {"idle", "submitted", "gone"} \cup Submitting
  BY <1>5 DEF Submitting
<1>10. Quiet(t)'
  BY <1>9 DEF Quiet
<1>11. Counted(t)'
  BY <1>1, <1>2, <1>5, <1>6, <1>7 DEF PipeFits, Counted
<1>12. UnreadEnds(t)'
  <2>1. PICK v : v = Tail(u)
    OBVIOUS
  <2>2. ASSUME NEW i \in 1..Len(v), v[i].state \in Terminal
        PROVE  i = Len(v) /\ loop[t].pc \notin {"accept", "select", "emit"}
    <3>1. Len(v) = Len(u) - 1 /\ Len(u) \in Nat
      BY <1>8, <2>1
    <3>2. i \in 1..(Len(u) - 1) /\ i + 1 \in 1..Len(u)
      BY <3>1
    <3>3. u[i + 1].state \in Terminal
      BY <1>8, <2>1, <2>2, <3>2
    <3>4. i + 1 = Len(u) /\ loop[t].pc \notin {"accept", "select", "emit"}
      BY <1>2, <3>2, <3>3 DEF PipeFits, UnreadEnds
    <3> QED  BY <3>1, <3>2, <3>4
  <2> QED  BY <1>5, <1>6, <2>1, <2>2 DEF UnreadEnds
<1>13. TakenEnds(t)'
  <2>1. e \in RunEvent /\ Len(a) \in Nat
    BY <1>4, <1>6
  <2>2. /\ Len(Append(a, e)) = Len(a) + 1 /\ Append(a, e)[Len(a) + 1] = e
        /\ \A i \in 1..Len(a) : Append(a, e)[i] = a[i]
    BY <1>4, <2>1
  <2>3. \A i \in 1..Len(a) : a[i].state \notin Terminal
    BY <1>1, <1>5 DEF PipeFits, TakenEnds
  <2>4. PICK v : v = Append(a, e)
    OBVIOUS
  <2>5. ASSUME NEW i \in 1..(Len(a) + 1), v[i].state \in Terminal
        PROVE  i = Len(a) + 1 /\ at'[t] = "settled"
    <3>1. i = Len(a) + 1
      BY <2>1, <2>2, <2>3, <2>4, <2>5
    <3> QED  BY <1>5, <2>2, <2>4, <2>5, <3>1
  <2> QED  BY <1>5, <2>2, <2>4, <2>5 DEF TakenEnds
<1>14. HandsFit(t)'
  BY <1>5, <1>9 DEF PipeFits, HandsFit
<1> QED  BY <1>10, <1>11, <1>12, <1>13, <1>14 DEF PipeFits

\* A stream that fails ends with the failure.
LEMMA FailsKeeps ==
  ASSUME NEW t \in Tasks, PipeTypes, ScopeTypes, PipeFits(t), Fails(t)
  PROVE  PipeFits(t)'
<1>1. PICK a : a = taken[t]
  OBVIOUS
<1>2. PICK x : x = [n |-> Len(a) + 1, state |-> "failed"]
  OBVIOUS
<1>3. /\ at[t] = "reading" /\ at'[t] = "settled" /\ taken'[t] = Append(a, x)
      /\ at'[t] \notin {"idle", "submitted", "reading", "gone"} \cup Submitting
  BY <1>1, <1>2 DEF Fails, Submitting
<1>4. Unread(t)' = Unread(t) /\ loop'[t] = loop[t] /\ fwd'[t] = fwd[t]
  BY DEF Fails, Unread
<1>5. Quiet(t)' /\ Counted(t)'
  BY <1>3 DEF Quiet, Counted
<1>6. UnreadEnds(t)'
  BY <1>4 DEF PipeFits, UnreadEnds
<1>7. TakenEnds(t)'
  <2>1. a \in Seq(RunEvent) /\ Len(a) \in Nat
    BY <1>1, PipeIs
  <2>2. /\ Len(Append(a, x)) = Len(a) + 1
        /\ \A i \in 1..Len(a) : Append(a, x)[i] = a[i]
    BY <2>1
  <2>3. \A i \in 1..Len(a) : a[i].state \notin Terminal
    BY <1>1, <1>3 DEF PipeFits, TakenEnds
  <2>4. ASSUME NEW i \in 1..(Len(a) + 1), Append(a, x)[i].state \in Terminal
        PROVE  i = Len(a) + 1
    BY <2>1, <2>2, <2>3, <2>4
  <2> QED  BY <1>3, <2>2, <2>4 DEF TakenEnds
<1>8. HandsFit(t)'
  BY <1>3, <1>4 DEF PipeFits, HandsFit
<1> QED  BY <1>5, <1>6, <1>7, <1>8 DEF PipeFits

\* Each of these steps keeps the invariant of its task.
LEMMA PipeStepKeeps ==
  ASSUME NEW t \in Tasks, PipeTypes, ScopeInv, PipeFits(t), PipeStep(t)
  PROVE  PipeFits(t)'
BY RestsKeeps, PreparesKeeps, RefusesKeeps, SendsKeeps, ForwardsKeeps, MovesKeeps,
   TakesKeeps, FailsKeeps DEF PipeStep, ScopeInv

-----------------------------------------------------------------------------
(* Every step is one of these *)

OthersRest(t) == \A u \in Tasks \ {t} : Rests(u)

\* What the steps below need to know of the variables.
LEMMA Typed ==
  ASSUME RunInv
  PROVE  /\ at \in [Tasks -> Steps] /\ loop \in [Tasks -> LoopState]
         /\ feed \in [Tasks -> Feed]
         /\ inner \in [Tasks -> Channels] /\ outer \in [Tasks -> Channels]
         /\ fwd \in [Tasks -> Forwarder] /\ taken \in [Tasks -> Seq(RunEvent)]
         /\ prompt \in [Tasks -> {"none", "calling", "ok", "error"}]
         /\ remote \in [Tasks -> Prompt]
BY DEF RunInv, ScopeInv, ScopeTypes, PipeTypes

\* Submit.
LEMMA SubmitPipes ==
  ASSUME RunInv, NEW t \in Tasks, Submit(t)
  PROVE  PipeStep(t) /\ OthersRest(t) /\ PipeTypes'
<1>1. PipeTypes /\ NotYetLooping
  BY DEF RunInv, ScopeInv
<1>2. CASE TryAcquire(t) \/ LoadSession(t) \/ OpenSession(t) \/ PersistBinding(t) \/ Register(t)
  <2>1. /\ at[t] \in {"idle"} \cup Submitting
        /\ \E to \in Submitting : at' = [at EXCEPT ![t] = to]
        /\ UNCHANGED <<taken, loop, prompt, remote, feed, inner, fwd, outer>>
    BY <1>2 DEF TryAcquire, LoadSession, OpenSession, PersistBinding, Register, Goto,
       Submitting, loopVars, pipeVars
  <2>2. loop[t].pc = "off"
    BY <1>1, <2>1 DEF NotYetLooping
  <2>3. Prepares(t) /\ OthersRest(t)
    BY <2>1, <2>2, Typed DEF Prepares, OthersRest, Rests, PipeRests
  <2>4. PipeTypes'
    BY <1>1, <2>1 DEF PipeTypes
  <2> QED  BY <2>3, <2>4 DEF PipeStep
<1>3. CASE Launch(t)
  <2>1. /\ at[t] = "registered" /\ at' = [at EXCEPT ![t] = "submitted"]
        /\ loop' = [loop EXCEPT ![t].pc = "accept"]
        /\ feed' = [feed EXCEPT ![t].open = TRUE]
        /\ UNCHANGED <<taken, prompt, remote, inner, fwd, outer>>
    BY <1>3 DEF Launch, Goto, pipeVars
  <2>2. loop[t].pc = "off" /\ at[t] \in Submitting
    BY <1>1, <2>1 DEF NotYetLooping, Submitting
  <2>3. /\ loop'[t].pc = "accept" /\ loop'[t].sent = loop[t].sent
        /\ \A u \in Tasks \ {t} : loop'[u] = loop[u]
    BY <2>1, Typed DEF LoopState
  <2>4. Prepares(t) /\ OthersRest(t)
    BY <2>1, <2>2, <2>3, Typed DEF Prepares, OthersRest, Rests, PipeRests
  <2>5. \A u \in Tasks : feed'[u].notes = feed[u].notes
    BY <2>1, Typed DEF Feed
  <2>6. PipeTypes'
    BY <1>1, <2>1, <2>5 DEF PipeTypes
  <2> QED  BY <2>4, <2>6 DEF PipeStep
<1>4. CASE ScopeBusy(t) \/ GiveUp(t)
  <2>1. /\ at[t] \in {"idle"} \cup Submitting
        /\ at' = [at EXCEPT ![t] = "settled"]
        /\ taken' = [taken EXCEPT ![t] = <<[n |-> 1, state |-> "failed"]>>]
        /\ UNCHANGED <<loop, prompt, remote, feed, inner, fwd, outer>>
    BY <1>4 DEF ScopeBusy, GiveUp, SubmitFails, Submitting, pipeVars
  <2>2. Refuses(t) /\ OthersRest(t)
    BY <2>1, Typed DEF Refuses, OthersRest, Rests, PipeRests
  <2>3. <<[n |-> 1, state |-> "failed"]>> \in Seq(RunEvent)
    BY DEF RunEvent, Terminal
  <2>4. taken' \in [Tasks -> Seq(RunEvent)]
    BY <2>1, <2>3, Typed
  <2>5. PipeTypes'
    BY <1>1, <2>1, <2>4 DEF PipeTypes
  <2> QED  BY <2>2, <2>5 DEF PipeStep
<1> QED  BY <1>2, <1>3, <1>4 DEF Submit

\* consumeRun sends.
LEMMA EmitPipes ==
  ASSUME RunInv, NEW t \in Tasks, LoopAccept(t) \/ LoopEmit(t)
  PROVE  PipeStep(t) /\ OthersRest(t) /\ PipeTypes'
<1>1. PipeTypes /\ HandsFit(t) /\ loop[t] \in LoopState /\ inner[t] \in Channels
  BY Typed DEF RunInv, PipeFits
<1>2. PICK s \in RunStates :
        /\ Emit(t, s) /\ loop[t].pc \in {"accept", "emit"}
        /\ \E pc \in {"select", "release"}, state \in {None, loop[t].state} :
             /\ loop' = [loop EXCEPT ![t].pc = pc, ![t].state = state, ![t].sent = @ + 1]
             /\ s \in Terminal => pc = "release"
        /\ UNCHANGED <<at, taken, feed, fwd, outer>>
        /\ prompt' \in [Tasks -> {"none", "calling", "ok", "error"}]
        /\ remote' \in [Tasks -> Prompt]
  <2>1. CASE LoopAccept(t)
    <3>1. /\ Emit(t, "running") /\ loop[t].pc = "accept"
          /\ loop' = [loop EXCEPT ![t].pc = "select", ![t].sent = @ + 1]
          /\ prompt' = [prompt EXCEPT ![t] = "calling"]
          /\ remote' = [remote EXCEPT ![t].working = TRUE]
          /\ UNCHANGED <<at, taken, feed, fwd, outer>>
      BY <2>1 DEF LoopAccept, callerVars
    <3>2. loop' = [loop EXCEPT ![t].pc = "select", ![t].state = loop[t].state, ![t].sent = @ + 1]
      BY <3>1, Typed DEF LoopState
    <3>3. "running" \in RunStates /\ "running" \notin Terminal
      BY DEF RunStates, Terminal
    <3>4. prompt' \in [Tasks -> {"none", "calling", "ok", "error"}]
      BY <3>1, Typed
    <3>5. remote' \in [Tasks -> Prompt]
      BY <3>1, Typed DEF Prompt
    <3> QED  BY <3>1, <3>2, <3>3, <3>4, <3>5
  <2>2. CASE LoopEmit(t)
    <3>1. PICK pc : pc = IF loop[t].last THEN "release" ELSE "select"
      OBVIOUS
    <3>2. /\ Emit(t, loop[t].state) /\ loop[t].pc = "emit"
          /\ loop' = [loop EXCEPT ![t].pc = pc, ![t].state = None, ![t].sent = @ + 1]
          /\ UNCHANGED <<at, taken, prompt, remote, feed, fwd, outer>>
      BY <2>2, <3>1 DEF LoopEmit, callerVars
    <3>3. loop[t].state \in RunStates /\ (loop[t].state \in Terminal => pc = "release")
      BY <1>1, <3>1, <3>2 DEF HandsFit
    <3>4. pc \in {"select", "release"}
      BY <3>1
    <3> QED  BY <3>2, <3>3, <3>4, Typed
  <2> QED  BY <2>1, <2>2
<1>3. PICK pc \in {"select", "release"}, state \in {None, loop[t].state} :
        /\ loop' = [loop EXCEPT ![t].pc = pc, ![t].state = state, ![t].sent = @ + 1]
        /\ s \in Terminal => pc = "release"
  BY <1>2
<1>4. PICK x : x = [n |-> loop[t].sent + 1, state |-> s]
  OBVIOUS
<1>5. /\ Len(inner[t].events) < ChanCap
      /\ inner' = [inner EXCEPT ![t].events = Append(@, x)]
  BY <1>2, <1>4 DEF Emit
<1>6. /\ loop'[t].pc = pc /\ loop'[t].sent = loop[t].sent + 1
      /\ \A u \in Tasks \ {t} : loop'[u] = loop[u]
  BY <1>1, <1>3, Typed DEF LoopState
<1>7. /\ inner'[t].events = Append(inner[t].events, x)
      /\ \A u \in Tasks \ {t} : inner'[u] = inner[u]
  BY <1>1, <1>5, Typed DEF Channels
<1>8. Sends(t)
  BY <1>2, <1>3, <1>4, <1>6, <1>7 DEF Sends
<1>9. OthersRest(t)
  BY <1>2, <1>6, <1>7 DEF OthersRest, Rests, PipeRests
<1>10. x \in RunEvent
  BY <1>1, <1>4 DEF RunEvent, RunStates, LoopState
<1>11. /\ Append(inner[t].events, x) \in Seq(RunEvent)
       /\ Len(Append(inner[t].events, x)) = Len(inner[t].events) + 1
       /\ Len(inner[t].events) \in Nat
  <2>1. inner[t].events \in Seq(RunEvent)
    BY <1>1 DEF Channels
  <2> QED  BY <1>10, <2>1
<1>12. inner' \in [Tasks -> Channels]
  <2>1. [inner[t] EXCEPT !.events = Append(inner[t].events, x)] \in Channels
    BY <1>1, <1>11 DEF Channels
  <2>2. inner' = [inner EXCEPT ![t] = [inner[t] EXCEPT !.events = Append(inner[t].events, x)]]
    BY <1>5
  <2> QED  BY <2>1, <2>2, Typed
<1>13. \A u \in Tasks : Len(inner'[u].events) <= ChanCap
  <2>1. Len(inner'[t].events) <= ChanCap
    BY <1>5, <1>7, <1>11, RunAssumption
  <2> QED  BY <1>1, <1>7, <2>1 DEF PipeTypes
<1>14. PipeTypes'
  BY <1>1, <1>2, <1>12, <1>13 DEF PipeTypes
<1> QED  BY <1>8, <1>9, <1>14 DEF PipeStep

\* consumeRun decides.
LEMMA DecidePipes ==
  ASSUME RunInv, NEW t \in Tasks,
         \/ LoopPromptFailed(t) \/ LoopIdle(t) \/ LoopPromptReturned(t) \/ LoopDrained(t)
         \/ LoopNote(t) \/ LoopRelease(t) \/ LoopClose(t) \/ LoopUnregister(t)
  PROVE  PipeStep(t) /\ OthersRest(t) /\ PipeTypes'
<1>1. PipeTypes /\ loop[t] \in LoopState /\ feed[t] \in Feed
  BY Typed DEF RunInv
<1>2. ASSUME NEW l \in LoopState, loop' = [loop EXCEPT ![t] = l],
             l.sent = loop[t].sent,
             \/ loop[t].pc \in {"accept", "select", "emit"}
             \/ l.pc \notin {"accept", "select", "emit"},
             l.pc = "emit" => l.state \in RunStates /\ (l.state \in Terminal => l.last),
             UNCHANGED <<at, taken, prompt, remote, fwd, outer>>,
             inner' \in [Tasks -> Channels],
             \A u \in Tasks : inner'[u].events = inner[u].events,
             \A u \in Tasks : Len(feed'[u].notes) <= NoteCap
      PROVE  PipeStep(t) /\ OthersRest(t) /\ PipeTypes'
  <2>1. loop'[t] = l /\ \A u \in Tasks \ {t} : loop'[u] = loop[u]
    BY <1>2, Typed
  <2>2. Decides(t)
    BY <1>2, <2>1 DEF Decides, PipeRests
  <2>3. OthersRest(t)
    BY <1>2, <2>1 DEF OthersRest, Rests, PipeRests
  <2>4. PipeTypes'
    BY <1>1, <1>2 DEF PipeTypes
  <2> QED  BY <2>2, <2>3, <2>4 DEF PipeStep
<1>3. \A u \in Tasks : Len(feed[u].notes) <= NoteCap
  BY <1>1 DEF PipeTypes
<1>4. CASE LoopPromptFailed(t) \/ LoopIdle(t)
  <2> DEFINE l == [loop[t] EXCEPT !.pc = "close"]
  <2>1. /\ loop[t].pc = "select" /\ loop' = [loop EXCEPT ![t] = l]
        /\ inner' = [inner EXCEPT ![t].err = TRUE]
        /\ UNCHANGED <<at, taken, prompt, remote, feed, fwd, outer>>
    BY <1>4 DEF LoopPromptFailed, LoopIdle, LoopFails, callerVars
  <2>2. l \in LoopState /\ l.sent = loop[t].sent /\ l.pc = "close"
    BY <1>1 DEF LoopState, Loops
  <2>3. /\ inner' \in [Tasks -> Channels]
        /\ \A u \in Tasks : inner'[u].events = inner[u].events
    <3> DEFINE x == [inner[t] EXCEPT !.err = TRUE]
    <3>1. inner[t] \in Channels
      BY Typed
    <3>2. x \in Channels /\ x.events = inner[t].events
      BY <3>1 DEF Channels
    <3>3. inner' = [inner EXCEPT ![t] = x]
      BY <2>1
    <3> HIDE DEF x
    <3> QED  BY <3>2, <3>3, Typed
  <2> HIDE DEF l
  <2> QED  BY <1>2, <1>3, <2>1, <2>2, <2>3
<1>5. CASE LoopPromptReturned(t)
  <2> DEFINE l == [loop[t] EXCEPT !.finished = TRUE]
  <2>1. /\ loop[t].pc = "select" /\ loop' = [loop EXCEPT ![t] = l]
        /\ UNCHANGED <<at, taken, prompt, remote, feed, inner, fwd, outer>>
    BY <1>5 DEF LoopPromptReturned, callerVars, pipeVars
  <2>2. l \in LoopState /\ l.sent = loop[t].sent /\ l.pc = "select"
    BY <1>1, <2>1 DEF LoopState
  <2> HIDE DEF l
  <2> QED  BY <1>2, <1>3, <2>1, <2>2, Typed
<1>6. CASE LoopDrained(t)
  <2> DEFINE k == [loop[t] EXCEPT !.pc = "emit", !.state = "completed", !.last = TRUE]
             l == [loop[t] EXCEPT !.pc = "release"]
  <2>1. /\ loop[t].pc = "select"
        /\ loop' = [loop EXCEPT ![t] = k] \/ loop' = [loop EXCEPT ![t] = l]
        /\ UNCHANGED <<at, taken, prompt, remote, feed, inner, fwd, outer>>
    BY <1>6 DEF LoopDrained, callerVars, pipeVars
  <2>2. k \in LoopState /\ k.sent = loop[t].sent /\ k.state = "completed" /\ k.last = TRUE
    BY <1>1 DEF LoopState, Loops, Holding, Statuses, Terminal
  <2>3. l \in LoopState /\ l.sent = loop[t].sent /\ l.pc = "release"
    BY <1>1 DEF LoopState, Loops, Holding
  <2>4. "completed" \in RunStates
    BY DEF RunStates, Terminal
  <2> HIDE DEF k, l
  <2>5. CASE loop' = [loop EXCEPT ![t] = k]
    BY <1>2, <1>3, <2>1, <2>2, <2>4, <2>5, Typed
  <2>6. CASE loop' = [loop EXCEPT ![t] = l]
    BY <1>2, <1>3, <2>1, <2>3, <2>6, Typed
  <2> QED  BY <2>1, <2>5, <2>6
<1>7. CASE LoopNote(t)
  <2>1. PICK note : note = Head(feed[t].notes)
    OBVIOUS
  <2>2. PICK last \in BOOLEAN : last = (note.what \in Terminal)
    <3>1. (note.what \in Terminal) \in BOOLEAN
      OBVIOUS
    <3> QED  BY Zenon, <3>1
  <2>3. PICK rest : rest = Tail(feed[t].notes)
    OBVIOUS
  <2> DEFINE l == [loop[t] EXCEPT !.pc = "emit", !.state = note.what, !.last = last,
                                  !.structured = TRUE]
  <2>4. /\ loop[t].pc = "select" /\ feed[t].notes # <<>>
        /\ feed' = [feed EXCEPT ![t].notes = rest]
        /\ UNCHANGED <<at, taken, prompt, remote, inner, fwd, outer>>
        /\ loop' = loop \/ (note.what # "chunk" /\ loop' = [loop EXCEPT ![t] = l])
    BY <1>7, <2>1, <2>2, <2>3 DEF LoopNote, callerVars, pipeVars
  <2>5. /\ note \in Note /\ Len(rest) = Len(feed[t].notes) - 1
        /\ Len(feed[t].notes) \in Nat
    <3>1. feed[t].notes \in Seq(Note)
      BY <1>1 DEF Feed
    <3> QED  BY <2>1, <2>3, <2>4, <3>1
  <2>6. \A u \in Tasks : Len(feed'[u].notes) <= NoteCap
    <3>1. feed'[t].notes = rest /\ \A u \in Tasks \ {t} : feed'[u] = feed[u]
      BY <1>1, <2>4, Typed DEF Feed
    <3>2. Len(rest) <= NoteCap
      BY <1>3, <2>5, RunAssumption
    <3> QED  BY <1>3, <3>1, <3>2
  <2>7. ASSUME note.what # "chunk"
        PROVE  note.what \in RunStates /\ note.what \in Statuses
    BY <2>5, <2>7, RunAssumption DEF Note, RunStates, Statuses, Terminal
  <2>8. ASSUME note.what # "chunk"
        PROVE  /\ l \in LoopState /\ l.sent = loop[t].sent /\ l.state = note.what
               /\ l.last = last
    BY <1>1, <2>7, <2>8 DEF LoopState, Loops, Holding
  <2> HIDE DEF l
  <2>9. CASE loop' = loop
    <3>1. /\ Rests(t) /\ OthersRest(t)
      BY <2>4, <2>9 DEF Rests, OthersRest, PipeRests
    <3>2. PipeTypes'
      BY <1>1, <2>4, <2>6 DEF PipeTypes
    <3> QED  BY <3>1, <3>2 DEF PipeStep
  <2>10. CASE note.what # "chunk" /\ loop' = [loop EXCEPT ![t] = l]
    <3>1. l.state \in RunStates /\ (l.state \in Terminal => l.last)
      BY <2>2, <2>7, <2>8, <2>10
    <3>2. loop[t].pc \in {"accept", "select", "emit"}
      BY <2>4
    <3>3. inner' \in [Tasks -> Channels] /\ \A u \in Tasks : inner'[u].events = inner[u].events
      BY <2>4, Typed
    <3> QED  BY <1>2, <2>4, <2>6, <2>8, <2>10, <3>1, <3>2, <3>3
  <2> QED  BY <2>4, <2>9, <2>10
<1>8. CASE LoopRelease(t)
  <2> DEFINE l == [loop[t] EXCEPT !.pc = "close"]
  <2>1. /\ loop' = [loop EXCEPT ![t] = l]
        /\ UNCHANGED <<at, taken, prompt, remote, feed, inner, fwd, outer>>
    BY <1>8 DEF LoopRelease, callerVars, pipeVars
  <2>2. l \in LoopState /\ l.sent = loop[t].sent /\ l.pc = "close"
    BY <1>1 DEF LoopState, Loops
  <2> HIDE DEF l
  <2> QED  BY <1>2, <1>3, <2>1, <2>2, Typed
<1>9. CASE LoopClose(t)
  <2> DEFINE l == [loop[t] EXCEPT !.pc = "unregister"]
  <2>1. /\ loop' = [loop EXCEPT ![t] = l]
        /\ inner' = [inner EXCEPT ![t].closed = TRUE]
        /\ UNCHANGED <<at, taken, prompt, remote, feed, fwd, outer>>
    BY <1>9 DEF LoopClose, callerVars
  <2>2. l \in LoopState /\ l.sent = loop[t].sent /\ l.pc = "unregister"
    BY <1>1 DEF LoopState, Loops
  <2>3. /\ inner' \in [Tasks -> Channels]
        /\ \A u \in Tasks : inner'[u].events = inner[u].events
    <3> DEFINE x == [inner[t] EXCEPT !.closed = TRUE]
    <3>1. inner[t] \in Channels
      BY Typed
    <3>2. x \in Channels /\ x.events = inner[t].events
      BY <3>1 DEF Channels
    <3>3. inner' = [inner EXCEPT ![t] = x]
      BY <2>1
    <3> HIDE DEF x
    <3> QED  BY <3>2, <3>3, Typed
  <2> HIDE DEF l
  <2> QED  BY <1>2, <1>3, <2>1, <2>2, <2>3
<1>10. CASE LoopUnregister(t)
  <2> DEFINE l == [loop[t] EXCEPT !.pc = "done"]
  <2>1. /\ loop' = [loop EXCEPT ![t] = l]
        /\ feed' = [feed EXCEPT ![t] = [open |-> FALSE, notes |-> <<>>]]
        /\ UNCHANGED <<at, taken, prompt, remote, inner, fwd, outer>>
    BY <1>10 DEF LoopUnregister, callerVars, pipeVars
  <2>2. l \in LoopState /\ l.sent = loop[t].sent /\ l.pc = "done"
    BY <1>1 DEF LoopState, Loops
  <2>3. \A u \in Tasks : Len(feed'[u].notes) <= NoteCap
    BY <1>3, <2>1, Typed, RunAssumption
  <2> HIDE DEF l
  <2> QED  BY <1>2, <2>1, <2>2, <2>3, Typed
<1> QED  BY <1>4, <1>5, <1>6, <1>7, <1>8, <1>9, <1>10

\* The runtime.
LEMMA RemotePipes ==
  ASSUME RunInv, NEW t \in Tasks, NEW what \in Notes, Notify(t, what)
  PROVE  (\A u \in Tasks : Rests(u)) /\ PipeTypes'
<1>1. PipeTypes
  BY DEF RunInv
<1>2. /\ remote[t].notes < MaxNotes
      /\ remote' = [remote EXCEPT ![t].notes = @ + 1]
      /\ UNCHANGED <<at, taken, loop, prompt, inner, fwd, outer>>
  BY DEF Notify, callerVars, pipeVars
<1>3. remote' \in [Tasks -> Prompt]
  <2> DEFINE x == [remote[t] EXCEPT !.notes = @ + 1]
  <2>1. remote[t] \in Prompt
    BY Typed
  <2>2. x \in Prompt
    BY <1>2, <2>1, RunAssumption DEF Prompt
  <2>3. remote' = [remote EXCEPT ![t] = x]
    BY <1>2
  <2> HIDE DEF x
  <2> QED  BY <2>2, <2>3, Typed
<1>4. ASSUME NEW u \in Tasks
      PROVE  Len(feed'[u].notes) <= NoteCap
  <2>1. PICK note : note = [sess |-> sess[t], what |-> what]
    OBVIOUS
  <2>2. note \in Note
    BY <2>1 DEF RunInv, ScopeInv, ScopeTypes, Note
  <2>3. feed[u] \in Feed /\ Len(feed[u].notes) <= NoteCap
    BY <1>1, Typed DEF PipeTypes
  <2>4. feed[u].notes \in Seq(Note)
    BY <2>3 DEF Feed
  <2>5. feed'[u] = IF feed[u].open /\ Len(feed[u].notes) < NoteCap
                     THEN [feed[u] EXCEPT !.notes = Append(@, note)] ELSE feed[u]
    BY <2>1 DEF Notify
  <2>6. CASE feed[u].open /\ Len(feed[u].notes) < NoteCap
    <3>1. feed'[u].notes = Append(feed[u].notes, note)
      BY <2>3, <2>5, <2>6 DEF Feed
    <3>2. Len(Append(feed[u].notes, note)) = Len(feed[u].notes) + 1
          /\ Len(feed[u].notes) \in Nat
      BY <2>2, <2>4
    <3> QED  BY <2>6, <3>1, <3>2, RunAssumption
  <2>7. CASE ~(feed[u].open /\ Len(feed[u].notes) < NoteCap)
    BY <2>3, <2>5, <2>7
  <2> QED  BY <2>6, <2>7
<1>5. \A u \in Tasks : Rests(u)
  BY <1>2 DEF Rests, PipeRests
<1>6. PipeTypes'
  BY <1>1, <1>2, <1>3, <1>4 DEF PipeTypes
<1> QED  BY <1>5, <1>6

\* A prompt is answered, or nothing happens.
LEMMA PromptPipes ==
  ASSUME RunInv, (\E t \in Tasks : PromptEnds(t)) \/ UNCHANGED runVars
  PROVE  (\A u \in Tasks : Rests(u)) /\ PipeTypes'
<1>1. PipeTypes
  BY DEF RunInv
<1>2. UNCHANGED <<at, taken, loop, feed, inner, fwd, outer>>
  BY DEF PromptEnds, callerVars, pipeVars, runVars
<1>3. /\ prompt' \in [Tasks -> {"none", "calling", "ok", "error"}]
      /\ remote' \in [Tasks -> Prompt]
  <2>1. ASSUME NEW t \in Tasks, PromptEnds(t)
        PROVE  /\ prompt' \in [Tasks -> {"none", "calling", "ok", "error"}]
               /\ remote' \in [Tasks -> Prompt]
    BY <2>1, Typed DEF PromptEnds, Prompt
  <2>2. CASE UNCHANGED runVars
    BY <2>2, Typed DEF runVars
  <2> QED  BY <2>1, <2>2
<1>4. \A u \in Tasks : Rests(u)
  BY <1>2 DEF Rests, PipeRests
<1>5. PipeTypes'
  BY <1>1, <1>2, <1>3 DEF PipeTypes
<1> QED  BY <1>4, <1>5

\* The forwarding goroutine.
LEMMA ForwardPipes ==
  ASSUME RunInv, NEW t \in Tasks, Forward(t)
  PROVE  PipeStep(t) /\ OthersRest(t) /\ PipeTypes'
<1>1. /\ PipeTypes /\ HandsFit(t) /\ ScopeTypes /\ inner[t] \in Channels
      /\ outer[t] \in Channels /\ fwd[t] \in Forwarder
  BY Typed DEF RunInv, PipeFits, ScopeInv
<1>2. UNCHANGED <<at, taken, loop, prompt, remote, feed>>
  BY DEF Forward, FwdTake, FwdSend, FwdError, FwdClosed, callerVars, loopVars
<1>3. PICK o : o = outer[t].events
  OBVIOUS
<1>4. PICK e : e = fwd[t].event
  OBVIOUS
<1>5. PICK i : i = inner[t].events
  OBVIOUS
<1>6. /\ o \in Seq(RunEvent) /\ e \in Seq(RunEvent) /\ i \in Seq(RunEvent)
      /\ Len(o) \in Nat /\ Len(e) \in Nat /\ Len(i) \in Nat
      /\ Len(o) <= ChanCap /\ Len(i) <= ChanCap /\ Len(e) <= 1
  BY <1>1, <1>3, <1>4, <1>5, PipeIs DEF PipeTypes
<1>7. Unread(t) = (o \o e) \o i
  BY <1>3, <1>4, <1>5 DEF Unread
<1>8. ASSUME NEW x \in Channels, NEW y \in Forwarder, NEW z \in Channels,
             outer' = [outer EXCEPT ![t] = x], fwd' = [fwd EXCEPT ![t] = y],
             inner' = [inner EXCEPT ![t] = z],
             fwd[t].pc # "off", y.pc # "holding" => y.event = <<>>,
             (x.events \o y.event) \o z.events = (o \o e) \o i,
             Len(x.events) <= ChanCap, Len(y.event) <= 1, Len(z.events) <= ChanCap
      PROVE  PipeStep(t) /\ OthersRest(t) /\ PipeTypes'
  <2>1. /\ outer'[t] = x /\ fwd'[t] = y /\ inner'[t] = z
        /\ \A u \in Tasks \ {t} : outer'[u] = outer[u] /\ fwd'[u] = fwd[u] /\ inner'[u] = inner[u]
        /\ outer' \in [Tasks -> Channels] /\ fwd' \in [Tasks -> Forwarder]
        /\ inner' \in [Tasks -> Channels]
    BY <1>8, Typed
  <2>2. Unread(t)' = Unread(t)
    BY <1>7, <1>8, <2>1 DEF Unread
  <2>3. Forwards(t)
    BY <1>2, <1>8, <2>1, <2>2 DEF Forwards
  <2>4. OthersRest(t)
    BY <1>2, <2>1 DEF OthersRest, Rests, PipeRests
  <2>5. PipeTypes'
    BY <1>1, <1>2, <1>8, <2>1 DEF PipeTypes
  <2> QED  BY <2>3, <2>4, <2>5 DEF PipeStep
<1>9. CASE FwdTake(t)
  <2>1. PICK h : h = Head(i)
    OBVIOUS
  <2>2. PICK r : r = Tail(i)
    OBVIOUS
  <2> DEFINE y == [pc |-> "holding", event |-> <<h>>]
             z == [inner[t] EXCEPT !.events = r]
  <2>3. /\ fwd[t].pc = "select" /\ i # <<>> /\ fwd' = [fwd EXCEPT ![t] = y]
        /\ inner' = [inner EXCEPT ![t] = z] /\ outer' = outer
    BY <1>9, <1>5, <2>1, <2>2 DEF FwdTake
  <2>4. h \in RunEvent /\ r \in Seq(RunEvent) /\ Len(r) = Len(i) - 1
    BY <1>6, <2>1, <2>2, <2>3
  <2>5. y \in Forwarder /\ y.pc = "holding" /\ y.event = <<h>> /\ Len(<<h>>) = 1
    BY <2>4 DEF Forwarder
  <2>6. z \in Channels /\ z.events = r
    BY <1>1, <2>4 DEF Channels
  <2>7. (o \o <<h>>) \o r = (o \o e) \o i
    <3>1. e = <<>>
      BY <1>1, <1>4, <2>3 DEF HandsFit
    <3>2. o \o e = o
      BY <1>6, <3>1, ConcatEmptySeq
    <3>3. o \in Seq(RunEvent) /\ i \in Seq(RunEvent) /\ i # <<>>
      BY <1>6, <2>3
    <3>4. (o \o <<Head(i)>>) \o Tail(i) = o \o i
      BY <3>3, HeadOver
    <3> QED  BY <2>1, <2>2, <3>2, <3>4
  <2>8. Len(r) <= ChanCap
    BY <1>6, <2>4, RunAssumption
  <2>9. outer' = [outer EXCEPT ![t] = outer[t]]
    BY <2>3, Typed
  <2> HIDE DEF y, z
  <2>10. /\ outer[t] \in Channels /\ fwd[t].pc # "off" /\ Len(outer[t].events) <= ChanCap
         /\ (outer[t].events \o y.event) \o z.events = (o \o e) \o i
         /\ Len(y.event) <= 1 /\ Len(z.events) <= ChanCap
    <3>1. (outer[t].events \o y.event) \o z.events = (o \o e) \o i
      BY Zenon, <1>3, <2>5, <2>6, <2>7
    <3>2. Len(y.event) <= 1
      BY <2>5
    <3>3. Len(z.events) <= ChanCap /\ Len(outer[t].events) <= ChanCap
      BY <1>3, <1>6, <2>6, <2>8
    <3> QED  BY <1>1, <2>3, <3>1, <3>2, <3>3
  <2>11. y \in Forwarder /\ z \in Channels /\ y.pc = "holding"
    BY <2>5, <2>6
  <2> QED  BY <1>8, <2>3, <2>9, <2>10, <2>11
<1>10. CASE FwdSend(t)
  <2> DEFINE x == [outer[t] EXCEPT !.events = o \o e]
             y == [pc |-> "select", event |-> <<>>]
  <2>1. /\ fwd[t].pc = "holding" /\ Len(o) < ChanCap
        /\ outer' = [outer EXCEPT ![t] = x] /\ fwd' = [fwd EXCEPT ![t] = y]
        /\ inner' = inner
    BY <1>3, <1>4, <1>10 DEF FwdSend
  <2>2. o \o e \in Seq(RunEvent) /\ Len(o \o e) = Len(o) + Len(e)
    BY <1>6, ConcatProperties
  <2>3. x \in Channels /\ x.events = o \o e
    BY <1>1, <2>2 DEF Channels
  <2>4. y \in Forwarder /\ y.pc = "select" /\ y.event = <<>> /\ Len(<<>>) = 0
    BY DEF Forwarder
  <2>5. ((o \o e) \o <<>>) \o i = (o \o e) \o i
    BY <2>2, ConcatEmptySeq
  <2>6. Len(o \o e) <= ChanCap
    BY <1>6, <2>1, <2>2, RunAssumption
  <2>7. inner' = [inner EXCEPT ![t] = inner[t]]
    BY <2>1, Typed
  <2> HIDE DEF x, y
  <2>8. /\ inner[t] \in Channels /\ fwd[t].pc # "off" /\ Len(inner[t].events) <= ChanCap
        /\ (x.events \o y.event) \o inner[t].events = (o \o e) \o i
        /\ Len(x.events) <= ChanCap /\ Len(y.event) <= 1
    BY <1>1, <1>5, <1>6, <2>1, <2>3, <2>4, <2>5, <2>6
  <2>9. x \in Channels /\ y \in Forwarder /\ y.event = <<>>
    BY <2>3, <2>4
  <2> QED  BY <1>8, <2>1, <2>7, <2>8, <2>9
<1>11. CASE FwdError(t) \/ FwdClosed(t)
  <2>1. PICK err \in BOOLEAN, more \in BOOLEAN :
          /\ fwd[t].pc = "select"
          /\ fwd' = [fwd EXCEPT ![t].pc = "done"]
          /\ outer' = [outer EXCEPT ![t].err = err, ![t].closed = TRUE]
          /\ inner' = [inner EXCEPT ![t].err = more]
    <3>1. CASE FwdError(t)
      BY <3>1 DEF FwdError
    <3>2. CASE FwdClosed(t)
      <4>1. outer[t].err \in BOOLEAN /\ inner[t].err \in BOOLEAN
        BY <1>1 DEF Channels
      <4>2. outer' = [outer EXCEPT ![t].closed = TRUE] /\ inner' = inner
        BY <3>2 DEF FwdClosed
      <4>3. outer' = [outer EXCEPT ![t].err = outer[t].err, ![t].closed = TRUE]
        BY <1>1, <4>2, Typed DEF Channels
      <4>4. inner' = [inner EXCEPT ![t].err = inner[t].err]
        BY <1>1, <4>2, Typed DEF Channels
      <4> QED  BY <3>2, <4>1, <4>3, <4>4 DEF FwdClosed
    <3> QED  BY <1>11, <3>1, <3>2
  <2> DEFINE x == [outer[t] EXCEPT !.err = err, !.closed = TRUE]
             y == [fwd[t] EXCEPT !.pc = "done"]
             z == [inner[t] EXCEPT !.err = more]
  <2>2. /\ outer' = [outer EXCEPT ![t] = x] /\ fwd' = [fwd EXCEPT ![t] = y]
        /\ inner' = [inner EXCEPT ![t] = z]
    BY <2>1, Typed
  <2>3. x \in Channels /\ x.events = o
    BY <1>1, <1>3 DEF Channels
  <2>4. y \in Forwarder /\ y.event = e
    BY <1>1, <1>4 DEF Forwarder
  <2>5. z \in Channels /\ z.events = i
    BY <1>1, <1>5 DEF Channels
  <2>6. e = <<>> /\ fwd[t].pc # "off"
    BY <1>1, <1>4, <2>1 DEF HandsFit
  <2> HIDE DEF x, y, z
  <2> QED  BY <1>6, <1>8, <2>2, <2>3, <2>4, <2>5, <2>6
<1> QED  BY <1>9, <1>10, <1>11 DEF Forward

\* runTask.
LEMMA ReadPipes ==
  ASSUME RunInv, NEW t \in Tasks, Read(t)
  PROVE  PipeStep(t) /\ OthersRest(t) /\ PipeTypes'
<1>1. /\ PipeTypes /\ HandsFit(t) /\ ScopeTypes
      /\ outer[t] \in Channels /\ fwd[t] \in Forwarder
  BY Typed DEF RunInv, PipeFits, ScopeInv
<1>2. UNCHANGED <<loop, prompt, remote, feed, inner>>
  BY DEF Read, StreamEvents, MissingRun, ReadEvent, ReadError, ReadClosed, loopVars, pipeVars
<1>3. CASE StreamEvents(t) \/ MissingRun(t)
  <2>1. PICK pc \in {"select", "done"}, err \in BOOLEAN, closed \in BOOLEAN :
          /\ at[t] = "submitted" /\ at' = [at EXCEPT ![t] = "reading"] /\ taken' = taken
          /\ fwd' = [fwd EXCEPT ![t].pc = pc]
          /\ outer' = [outer EXCEPT ![t].err = err, ![t].closed = closed]
    <3>1. CASE StreamEvents(t)
      <4>1. outer[t].err \in BOOLEAN /\ outer[t].closed \in BOOLEAN
        BY <1>1 DEF Channels
      <4>2. outer' = [outer EXCEPT ![t].err = outer[t].err, ![t].closed = outer[t].closed]
        BY <1>1, <3>1, Typed DEF StreamEvents, Channels
      <4> QED  BY <3>1, <4>1, <4>2 DEF StreamEvents, Goto
    <3>2. CASE MissingRun(t)
      BY <3>2 DEF MissingRun, Goto
    <3> QED  BY <1>3, <3>1, <3>2
  <2> DEFINE x == [outer[t] EXCEPT !.err = err, !.closed = closed]
             y == [fwd[t] EXCEPT !.pc = pc]
  <2>2. outer' = [outer EXCEPT ![t] = x] /\ fwd' = [fwd EXCEPT ![t] = y]
    BY <2>1, Typed
  <2>3. x \in Channels /\ x.events = outer[t].events
    BY <1>1 DEF Channels
  <2>4. y \in Forwarder /\ y.event = fwd[t].event /\ y.pc = pc
    BY <1>1 DEF Forwarder
  <2> HIDE DEF x, y
  <2>5. /\ outer'[t] = x /\ fwd'[t] = y /\ at'[t] = "reading"
        /\ \A u \in Tasks \ {t} : outer'[u] = outer[u] /\ fwd'[u] = fwd[u] /\ at'[u] = at[u]
        /\ outer' \in [Tasks -> Channels] /\ fwd' \in [Tasks -> Forwarder]
    <3>1. /\ at'[t] = "reading" /\ \A u \in Tasks \ {t} : at'[u] = at[u]
      BY <2>1, Typed
    <3>2. /\ outer'[t] = x /\ \A u \in Tasks \ {t} : outer'[u] = outer[u]
          /\ outer' \in [Tasks -> Channels]
      BY <2>2, <2>3, Typed
    <3>3. /\ fwd'[t] = y /\ \A u \in Tasks \ {t} : fwd'[u] = fwd[u]
          /\ fwd' \in [Tasks -> Forwarder]
      BY <2>2, <2>4, Typed
    <3> QED  BY <3>1, <3>2, <3>3
  <2>6. Moves(t)
    BY <1>2, <2>1, <2>3, <2>4, <2>5 DEF Moves, PipeRests
  <2>7. OthersRest(t)
    BY <1>2, <2>1, <2>5 DEF OthersRest, Rests, PipeRests
  <2>8. PipeTypes'
    BY <1>1, <1>2, <2>1, <2>3, <2>4, <2>5 DEF PipeTypes
  <2> QED  BY <2>6, <2>7, <2>8 DEF PipeStep
<1>4. CASE ReadEvent(t)
  <2>1. PICK e : e = Head(outer[t].events)
    OBVIOUS
  <2>2. PICK r : r = Tail(outer[t].events)
    OBVIOUS
  <2>3. PICK to : to = IF e.state \in Terminal THEN "settled" ELSE "reading"
    OBVIOUS
  <2>4. /\ outer[t].events # <<>> /\ at[t] = "reading" /\ at' = [at EXCEPT ![t] = to]
        /\ taken' = [taken EXCEPT ![t] = Append(@, e)]
        /\ outer' = [outer EXCEPT ![t].events = r] /\ fwd' = fwd
    BY <1>4, <2>1, <2>2, <2>3 DEF ReadEvent, Goto
  <2> DEFINE x == [outer[t] EXCEPT !.events = r]
  <2>5. outer[t].events \in Seq(RunEvent) /\ taken[t] \in Seq(RunEvent)
    BY <1>1, PipeIs
  <2>6. /\ e \in RunEvent /\ r \in Seq(RunEvent) /\ Len(r) = Len(outer[t].events) - 1
        /\ Len(outer[t].events) \in Nat
    BY <2>1, <2>2, <2>4, <2>5
  <2>7. x \in Channels /\ x.events = r
    BY <1>1, <2>6 DEF Channels
  <2>8. Append(taken[t], e) \in Seq(RunEvent)
    BY <2>5, <2>6
  <2>9. outer' = [outer EXCEPT ![t] = x]
    BY <2>4
  <2> HIDE DEF x
  <2>10. /\ outer'[t] = x /\ taken'[t] = Append(taken[t], e) /\ at'[t] = to
         /\ \A u \in Tasks \ {t} : outer'[u] = outer[u] /\ taken'[u] = taken[u] /\ at'[u] = at[u]
         /\ outer' \in [Tasks -> Channels] /\ taken' \in [Tasks -> Seq(RunEvent)]
    BY <2>4, <2>7, <2>8, <2>9, Typed
  <2>11. Takes(t)
    BY <1>2, <2>1, <2>2, <2>3, <2>4, <2>7, <2>10 DEF Takes
  <2>12. OthersRest(t)
    BY <1>2, <2>4, <2>10 DEF OthersRest, Rests, PipeRests
  <2>13. Len(r) <= ChanCap
    BY <1>1, <2>6, RunAssumption DEF PipeTypes
  <2>14. PipeTypes'
    BY <1>1, <1>2, <2>4, <2>7, <2>10, <2>13 DEF PipeTypes
  <2> QED  BY <2>11, <2>12, <2>14 DEF PipeStep
<1>5. CASE ReadError(t)
  <2>1. PICK e : e = [n |-> Len(taken[t]) + 1, state |-> "failed"]
    OBVIOUS
  <2>2. /\ at[t] = "reading" /\ at' = [at EXCEPT ![t] = "settled"]
        /\ taken' = [taken EXCEPT ![t] = Append(@, e)]
        /\ outer' = [outer EXCEPT ![t].err = FALSE] /\ fwd' = fwd
    BY <1>5, <2>1, Typed DEF ReadError, Goto
  <2> DEFINE x == [outer[t] EXCEPT !.err = FALSE]
  <2>3. taken[t] \in Seq(RunEvent) /\ Len(taken[t]) \in Nat
    BY <1>1, PipeIs
  <2>4. e \in RunEvent
    BY <2>1, <2>3 DEF RunEvent, Terminal
  <2>5. x \in Channels /\ x.events = outer[t].events
    BY <1>1 DEF Channels
  <2>6. Append(taken[t], e) \in Seq(RunEvent)
    BY <2>3, <2>4
  <2>7. outer' = [outer EXCEPT ![t] = x]
    BY <2>2
  <2> HIDE DEF x
  <2>8. /\ outer'[t] = x /\ taken'[t] = Append(taken[t], e) /\ at'[t] = "settled"
        /\ \A u \in Tasks \ {t} : outer'[u] = outer[u] /\ taken'[u] = taken[u] /\ at'[u] = at[u]
        /\ outer' \in [Tasks -> Channels] /\ taken' \in [Tasks -> Seq(RunEvent)]
    BY <2>2, <2>5, <2>6, <2>7, Typed
  <2>9. Fails(t)
    BY <1>2, <2>1, <2>2, <2>5, <2>8 DEF Fails
  <2>10. OthersRest(t)
    BY <1>2, <2>2, <2>8 DEF OthersRest, Rests, PipeRests
  <2>11. PipeTypes'
    BY <1>1, <1>2, <2>2, <2>5, <2>8 DEF PipeTypes
  <2> QED  BY <2>9, <2>10, <2>11 DEF PipeStep
<1>6. CASE ReadClosed(t)
  <2>1. /\ at[t] = "reading" /\ at' = [at EXCEPT ![t] = "gone"]
        /\ UNCHANGED <<taken, fwd, outer>>
    BY <1>6 DEF ReadClosed, Goto, pipeVars
  <2>2. Moves(t) /\ OthersRest(t)
    BY <1>2, <2>1, Typed DEF Moves, OthersRest, Rests, PipeRests
  <2>3. PipeTypes'
    BY <1>1, <1>2, <2>1 DEF PipeTypes
  <2> QED  BY <2>2, <2>3 DEF PipeStep
<1> QED  BY <1>3, <1>4, <1>5, <1>6 DEF Read

-----------------------------------------------------------------------------
(* The invariant of the stream *)

\* Nothing has been sent at first.
LEMMA RunInvInit == Init => RunInv
<1> SUFFICES ASSUME Init
             PROVE  RunInv
  OBVIOUS
<1>1. ScopeInv
  BY ScopeInvInit
<1>2. Fresh \in Channels /\ Fresh.events = <<>> /\ Len(<<>>) = 0
  BY DEF Fresh, Channels
<1>3. PipeTypes
  <2>1. /\ inner = [t \in Tasks |-> Fresh] /\ outer = [t \in Tasks |-> Fresh]
        /\ fwd = [t \in Tasks |-> [pc |-> "off", event |-> <<>>]]
        /\ taken = [t \in Tasks |-> <<>>]
        /\ prompt = [t \in Tasks |-> "none"]
        /\ remote = [t \in Tasks |-> [working |-> FALSE, notes |-> 0]]
        /\ feed = [t \in Tasks |-> [open |-> FALSE, notes |-> <<>>]]
    BY DEF Init
  <2>2. inner \in [Tasks -> Channels] /\ outer \in [Tasks -> Channels]
    BY <1>2, <2>1
  <2>3. fwd \in [Tasks -> Forwarder]
    BY <2>1 DEF Forwarder
  <2>4. remote \in [Tasks -> Prompt]
    BY <2>1, RunAssumption DEF Prompt
  <2>5. taken \in [Tasks -> Seq(RunEvent)]
    BY <2>1
  <2>6. \A t \in Tasks : /\ Len(inner[t].events) = 0 /\ Len(outer[t].events) = 0
                         /\ Len(feed[t].notes) = 0 /\ Len(fwd[t].event) = 0
    BY <1>2, <2>1
  <2> QED  BY <2>1, <2>2, <2>3, <2>4, <2>5, <2>6, RunAssumption DEF PipeTypes
<1>4. ASSUME NEW t \in Tasks
      PROVE  PipeFits(t)
  <2>1. /\ at[t] = "idle" /\ taken[t] = <<>> /\ outer[t].events = <<>>
        /\ inner[t].events = <<>> /\ fwd[t].event = <<>> /\ fwd[t].pc = "off"
        /\ loop[t].sent = 0 /\ loop[t].pc = "off"
    BY <1>2 DEF Init
  <2>2. <<>> \o <<>> = <<>>
    BY ConcatEmptySeq, EmptySeq
  <2>3. Unread(t) = <<>>
    BY <2>1, <2>2 DEF Unread
  <2>4. Quiet(t) /\ Counted(t)
    BY <2>1 DEF Quiet, Counted
  <2>5. UnreadEnds(t) /\ TakenEnds(t)
    BY <1>2, <2>1, <2>3 DEF UnreadEnds, TakenEnds
  <2>6. HandsFit(t)
    BY <2>1 DEF HandsFit
  <2> QED  BY <2>4, <2>5, <2>6 DEF PipeFits
<1> QED  BY <1>1, <1>3, <1>4 DEF RunInv

\* Every step keeps it.
LEMMA RunInvStep == RunInv /\ [Next]_runVars => RunInv'
<1> SUFFICES ASSUME RunInv, [Next]_runVars
             PROVE  RunInv'
  OBVIOUS
<1>1. ScopeInv'
  BY ScopeInvStep DEF RunInv
<1>2. PipeTypes' /\ \A u \in Tasks : PipeStep(u)
  <2>1. ASSUME NEW t \in Tasks, PipeStep(t) /\ OthersRest(t) /\ PipeTypes'
        PROVE  PipeTypes' /\ \A u \in Tasks : PipeStep(u)
    BY <2>1 DEF OthersRest, PipeStep
  <2>2. ASSUME NEW t \in Tasks,
               Submit(t) \/ ConsumeRun(t) \/ Forward(t) \/ Read(t) \/ LoopIdle(t)
        PROVE  PipeTypes' /\ \A u \in Tasks : PipeStep(u)
    <3>1. PipeStep(t) /\ OthersRest(t) /\ PipeTypes'
      BY <2>2, SubmitPipes, EmitPipes, DecidePipes, ForwardPipes, ReadPipes DEF ConsumeRun
    <3> QED  BY <2>1, <3>1
  <2>3. ASSUME NEW t \in Tasks, NEW what \in Notes, Notify(t, what)
        PROVE  PipeTypes' /\ \A u \in Tasks : PipeStep(u)
    BY <2>3, RemotePipes DEF PipeStep
  <2>4. CASE (\E t \in Tasks : PromptEnds(t)) \/ UNCHANGED runVars
    BY <2>4, PromptPipes DEF PipeStep
  <2> QED  BY <2>2, <2>3, <2>4 DEF Next
<1>3. \A u \in Tasks : PipeFits(u)'
  BY <1>2, PipeStepKeeps DEF RunInv
<1> QED  BY <1>1, <1>2, <1>3 DEF RunInv

(***************************************************************************)
(* Scope, registry and the events of every run fit each other throughout.  *)
(***************************************************************************)
THEOREM RunInvariant == Spec => []RunInv
BY RunInvInit, RunInvStep, PTL DEF Spec

(***************************************************************************)
(* Between consumeRun and runTask no event is reordered, duplicated or     *)
(* skipped, and nothing follows an outcome, for any capacities of the      *)
(* channels; no channel exceeds its capacity.                              *)
(***************************************************************************)
THEOREM StreamStaysOrdered == Spec => []StreamIsOrdered
<1>1. RunInv => RunTypeOK
  BY DEF RunInv, ScopeInv, ScopeTypes, PipeTypes, RunTypeOK
<1>2. RunInv => StreamIsOrdered
  BY <1>1 DEF RunInv, PipeFits, Counted, UnreadEnds, TakenEnds, StreamIsOrdered
<1> QED  BY <1>2, RunInvariant, PTL
=============================================================================
