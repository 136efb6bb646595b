----------------------------- MODULE FrameFeed -----------------------------
(***************************************************************************)
(* What the event stream of a task promises to the peer node that mirrors  *)
(* it: every frame is a committed event of the task, frames carry rising   *)
(* numbers, and the stream ends of its own accord only after it carried a  *)
(* terminal state.  It may skip events, and it may break at any moment.    *)
(* EventStream shows that handleNodeTaskEvents keeps the promise, Relay    *)
(* builds on it.                                                           *)
(***************************************************************************)
EXTENDS TaskTypes, Sequences

VARIABLES history,  \* the committed events of the task
          frames,   \* the events written to the stream, in order
          feed      \* idle, open, closed by the server, or cut off

feedVars == <<history, frames, feed>>

LastSeq == IF frames = <<>> THEN 0 ELSE frames[Len(frames)].seq

FeedInit == history = <<>> /\ frames = <<>> /\ feed = "idle"

\* The task goes on, whoever listens.  (The first conjunct saves TLC a search.)
Grow ==
  /\ history' # history
  /\ \E kind \in Kinds, state \in Statuses :
        history' = Append(history,
                          [seq |-> Len(history) + 1, kind |-> kind, state |-> state])
  /\ UNCHANGED <<frames, feed>>

Open == feed = "idle" /\ feed' = "open" /\ UNCHANGED <<history, frames>>

Ended(sent) == \E i \in DOMAIN sent : sent[i].state \in Terminal

\* A frame is written, and may be the last one.
Send ==
  /\ feed = "open"
  /\ \E i \in DOMAIN history :
        /\ history[i].seq > LastSeq
        /\ frames' = Append(frames, history[i])
  /\ feed' = "open" \/ (feed' = "closed" /\ Ended(frames'))
  /\ UNCHANGED history

Close == feed = "open" /\ Ended(frames) /\ feed' = "closed" /\ UNCHANGED <<history, frames>>

Cut == feed = "open" /\ feed' = "cut" /\ UNCHANGED <<history, frames>>

FeedNext == Open \/ Send \/ Close \/ Cut \/ Grow

FeedSpec == FeedInit /\ [][FeedNext]_feedVars
=============================================================================
