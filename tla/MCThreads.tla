------------------------------- MODULE MCThreads -------------------------------
(***************************************************************************)
(* A small instance of Threads for TLC.                                    *)
(***************************************************************************)
EXTENDS Threads

\* A turn for which no one or its sender is named, a loop without options and one
\* with both.
MCAsks ==
  {[sender |-> named, target |-> None, max |-> 1, strict |-> FALSE, polite |-> FALSE] :
     named \in {None, "b"}}
  \cup {[sender |-> None, target |-> None, max |-> 3, strict |-> FALSE, polite |-> FALSE],
        [sender |-> None, target |-> None, max |-> 2, strict |-> TRUE, polite |-> TRUE]}
=============================================================================
