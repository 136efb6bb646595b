---------------------------- MODULE MCDiscovery ----------------------------
(***************************************************************************)
(* A small instance of Discovery for TLC.                                  *)
(***************************************************************************)
EXTENDS Discovery

CONSTANTS n1, n2, n3, p1, p2

\* n1 has two peers and may move p1 between the other two nodes, n2 knows n3, n3
\* knows no one.
MCAddresses == [n \in Nodes |-> [r \in Peers |->
  IF n = n1 /\ r = p1 THEN {n2, n3}
  ELSE IF (n = n1 /\ r = p2) \/ (n = n2 /\ r = p1) THEN {n3} ELSE {}]]

\* Bound: once n1 knows its second peer, only the loop and the operators act.
Bounded ==
  \/ peers[n1][p2] = NoPeer
  \/ \A c \in Tasks, s \in Requests : task[c].at = "idle" /\ sync[s].at = "idle"

MCSpec == Init /\ [][Next /\ Bounded']_vars /\ Fairness
=============================================================================
