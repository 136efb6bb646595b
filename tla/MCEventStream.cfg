SPECIFICATION MCFairSpec
CONSTANTS
  Tasks = {t1}
  Requests = {r1}
  Subscribers = {s1}
  ChanCap = 1
  MaxSeq = 3
  Inputs <- MCInputs
CHECK_DEADLOCK FALSE
INVARIANTS
  TypeOK
  SeqContiguous
  RowMatchesLog
  CallMatchesLog
  FanOutIsCommitted
  PeerMissesOnlyLost
  ClosedHasOutcome
PROPERTIES
  PeersAreFed
  PeerStreamEnds
