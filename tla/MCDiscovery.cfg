SPECIFICATION MCSpec
CONSTANTS
  n1 = n1
  n2 = n2
  n3 = n3
  p1 = p1
  p2 = p2
  Nodes = {n1, n2, n3}
  Peers = {p1, p2}
  Targets = {t}
  Addresses <- MCAddresses
  Kinds = {"ready", "bare"}
  Hosts = {n3}
  Fronts = {n1}
  Loops = {s1}
  Requests = {s2}
  Tasks = {c1}
  None = None
CHECK_DEADLOCK FALSE
INVARIANTS
  OnlineWasProbed
  LoneSyncIsExact
  RelayReachesOwner
PROPERTY
  SyncAllEnds
