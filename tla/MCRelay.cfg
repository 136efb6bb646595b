SPECIFICATION FairSpec
CONSTANTS
  Proxies = {p1, p2}
  DestInputs <- MCDestInputs
  MaxDest = 3
  MaxCrashes = 2
CHECK_DEADLOCK FALSE
INVARIANTS
  RestartAccountsForAll
  BindingShowsOutcome
  ProxyTellsTruth
  OwnFailureIsLast
PROPERTIES
  PeerIsFeed
  StreamEndGivesOutcome
