SPECIFICATION Spec
CONSTANTS
  Proxies = {p1}
  DestInputs <- MCDestInputs
  MaxDest = 2
  MaxCrashes = 0
CHECK_DEADLOCK FALSE
INVARIANT
  OutcomeEndsProxy
