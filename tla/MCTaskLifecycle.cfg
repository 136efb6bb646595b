SPECIFICATION FairSpec
CONSTANTS
  Tasks = {t1}
  Requests = {r1}
  Subscribers = {}
  ChanCap = 1
  Inputs <- MCInputs
  Reports = {"running", "awaiting_input"}
  Outcomes = {"completed"}
  MaxProgress = 1
  MaxCrashes = 1
CHECK_DEADLOCK FALSE
INVARIANTS
  LifecycleOrder
  KeptUntilRequest
  TurnEchoesLog
PROPERTIES
  ReopenedOnlyByRequest
  UsesLog
  KeepsHistory
  AllFinish
