SPECIFICATION Spec
CONSTANTS
  Tasks = {t1}
  Requests = {r1}
  Subscribers = {}
  ChanCap = 1
  Inputs <- AppendArgs
  Reports = {"awaiting_input"}
  Outcomes = {"completed"}
  MaxProgress = 1
  MaxCrashes = 0
CHECK_DEADLOCK FALSE
PROPERTY
  TerminalIsFinal
