SPECIFICATION Spec
CONSTANTS
  Tasks = {t1, t2}
  Notes = {"awaiting_input", "completed"}
  ChanCap = 1
  NoteCap = 1
  MaxNotes = 1
  MaxSessions = 2
SYMMETRY MCSymmetry
CHECK_DEADLOCK FALSE
INVARIANTS
  ScopeHeldByLiveRun
  BindingIsLiveSession
  RegistryMatchesRuns
  StreamIsOrdered
