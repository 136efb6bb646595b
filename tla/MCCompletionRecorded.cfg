SPECIFICATION Spec
CONSTANTS
  Tasks = {t1, t2}
  Notes = {"completed"}
  ChanCap = 1
  NoteCap = 1
  MaxNotes = 1
  MaxSessions = 1
CHECK_DEADLOCK FALSE
INVARIANT
  CompletionRecorded
