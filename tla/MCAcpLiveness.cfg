SPECIFICATION FairSpec
CONSTANTS
  Tasks = {t1}
  Notes = {"awaiting_input", "completed"}
  ChanCap = 1
  NoteCap = 2
  MaxNotes = 3
  MaxSessions = 1
CHECK_DEADLOCK FALSE
PROPERTY
  RunWindsUp
