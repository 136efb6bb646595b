SPECIFICATION FairSpec
CONSTANTS
  Clients = {c1, c2}
  Handlers = {h1}
  Remote = {"b"}
  Asks <- MCAsks
  Reports = {"awaiting_input", "completed"}
  MaxTasks = 3
  MaxCrashes = 1
CHECK_DEADLOCK FALSE
INVARIANTS
  TurnsAreTheThread
  InterruptedIsHonest
  LoopKeepsToRequest
  AlternatesUnlessRaced
PROPERTY
  HandoffEnds
