SPECIFICATION FairSpec
CONSTANTS
  Keys = {k1}
  Callers = {c1, c2}
  Workers = {w1, w2}
  None = None
  MaxCalls = 2
CHECK_DEADLOCK FALSE
INVARIANTS
  RegistryIsSound
  AnswersOwnCall
  NoCallIsStranded
PROPERTIES
  DeadWorkerFreesCallers
