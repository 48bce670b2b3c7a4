SPECIFICATION FairSpec
CONSTANTS
  MaxGoals = 2
  MaxVersions = 2
  MaxQueue = 2
  Clients = {c1}
  RefineOutcomes = {"error", "question", "accept", "rewrite"}
  WriteOutcomes = {"written"}
CHECK_DEADLOCK FALSE
INVARIANTS
  ActiveIsScheduled
  ResultExplainsState
PROPERTIES
  NoLostUpdate
  OnlyOlderGoalsStarve
  ImplementsBoard
