SPECIFICATION ServingSpec
CONSTANTS
  MaxGoals = 1
  MaxVersions = 2
  MaxQueue = 2
  Clients = {c1}
  RefineOutcomes = {"error", "question", "accept", "rewrite"}
  WriteOutcomes = {"written", "refused"}
CHECK_DEADLOCK FALSE
INVARIANT ActiveIsScheduled
