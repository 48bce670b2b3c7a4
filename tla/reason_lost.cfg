SPECIFICATION Spec
CONSTANTS
  MaxGoals = 1
  MaxVersions = 1
  MaxQueue = 2
  Clients = {c1}
  RefineOutcomes = {"error"}
  WriteOutcomes = {"written"}
CHECK_DEADLOCK FALSE
INVARIANT BlockedHasReason
