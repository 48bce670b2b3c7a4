SPECIFICATION ServingSpec
CONSTANTS
  MaxGoals = 2
  MaxVersions = 1
  MaxQueue = 3
  Clients = {c1, c2}
  RefineOutcomes = {"question", "accept"}
  WriteOutcomes = {"written"}
CHECK_DEADLOCK FALSE
SYMMETRY ClientSymmetry
INVARIANTS
  QueueInOrder
