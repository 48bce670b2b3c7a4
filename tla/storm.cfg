SPECIFICATION RestartSpec
CONSTANTS
  MaxGoals = 1
  MaxVersions = 2
  MaxQueue = 3
  Clients = {c1, c2}
  RefineOutcomes = {"error", "question", "blank", "accept", "rewrite"}
  WriteOutcomes = {"written"}
CHECK_DEADLOCK FALSE
SYMMETRY ClientSymmetry
INVARIANTS
  TypeOK
  DiskMirror
  OnlyRestartsStrand
PROPERTIES
  DoneIsFinal
