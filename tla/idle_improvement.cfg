SPECIFICATION FairRunnerSpec
CONSTANTS
  MaxGoals = 2
  MaxVersions = 1
  MaxResults = 2
  MaxRequests = 1
  MaxIdeas = 1
  Rules = {}
  WriteOutcomes = {"written"}
CHECK_DEADLOCK FALSE
PROPERTY ImprovementGoalsRun
