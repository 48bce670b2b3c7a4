SPECIFICATION FairSpec
CONSTANTS
  MaxGoals = 3
  MaxVersions = 1
  MaxResults = 2
  MaxRequests = 1
  MaxIdeas = 2
  Rules = {tidy}
  WriteOutcomes = {"written", "refused"}
CHECK_DEADLOCK FALSE
INVARIANTS
  TypeOK
  AnalysedOnce
  NoneStranded
  IdeasLand
PROPERTY EventuallyAnalysed
