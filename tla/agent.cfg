SPECIFICATION FairSpec
CONSTANTS
    maxNetworkRetries = 3
    maxRateLimitRetries = 5
    maxMalformedRetries = 2
    maxRetries = 3
    maxToolIterations = 3
    MaxCalls = 2
    MaxSteps = 3
    Registered = {"schedule"}
    Names = {"schedule", "missing"}
    backup = backup
    backupToo = backupToo
    report = report
    Commands = {backup, backupToo, report}
    JobNames = {1, 2}
    JobName <- MCJobName
    Nothing = Nothing
INVARIANTS
    TypeOK
    LocalFirst
    ConversationFits
    StepsTellTheRun
    RequestsBounded
    ScheduledAsTold
PROPERTY
    RunEnds
\* The run of one goal ends.
CHECK_DEADLOCK FALSE
