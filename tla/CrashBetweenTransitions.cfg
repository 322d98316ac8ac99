SPECIFICATION FairSpec
CONSTANTS
    None = None
    NoLimit = None
    Ops <- MCOps
    MaxAttempts <- MCMaxAttempts
    Scenarios <- AllScenarios
    Script <- MCScript
    Specs <- OnlyDefaultSpec
    Backoffs <- NoBackoff
    CrashPoints <- EveryPoint
    TornPoints <- NoPoint
    MaxRuns = 3
    MaxCancels = 0
PROPERTY EveryRunTerminates
CHECK_DEADLOCK FALSE
