SPECIFICATION FairSpec
CONSTANTS
    None = None
    NoLimit = None
    Ops <- MCOps
    MaxAttempts <- MCMaxAttempts
    Scenarios <- AllScenarios
    Script <- MCScript
    Specs <- LivenessSpecs
    Backoffs <- MCBackoffs
    CrashPoints <- CrashPointWindows
    TornPoints <- NoPoint
    MaxRuns = 3
    MaxCancels = 0
PROPERTY EveryRunTerminates
PROPERTY EveryProcessEnds
CHECK_DEADLOCK FALSE
