SPECIFICATION Spec
CONSTANTS
    None = None
    NoLimit = None
    Ops <- MCOps
    MaxAttempts <- MCMaxAttempts
    Scenarios <- AllScenarios
    Script <- MCScript
    Specs <- OnlyDefaultSpec
    Backoffs <- NoBackoff
    CrashPoints <- NoPoint
    TornPoints <- NoPoint
    MaxRuns = 1
    MaxCancels = 1
PROPERTY NoReplanOnceCancelled
CHECK_DEADLOCK FALSE
