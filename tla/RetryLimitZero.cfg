SPECIFICATION Spec
CONSTANTS
    None = None
    NoLimit = None
    Ops <- MCOps
    MaxAttempts <- MCMaxAttempts
    Scenarios <- AllScenarios
    Script <- MCScript
    Specs <- OnlyNoRetrySpec
    Backoffs <- NoBackoff
    CrashPoints <- NoPoint
    TornPoints <- NoPoint
    MaxRuns = 1
    MaxCancels = 0
INVARIANT RetriesWithinBudget
CHECK_DEADLOCK FALSE
