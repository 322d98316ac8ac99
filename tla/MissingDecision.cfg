SPECIFICATION Spec
CONSTANTS
    None = None
    NoLimit = None
    Ops <- MCOps
    MaxAttempts <- MCMaxAttempts
    Scenarios <- AllScenarios
    Script <- MCScript
    Specs <- OnlyDefaultSpec
    Backoffs <- NoBackoff
    CrashPoints <- EveryPoint
    TornPoints <- NoPoint
    MaxRuns = 2
    MaxCancels = 0
INVARIANT MissingDecisionIsAppended
CHECK_DEADLOCK FALSE
