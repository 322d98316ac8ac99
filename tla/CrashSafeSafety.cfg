SPECIFICATION Spec
CONSTANTS
    None = None
    NoLimit = None
    Ops <- MCOps
    MaxAttempts <- MCMaxAttempts
    Scenarios <- AllScenarios
    Script <- MCScript
    Specs <- SafetySpecs
    Backoffs <- MCBackoffs
    CrashPoints <- EveryPoint
    TornPoints <- AppendingPoints
    MaxRuns = 3
    MaxCancels = 1
INVARIANT TypeOK
INVARIANT AtMostOneCall
INVARIANT CallsWithinBudget
INVARIANT MemoryAgreesWithStream
INVARIANT StreamStaysReplayable
INVARIANT CheckpointAccepted
INVARIANT CompleteOnlyIfAllSucceeded
INVARIANT ReplanDecidedOnce
INVARIANT DispatchedInTime
PROPERTY DispatchProtocol
CHECK_DEADLOCK FALSE
