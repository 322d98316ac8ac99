SPECIFICATION FairSpec
CONSTANTS
    None = None
    NoLimit = None
    Nothing = Nothing
    p1 = p1
    p2 = p2
    p3 = p3
    A = A
    B = B
    Passages <- MCPassages
    Sources <- MCSources
    SourceOf <- MCSourceOf
    Ops <- PipelineOps
    MaxSubtasks = 2
    Configs <- CandidateConfigs
    Drafts <- MCDrafts
    Usages <- MCUsages
    ReservedUsage <- MCReservedUsage
    MaxRuns = 1
INVARIANT RejectsBadAnchors
CHECK_DEADLOCK FALSE
