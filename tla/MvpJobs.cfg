SPECIFICATION FairSpec
CONSTANTS
    QaJobs <- TwoJobs
    ResearchJobs <- DemoJob
    MaxRestarts = 1
    MaxFailedWrites = 2
INVARIANT RecordsAgree
INVARIANT SingleExecution
PROPERTY NeverBackwards
PROPERTY EveryJobConcludes
CHECK_DEADLOCK FALSE
