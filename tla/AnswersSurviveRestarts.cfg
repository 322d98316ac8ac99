SPECIFICATION Spec
CONSTANTS
    QaJobs <- OneJob
    ResearchJobs <- NoJobs
    MaxRestarts = 1
    MaxFailedWrites = 0
PROPERTY AnswersSurviveRestarts
CHECK_DEADLOCK FALSE
