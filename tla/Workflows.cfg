SPECIFICATION Spec
CONSTANTS
    AgentTasks <- MCAgentTasks
    AgentReplies <- MCAgentReplies
    MaxModelTurns = 2
    MaxToolCalls = 3
    MaxRetrievalCalls = 2
    CanaryReplies <- MCCanaryReplies
    MaxExecutions = 2
    EvalPapers <- MCEvalPapers
    EvalIdentities = {"first", "second"}
    MaxCalls = 3
    EvalWindow <- MCEvalWindow
    MaxEvaluations = 3
    QAPassages <- MCQAPassages
    QAEntities <- MCQAEntities
    QAQuestions <- MCQAQuestions
    QAReplies <- MCQAReplies
    QAQueries <- MCQAQueries
    QAIdentities = {"first", "second"}
    MaxQARuns = 3
    QASources <- MCQASources
    MaxReplays = 2
    VaultFiles <- MCVaultFiles
    PaperLists <- MCPaperLists
    Sections = {"plain", "marked"}
    Edits = {"edit"}
    MaxVaultSteps = 4
    MaxSeconds = 1
    NoLimit = None
    FakeSpecs <- MCFakeSpecs
    CharOf <- MCCharOf
    SpanTexts <- MCSpanTexts
    SpanQuotes <- MCSpanQuotes
    Chunks = {"c1", "c2"}
    Banks <- MCBanks
    NoteReplies <- MCNoteReplies
    DeepReplies <- MCDeepReplies
    DeepIdentities <- MCDeepIdentities
    MaxReadings = 3
    Drafts <- MCDrafts
    Decisions <- MCDecisions
    Proposals <- MCProposals
    Findings <- MCFindings
    Requirements <- MCRequirements
    Scopes = {"label"}
    Locators <- MCLocators
    CitationShapes <- MCCitationShapes
    Bundles <- MCBundles
    MaxSubtasks = 3
    Aggregators = {"first", "second"}
    AggRequests <- MCAggRequests
    Corpora <- MCCorpora
    WideTokens = {"wide"}
    AskedTokens = {"", "a", "c"}
    WindowBudget = 3
    WindowOverlap = 1
    TopK = 2
    MaxRetrievals = 5
    Calibrations <- MCCalibrations
INVARIANTS
    DraftsAreApproved
    TraceIsAuthority
    AgentWithinBudget
    OutcomesAreBacked
    AcceptsOnlyTheContract
    CanaryCallsOnce
    EvaluationResumable
    AnswersAreGrounded
    QAPaysOnce
    ReaderTextSurvives
    FakeRunReplays
    ReadingsAreBacked
    QuotesReadBack
    PlansAreSound
    AggregatesAreWhole
    AggregatesAddUp
    RetrievalIsSound
CHECK_DEADLOCK FALSE
