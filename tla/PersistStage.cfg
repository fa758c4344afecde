SPECIFICATION StageSpec
CONSTANTS
    NoDeadline = NoDeadline
    Modes = {"budget", "token"}
    Budgets = {0, 2}
    PipelineDeadlines = {NoDeadline, 1, 2, 3}
    MaxEvents = 2
    SetupMax = 1
    MaxTime = 4
    ReleaseFailures = {"aborts", "keeps_open"}
    PERSIST_BUSY_RETRY_ATTEMPTS = 1
INVARIANTS
    Quiescent
    EventsForwarded
    DeadlineFailureNamesTheDeadline
    TruthfulReport
PROPERTIES
    LateValueNotAdmitted
    StopOutranksTimeout
    ReturnsEventually
    PersistOperation
