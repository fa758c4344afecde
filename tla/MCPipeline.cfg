SPECIFICATION RunSpec
CONSTANTS
    Configs <- AllConfigs
    Requests <- EditedRequests
    SpeechLists <- SpeechConfigs
    Totals = {0, 5, 8}
    Overlaps = {1, 2}
    Sizes = {3, 5}
    MinWindow = 2
    MaxWindow = 5
    StepSize = 2
    MIN_WINDOWS_FOR_ADAPT = 1
    SettledWindows = 2
    ZERO_CORRECTION_FORCE_SHRINK = 2
    MaxSegments = 1
INVARIANTS
    StagesBracketed
    FailureIsLastEvent
    OkMeansPersisted
    RequirementsAlwaysMet
    WaveformFactsCurrent
    SilenceHasNoTranscript
    OwnedOnce
    WordsOnce
    StreamWellFormed
    NoLaneOutlives
