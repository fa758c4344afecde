SPECIFICATION TtySpec
CONSTANTS
    Frames = 3
    Closes = TRUE
    MaxMissing = 2
    MaxLost = 2
    MaxDamaged = 1
    MaxRepeated = 1
    MaxResends = 3
INVARIANTS
    PlanCompletesAudio
    AckIsTrue
PROPERTIES
    LossHeals
CHECK_DEADLOCK FALSE
