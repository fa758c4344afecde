SPECIFICATION RingSpec
CONSTANTS
    Sources = {"cpal", "child", "stdin"}
    Capacity = 3
    ReadFrames = 2
    MaxChunk = 2
    MaxFrames = 6
INVARIANTS
    AllAccountedFor
PROPERTIES
    CallsReturn
    EndIsReported
CHECK_DEADLOCK FALSE
