SPECIFICATION Spec
CONSTANTS
    Kinds = {"timeout", "cancellable"}
    Limit = 1
    MaxWrites = 2
INVARIANTS
    OkMeansAllOutput
PROPERTIES
    Returns
CHECK_DEADLOCK FALSE
