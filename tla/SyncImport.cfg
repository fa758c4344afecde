SPECIFICATION ISpec
CONSTANTS
    Runs = {r1, r2}
    Keys = {k1}
    Values = {v1, v2}
    None = None
    Deleted = Deleted
    Absent = Absent
INVARIANTS
    Repeatable
PROPERTIES
    ImplementsPolicy
CHECK_DEADLOCK FALSE
