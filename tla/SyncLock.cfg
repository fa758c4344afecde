SPECIFICATION LockSpec
CONSTANTS
    Procs = {p1, p2, p3}
    Nobody = Nobody
    MaxLocks = 4
INVARIANTS
    MutualExclusion
    LiveLockInPlace
