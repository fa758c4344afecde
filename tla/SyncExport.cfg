SPECIFICATION Spec
CONSTANTS
    Runs = {r1, r2}
    None = None
    MaxSeq = 3
    MaxExports = 3
INVARIANTS
    NoTornArchive
    InSync
PROPERTIES
    ArchiveReadable
CHECK_DEADLOCK FALSE
