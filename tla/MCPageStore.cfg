SPECIFICATION Spec
CONSTANTS
    Cap = 2
    Readers = {r1}
    MaxPages = 14
    MaxAttempts = 4
    MaxOps = 1
    MaxFaults = 2
    MaxCrashes = 0
    RewriteFaults = TRUE
    CrashFrom = 1
INVARIANTS
    TreeIntact
    PagePartition
PROPERTIES
    ReaderPagesKept
