SPECIFICATION Spec
CONSTANTS
    Cap = 2
    Readers = {r1, r2}
    MaxPages = 12
    MaxAttempts = 3
    MaxOps = 1
    MaxFaults = 1
    MaxCrashes = 1
    RewriteFaults = FALSE
    CrashFrom = 1
SYMMETRY ReaderSymmetry
INVARIANTS
    AllocFresh
    TypeOK
    ReaderPagesIntact
    CrashSafe
    AckedDurable
