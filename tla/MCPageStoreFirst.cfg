SPECIFICATION Spec
CONSTANTS
    Cap = 2
    Readers = {r1}
    MaxPages = 12
    MaxAttempts = 3
    MaxOps = 1
    MaxFaults = 0
    MaxCrashes = 1
    RewriteFaults = FALSE
    CrashFrom = 0
INVARIANTS
    Reopens
