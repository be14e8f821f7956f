\* Three transactions open at once, every fault: bookkeeping of versions and
\* history.  A panic may end the program.
SPECIFICATION Spec
CONSTANTS
    Keys = {1}
    Vals = {a}
    NONE = NONE
    DELETED = DELETED
    Tx = {t1, t2, t3}
    IOFaults = {"update", "rewrite"}
    MaxVersion = 2
SYMMETRY TxSymmetry
CONSTRAINT OneStatement
CHECK_DEADLOCK FALSE
INVARIANTS
    TypeOK
    OngoingMatches
    SnapshotPagesKept
    HistoryNeeded
PROPERTIES
    ReleaseMonotone
