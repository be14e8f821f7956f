\* Two transactions, two keys: validation, asserts and refinement.
SPECIFICATION Spec
CONSTANTS
    Keys = {1, 2}
    Vals = {a}
    NONE = NONE
    DELETED = DELETED
    Tx = {t1, t2}
    IOFaults = {"update"}
    MaxVersion = 2
SYMMETRY TxSymmetry
CONSTRAINT OneStatement
INVARIANTS
    HistoryCovers
    AssertsHold
PROPERTIES
    Serializable
