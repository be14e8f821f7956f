CONSTANTS
    IntBytes = 1
    BackTo <- MCBackTo
    s1 = s1
    s2 = s2
    Sessions = {s1, s2}
    Stmts <- MCStmts
    Stores <- MCStores
    TableNames <- MCNames
    Defs <- MCDefs
    Spelling <- MCSpelling
    MaxStmts = 3
    UseOwnTable = TRUE
SYMMETRY SessionSymmetry
SPECIFICATION Spec
INVARIANTS KeysAgree
