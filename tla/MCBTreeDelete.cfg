SPECIFICATION Spec
CONSTANTS
    Keys = {1, 2, 3, 4, 5, 6, 7}
    Vals = {small, big}
    small = small
    big = big
    Modes = {"UPSERT"}
    NONE = NONE
    KeyLen <- TwoShortKeyLen
    ValLen <- SomeValLen
    MaxPages = 20
CHECK_DEADLOCK FALSE
VIEW Shape
INVARIANTS
    DeleteFits
