\* Every list of up to three ranges against every list of up to two keys;
\* the walk ends with its answer.
SPECIFICATION Spec
CONSTANTS
    Keys = {1, 2, 3, 4}
    MaxReads = 3
    MaxWrites = 2
CHECK_DEADLOCK FALSE
INVARIANTS
    OverlapCorrect
PROPERTIES
    Answers
