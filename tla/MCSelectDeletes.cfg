CONSTANTS
    IntBytes = 1
    BackTo <- MCBackTo
    Queries <- MCDeletes
    Case <- MCCase
    Text <- MCText
    FilterText <- MCFilterText
    Spelling <- MCSpelling
SPECIFICATION Spec
INVARIANT ReadsOwnWrites
