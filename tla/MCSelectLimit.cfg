CONSTANTS
    IntBytes = 1
    BackTo <- MCBackTo
    Queries <- MCLimits
    Case <- MCCase
    Text <- MCText
    FilterText <- MCFilterText
    Spelling <- MCSpelling
SPECIFICATION Spec
INVARIANT LimitIsSize
