CONSTANTS
    IntBytes = 1
    BackTo <- MCBackTo
    Queries <- MCQueries
    Case <- MCCase
    Text <- MCText
    FilterText <- MCFilterText
    Spelling <- MCSpelling
SPECIFICATION Spec
INVARIANTS ScanCorrect PhantomsSeen FilterParsed
