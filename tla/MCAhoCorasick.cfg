\* All pairs of short patterns over two chars and chosen longer files over three,
\* every mode.
CONSTANTS
    AlphabetSize = 3
    AcModes = {0, 1, 2, 3, 4, 5, 6, 7, 8, 9, 10, 11, 12, 13}
    Inputs <- MCInputs
SPECIFICATION FairSpec
INVARIANTS
    TypeOK
    FailureLinksCorrect
    MatchListsCorrect
    DfaRowsCorrect
    TrieStatesDistinct
    CompiledAutomatonCorrect
    PatternsAccountedFor
PROPERTIES
    FailureChainDescends
    EventuallyReady
