\* Every text of up to seven bytes over two chars, four pattern files,
\* modes 21 and 23.
CONSTANTS
    Char <- MCChar
    Automata <- MCAutomata
    Texts <- MCTexts
SPECIFICATION FairSpec
INVARIANTS
    TypeOK
    StateTracksStream
    HitsAreSettledOccurrences
    FoundIsExact
PROPERTIES
    MatcherSpec
    EventuallyDone
