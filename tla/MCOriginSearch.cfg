\* Every text of up to seven bytes over two chars, four pattern files,
\* modes 3, 20 and 24.
CONSTANTS
    Char <- MCChar
    Automata <- MCAutomata
    Texts <- MCTexts
SPECIFICATION DirtySpec
INVARIANTS
    TypeOK
    StateTracksText
    HitsAreSettledOccurrences
    DirtyBytesOnce
PROPERTIES
    MatcherSpec
