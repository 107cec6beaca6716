\* Every text of up to nine bytes over two chars, four pattern files, three
\* runs.
CONSTANTS
    Char <- MCChar
    Automata <- MCAutomata
    Texts <- MCTexts
    searchRunTime = 3
SPECIFICATION Spec
INVARIANTS
    CountsInVisitedText
    SeenInTimeAreCounted
    StaysNearArray
