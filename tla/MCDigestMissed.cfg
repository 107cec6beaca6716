\* Mode 12: an occurrence whose other half has two bytes or more is missed.
CONSTANTS
    Char <- MCChar
    Automata <- MCAutomata
    Texts <- MCTexts
    Fronts <- MCFronts
    Modes = {12}
    SearchRunTime = 1
SPECIFICATION Spec
INVARIANT
    NothingMissed
