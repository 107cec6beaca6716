\* Mode 4: a pattern of two or three bytes is missed where the half that is
\* read does not end it.
CONSTANTS
    Char <- MCChar
    Automata <- MCAutomata
    Texts <- MCTexts
    Fronts <- MCFronts
    Modes = {4}
    SearchRunTime = 1
SPECIFICATION Spec
INVARIANT
    NothingMissed
