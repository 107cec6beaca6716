\* Every text of up to six bytes over two chars between any two bytes,
\* searched twice by each of the searches.
CONSTANTS
    Char <- MCChar
    Automata <- MCAutomata
    Texts <- MCTexts
    Fronts <- MCFronts
    Modes = {0, 1, 2, 4, 6, 8, 9, 10, 11, 12, 14}
    SearchRunTime = 2
SPECIFICATION Spec
INVARIANTS
    StaysNearText
    OnlyEdgesInvented
    RunsAgree
