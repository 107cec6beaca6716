\* Every text of up to ten bytes over two chars, three pattern files, with
\* and without one-byte patterns, cleared and left-over repetition fields.
CONSTANTS
    Char <- MCChar
    Automata <- MCAutomata
    Texts <- MCTexts
    UChar = 256
    Leftovers <- MCLeftovers
SPECIFICATION SnortSpec
INVARIANTS
    RunIsTracked
    ExactWithoutRepetition
