\* Fourteen command lines, five files of automata, trace files of up to three
\* texts of up to ten bytes.
CONSTANTS
    Char <- MCChar
    UChar = 256
    Upper <- MCUpper
    Configs <- MCConfigs
    AcFiles <- MCAcFiles
    TraceFiles <- MCTraceFiles
SPECIFICATION FairSpec
INVARIANTS
    EachTextCountedExactly
    SameTextSameCounts
    BookkeepingAgrees
    EndsAsTheFilesSay
PROPERTIES
    MatcherSpec
    EventuallyEnds
