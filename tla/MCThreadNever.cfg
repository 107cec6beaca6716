\* The command line with mode 19, over the files of MCReplay.cfg.
CONSTANTS
    Char <- MCChar
    UChar = 256
    Upper <- MCUpper
    Configs <- MCThreadConfigs
    AcFiles <- MCAcFiles
    TraceFiles <- MCTraceFiles
SPECIFICATION Spec
INVARIANT
    TotalCountsPlaces
