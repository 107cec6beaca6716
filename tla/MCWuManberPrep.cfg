\* Eight chosen files and all very small ones, with and without nocase and
\* large shifts; the largest shift is scaled down so that patterns exceed it.
CONSTANTS
    Char <- MCChar
    Upper <- MCUpper
    Files <- MCFiles
    LargeShifts = {0, 1}
    ShortBits = 16
    MaxShift = 3
    FewPatterns = 5
SPECIFICATION FairSpec
INVARIANTS
    PreparedCorrect
PROPERTIES
    EventuallyReady
