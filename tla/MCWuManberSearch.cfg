\* Sixteen groups for the table searches and nine for Boyer-Moore; texts of up to
\* four bytes over three bytes, of five bytes without the letter, of six and
\* seven bytes over two.
CONSTANTS
    Char <- MCChar
    Upper <- MCUpper
    Groups <- MCGroups
    Texts <- MCTexts
SPECIFICATION FairSpec
INVARIANTS
    TypeOK
    HitsAreSettledPlaces
PROPERTIES
    MatcherSpec
    EventuallyDone
