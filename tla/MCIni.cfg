CONSTANTS
    Letter <- MCLetter
    Texts <- MCTexts
    Names <- MCNames
    InitCapacity = 1
SPECIFICATION Spec
INVARIANTS
    ParseReadsLines
    ContentsAreApart
    LookupsAreTrue
    BlocksAreOwned
CHECK_DEADLOCK FALSE
