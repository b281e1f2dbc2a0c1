CONSTANTS
    Letter <- MCLetter
    Texts <- MCTexts
    Names <- MCNames
    InitCapacity = 1
SPECIFICATION Spec
INVARIANT
    SectionFieldsAreFound
CHECK_DEADLOCK FALSE
