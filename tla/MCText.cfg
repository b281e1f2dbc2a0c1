CONSTANTS
    Slots = {s1, s2}
    Formatters <- MCFormatters
    Formats <- MCFormats
    Width = 8
    MaxDigits = 3
    FlushSize = 5
    MaxCalls = 2
SPECIFICATION Spec
INVARIANTS
    PrintedIsText
    SprintFills
    WalkMeetsCharacters
CHECK_DEADLOCK FALSE
