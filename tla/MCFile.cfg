CONSTANTS
    x = x
    y = y
    Zero = Zero
    Byte = {x, y, Zero}
    Systems = {"linux", "windows"}
    Contents <- MCContents
    Data <- MCData
    Sizes = {0, 1, 2}
    Positions = {0, 1, 3}
    MaxLength = 3
SPECIFICATION FairSpec
INVARIANTS TypeOK NothingLeaks PositionIsKept ReadsAreTrue WritesArePrefixes StuckOnlyPastTheEnd
PROPERTY CallsEnd
