CONSTANTS
    Memories <- MCMemories
    Page = 4
    Requests = {0, 1, 3}
    MaxRequest = 3
    MaxGiven = 9
    MaxSpent = 18
SPECIFICATION MemorySpec
INVARIANTS BlocksDisjoint BlocksInside CommittedCoversBlocks IntactForATurn
CHECK_DEADLOCK FALSE
