CONSTANTS
    p = p
    q = q
    NULL = NULL
    Key = {p, q, NULL}
    Value = {1, 2}
    Garbage = Garbage
    HashProc <- MCHashProc
    TableCapacity = 4
    InvalidIncrement = 1
    Frames = 1
    MaxTotal = 5
    MaxInvalid = 2
SPECIFICATION Spec
INVARIANTS RecordsMatchHeap TotalsBalance LoopsOnlyWhenUsedUp ReportIsTrue
PROPERTY ImplementsLedger
CHECK_DEADLOCK FALSE
