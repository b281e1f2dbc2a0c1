CONSTANTS
    k1 = k1
    k2 = k2
    k3 = k3
    v1 = v1
    Key = {k1, k2, k3}
    Value = {v1}
    Garbage = Garbage
    NULL = NULL
    HashProc <- MCHashProc
    Capacities = {3, 4}
    Thresholds = {75, 150}
    Increments = {1}
    MaxCapacity = 4
SPECIFICATION Spec
INVARIANTS CountIsLive AllReachable AnswersAreTrue ForStaysInside LoopsOnlyWhenExhausted
PROPERTIES ForMeetsAll ResizeLosesNone
