CONSTANTS
    k1 = k1
    k2 = k2
    k3 = k3
    v1 = v1
    Key = {k1, k2, k3}
    Value = {v1}
    Garbage = Garbage
    NULL = NULL
    HashProc <- MCHashProc
    Thresholds = {75}
    Increments = {1}
    Capacities = {2}
    MaxCapacity = 2
SPECIFICATION Spec
INVARIANT GetReturnsUnlessFull
