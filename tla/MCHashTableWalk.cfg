CONSTANTS
    k1 = k1
    k2 = k2
    v1 = v1
    Key = {k1, k2}
    Value = {v1}
    Garbage = Garbage
    NULL = NULL
    HashProc <- MCHashProc
    Capacities = {1, 2, 3}
    Thresholds = {75}
    Increments = {1}
    MaxCapacity = 3
SPECIFICATION WalkSpec
PROPERTIES ImplementsHashTable ImplementsDictionary WalksEnd
