CONSTANTS
    a = a
    b = b
    Elem = {a, b}
    Unwritten = Unwritten
    Capacities = {0, 1, 3}
    Increments = {0, 1, 2}
    MaxMany = 2
    MaxCapacity = 5
SPECIFICATION Spec
INVARIANT CountFits
PROPERTY ImplementsList
CHECK_DEADLOCK FALSE
