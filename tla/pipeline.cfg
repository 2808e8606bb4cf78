SPECIFICATION Spec
CONSTANTS
    None = None
    Namespaces = {n1}
    Capacity = 1
    Budget = 2
INVARIANTS
    TypeOK
    NoneUnheard
    NeverEnds
    NothingForgotten
    HeardAtRest
PROPERTIES
    Heard
CHECK_DEADLOCK FALSE
