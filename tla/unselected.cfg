SPECIFICATION Spec
CONSTANTS
    None = None
    Namespaces = {n1}
    Capacity = 1
    Budget = 1
PROPERTIES
    OnlySelectedWatched
CHECK_DEADLOCK FALSE
