SPECIFICATION Spec
CONSTANTS
    Nodes = {n1, n2}
    Writers = {"w1"}
    MaxAppends = 1
    MaxFaults = 2
    Archiving = TRUE
PROPERTY Implements
CHECK_DEADLOCK FALSE
