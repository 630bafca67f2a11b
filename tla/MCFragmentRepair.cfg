SPECIFICATION Spec
CONSTANTS
    Nodes = {n1, n2, n3, n4}
    Passes = {repair, scrub}
    K = 2
    M = 2
    W = 3
    MaxFaults = 1
    MaxRestarts = 1
SYMMETRY Symmetric
INVARIANTS
    IndexOnce
    StaysReadable
PROPERTY
    CleanIsFinal
CHECK_DEADLOCK FALSE
