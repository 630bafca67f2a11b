SPECIFICATION Spec
CONSTANTS
    Nodes = {n1, n2}
    Writers = {"w1", "w2"}
    MaxAppends = 1
    MaxFaults = 1
    Archiving = FALSE
INVARIANT Handoff AckedOnce RefusedNeverApplied AcquisitionsSerialise
PROPERTY Implements
CHECK_DEADLOCK FALSE
