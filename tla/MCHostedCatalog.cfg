SPECIFICATION Spec
CONSTANTS
    Requests = {r1, r2, r3}
    RequestIds = {r1, r2, r3}
    Key = k
    Inputs = {"u", "v"}
    Calls <- SomeCalls
    MaxFaults = 1
    None = None
SYMMETRY Symmetric
INVARIANT MetadataIsHistory PointersSound
 
CHECK_DEADLOCK FALSE
