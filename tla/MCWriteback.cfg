SPECIFICATION Spec
CONSTANTS
    Keys = {k1, k2}
    Objects = {1, 2, 3}
    Lens = {1, 3}
    SizeLimit = 2
    Attempts = 2
    Through = {3}
    Faulty = {2}
    MaxRestarts = 1
SYMMETRY Symmetric
CONSTRAINTS
    OneDelete
    FirstShutdown
INVARIANTS
    AckedDurable
    BarrierSound
    DirectKeyLinear
    NeverMissing
CHECK_DEADLOCK FALSE
