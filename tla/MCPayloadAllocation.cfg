SPECIFICATION Spec
CONSTANTS
    Nodes = {n1, n2, n3, n4}
    FirstVoters = {n1, n2, n3}
    Bodies = {1}
    WalBodies = {1}
    K = 2
    Stride = 2
    MaxReplaced = 1
    MaxFaults = 2
SYMMETRY VoterSymmetry
INVARIANT TypeOK Readable
CHECK_DEADLOCK FALSE
