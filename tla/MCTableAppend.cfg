SPECIFICATION FairSpec
CONSTANTS
    Nodes = {n1}
    Entries = {e1, e2}
    Key = k
    MaxTries = 2
    CommitAttempts = 2
    MaxCrashes = 2
    MaxFaults = 1
    None = None
INVARIANTS
    AckedKept
    Woken
    IdleMeansCommitted
PROPERTY EventuallyCommitted
CHECK_DEADLOCK FALSE
