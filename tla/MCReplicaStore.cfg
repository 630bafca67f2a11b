SPECIFICATION StoreSpec
CONSTANTS
    MaxEntries = 2
    Terms = {1, 2}
    VoteTerms = {1}
    Capacity = 1
    MaxFrames = 4
    MaxCrashes = 1
    MaxFaults = 1
INVARIANTS
    AckedRecovered
    AppliedRecoverable
    VoteKept
CHECK_DEADLOCK FALSE
