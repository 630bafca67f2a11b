SPECIFICATION FairSpec
CONSTANTS
    Nodes = {n1, n2}
    SegmentSize = 2
    MaxLsn = 4
    MaxChunk = 1
    MaxFaults = 1
    Flushers = {n1}
    Reads <- NoReads
PROPERTY EventuallyArchived 
