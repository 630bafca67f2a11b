SPECIFICATION Spec
CONSTANTS
    Nodes = {n1, n2}
    SegmentSize = 2
    MaxLsn = 4
    MaxChunk = 2
    MaxFaults = 1
    Flushers = {n1}
    Reads <- SomeReads
INVARIANT TypeOK EveryByteHeld SegmentsTile FlushDurable ReadExact
