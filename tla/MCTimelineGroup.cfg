CONSTANTS
    Requests = {1, 2, 3, 4, 5, 6}
    Writers = {"w"}
    Payloads = {"p"}
    Buckets = {"b", "c"}
    MaxLsn = 2
    MaxEpoch = 2
    MaxIndex = 7
CONSTRAINT CanonicalRequests
SPECIFICATION Spec
INVARIANTS
    NoByteLost
    LogOrderIsLsnOrder
    EpochFencing
    ReleasedEpochStaysClosed
    RetainedRangeReadable
PROPERTY Monotone
CHECK_DEADLOCK FALSE
