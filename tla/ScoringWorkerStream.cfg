SPECIFICATION FairSpec
CONSTANTS
    Keys = {1, 2}
    N = 2
    PartitionOf <- MCOwnPartition
    W = 2
    BatchSize = 3
    Timestamps = {1}
    MaxRecords = 4
    MaxRaises = 0
    MaxRestarts = 0
INVARIANT HeldOrScoredOnce
PROPERTIES
    RefinesWindowStream
    EventuallyScored
CHECK_DEADLOCK FALSE
