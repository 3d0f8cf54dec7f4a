SPECIFICATION Spec
CONSTANTS
    Keys = {1, 2}
    N = 1
    PartitionOf <- MCOnePartition
    W = 2
    BatchSize = 2
    Timestamps = {1}
    MaxRecords = 3
    MaxRaises = 1
    MaxRestarts = 0
INVARIANT NoCommittedLoss
CHECK_DEADLOCK FALSE
