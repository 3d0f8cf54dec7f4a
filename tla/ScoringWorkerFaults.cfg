SPECIFICATION Spec
CONSTANTS
    Keys = {a, b}
    N = 1
    PartitionOf <- MCOnePartition
    W = 2
    BatchSize = 3
    Timestamps = {1, 2}
    MaxRecords = 3
    MaxRaises = 2
    MaxRestarts = 1
SYMMETRY MCSymmetry
INVARIANTS
    TypeOK
    CommittedAccounted
    ReplayCutsSameWindows
    BufferedHasTimer
CHECK_DEADLOCK FALSE
