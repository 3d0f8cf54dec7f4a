SPECIFICATION FairSpec
CONSTANTS
    Subs = {s1}
    Publishers = {t1, t2}
    BufferSize = 2
    QueueSize = 1
    NoCursor = NoCursor
    MaxSeq = 4
INVARIANTS
    TypeOK
    NoLoss
    DeliveredOnceInOrder
    CatchUpHonest
PROPERTY DroppedIsTold
CHECK_DEADLOCK FALSE
