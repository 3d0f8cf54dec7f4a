SPECIFICATION Spec
CONSTANTS
    Subs = {s1}
    Publishers = {t1, t2}
    BufferSize = 2
    QueueSize = 2
    NoCursor = NoCursor
    MaxSeq = 2
INVARIANT InPublishOrder
CHECK_DEADLOCK FALSE
