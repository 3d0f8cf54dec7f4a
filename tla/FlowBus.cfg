SPECIFICATION FlowBusSpec
CONSTANTS
    Publishers = {t1, t2}
    BatchSizes = {1, 2}
    MaxSent = 2
    TopicAttempts = 1
INVARIANT AcceptedIsAcknowledged
CHECK_DEADLOCK FALSE
