SPECIFICATION FairSpec
CONSTANTS
    Sockets = {1, 2}
    BufferSize = 2
    NoCursor = NoCursor
    Reachable = FALSE
    SilentHandshake = FALSE
    MaxAlerts = 1
    MaxFaults = 0
    MaxUserActs = 0
PROPERTY EventuallyShown
CHECK_DEADLOCK FALSE
