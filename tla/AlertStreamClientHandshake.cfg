SPECIFICATION FairSpec
CONSTANTS
    Sockets = {1, 2}
    BufferSize = 2
    NoCursor = NoCursor
    Reachable = TRUE
    SilentHandshake = TRUE
    MaxAlerts = 1
    MaxFaults = 1
    MaxUserActs = 0
PROPERTY EventuallyShown
CHECK_DEADLOCK FALSE
