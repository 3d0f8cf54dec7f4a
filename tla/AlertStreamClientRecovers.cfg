SPECIFICATION FairSpec
CONSTANTS
    Sockets = {1, 2}
    BufferSize = 1
    NoCursor = NoCursor
    Reachable = TRUE
    SilentHandshake = FALSE
    MaxAlerts = 2
    MaxFaults = 2
    MaxUserActs = 1
INVARIANTS
    TypeOK
    ClientNeverStranded
PROPERTY EventuallyShown
CHECK_DEADLOCK FALSE
