SPECIFICATION FairSpec
CONSTANTS
    MaxConnections = 2
    MaxListenerSlots = 1
    MaxSockets = 2
    MaxListenerSockets = 0
    Configs = {1}
    MaxTimers = 4
    MaxInFlight = 3
    Listens = FALSE
    ReuseSlots = TRUE
    ResourceFails = TRUE
INVARIANT ConnectAnsweredOnce
CHECK_DEADLOCK FALSE
PROPERTY ConnectAnswered
