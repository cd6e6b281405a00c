SPECIFICATION FairSpec
CONSTANTS
    MaxConnections = 2
    MaxListenerSlots = 1
    MaxSockets = 2
    MaxListenerSockets = 1
    Configs = {}
    MaxTimers = 3
    MaxInFlight = 2
    Listens = TRUE
    ReuseSlots = FALSE
    ResourceFails = FALSE
INVARIANTS ServicesView ServerConnectionGoverned FarewellBeforeClose
CHECK_DEADLOCK FALSE
PROPERTY Establishment
