SPECIFICATION FairSpec
CONSTANTS
    MaxSockets = 3
    MaxListenerConnections = 1
    NbConnections = 2
    MaxAddrs = 1
    MaxWrites = 2
    MaxInFlight = 3
    ReuseSlots = FALSE
    NetworkFails = FALSE
INVARIANTS StreamInOrder 
CHECK_DEADLOCK FALSE
PROPERTY ClientAnswered
