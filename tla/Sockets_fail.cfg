SPECIFICATION Spec
CONSTANTS
    MaxSockets = 3
    MaxListenerConnections = 1
    NbConnections = 2
    MaxAddrs = 2
    MaxWrites = 2
    MaxInFlight = 2
    ReuseSlots = FALSE
    NetworkFails = TRUE
INVARIANT NoForgottenBuffer
CHECK_DEADLOCK FALSE
