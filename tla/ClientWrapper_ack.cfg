\* One connection with two tokens: notifications while items are created.
SPECIFICATION Spec
CONSTANTS
    MaxClients = 1
    MaxSessions = 1
    TokenTarget = 2
    MaxSubscriptions = 1
    MaxInFlight = 2
INVARIANT AssertionsHold
CHECK_DEADLOCK FALSE
