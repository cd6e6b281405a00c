\* One connection with two tokens, its subscription created twice.
SPECIFICATION Spec
CONSTANTS
    MaxClients = 1
    MaxSessions = 1
    TokenTarget = 2
    MaxSubscriptions = 2
    MaxInFlight = 2
INVARIANTS TokensKept AnswersHaveCallers DisconnectionToldOnce ErrorClosesSession
CHECK_DEADLOCK FALSE
