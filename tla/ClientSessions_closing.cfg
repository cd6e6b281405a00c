\* Two configurations of the client and one of the server; all channels closed.
SPECIFICATION FairSpec
CONSTANTS
    MaxChannels = 2
    MaxConnected = 2
    Configs = {1, 2, 3}
    ServerConfigs = {3}
    ReuseIndex = TRUE
    MaxSessions = 1
    MaxHandles = 2
    Contexts = {x1}
    Requests = {}
    MaxInFlight = 1
    ChecksFail = TRUE
    Unencodable = FALSE
    Statuses = {"good", "bad"}
    ClosesAll = {TRUE, FALSE}
INVARIANT ClientOnlyFlagMatches
PROPERTIES
    ActivationAnswered
    CloseAllReturns
CHECK_DEADLOCK FALSE
