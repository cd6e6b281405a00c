\* Two sessions and two configurations, with room for one connected channel; requests
\* and session requests that fail.
SPECIFICATION Spec
CONSTANTS
    MaxChannels = 2
    MaxConnected = 1
    Configs = {g1, g2}
    ServerConfigs = {}
    ReuseIndex = FALSE
    MaxSessions = 2
    MaxHandles = 2
    Contexts = {x1, x2}
    Requests = {r1}
    MaxInFlight = 2
    ChecksFail = TRUE
    Unencodable = FALSE
    Statuses = {"good", "bad"}
    ClosesAll = {}
INVARIANTS AppViewMatches AnsweredAtMostOnce SessionOnLiveChannel ResponseReachesItsSession
SYMMETRY AlikeSymmetry
CHECK_DEADLOCK FALSE
