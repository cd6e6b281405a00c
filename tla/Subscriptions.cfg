SPECIFICATION Spec
CONSTANTS
    c1 = c1
    c2 = c2
    Sessions = {1}
    Channels = {c1, c2}
    NoChannel = NoChannel
    Subs = {1}
    NoSub = NoSub
    Nodes = {1}
    Values = {0, 1}
    NoValue = 9
    ReqIds = {1, 2}
    ItemIds = {1}
    Modes = {TRUE}
    Requested <- Short
    MinKeepAlive = 1
    MaxKeepAlive = 2
    MinLifetime = 3
    MaxLifetime = 6
    MaxPublishRequests = 2
    MaxRepublish = 1
    MaxNotifsPerMsg = 2
    LastSeqNum = 1
    MaxNotifs = 2
INVARIANT WaitsOnce
INVARIANT ResponseOnItsChannel
 
INVARIANT SubscriptionConsistent
PROPERTY OnlyAnsweredLeave
PROPERTY QueuedRequestLeaves
PROPERTY OrphanedSubscriptionEnds
