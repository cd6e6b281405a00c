\* One handle, one context; the library answers, fails and loses connections.
SPECIFICATION Spec
CONSTANTS
    Handles = {h1}
    MaxContexts = 1
    MaxEvents = 10
    MaxRetries = 1
    Limit = 1
    StopLimit = 1
    MaxInbox = 1
    MaxMessages = 3
    MaxInFlight = 1
    OneThread = TRUE
INVARIANTS ReadyOrTold FreedHandleNotCalled SentInOrder
PROPERTIES CallReturns TransientEnds
CHECK_DEADLOCK FALSE
