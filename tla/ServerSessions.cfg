\* Two sessions, two channels with room for one that stays.
SPECIFICATION Spec
CONSTANTS
    MaxChannels = 2
    MaxConnected = 1
    Configs = {1, 2}
    MaxSessions = 2
    Users = {u1, u2}
    NoUser = nobody
    Timeout = 1
    MaxLeftovers = 1
    Outcomes = {"ok", "refused", "failed"}
INVARIANT SessionOnConnectedChannel
PROPERTIES  SessionsAsPromised SilentSessionEnds
CHECK_DEADLOCK FALSE
