SPECIFICATION FairSpec
CONSTANTS
    HasLimit = TRUE
    Limit = 4
    ConnectAttempts = 2
    ReconnectAttempts = 2
    WireCapacity = 2
    MaxPayloads = 5
    MaxSockets = 3
INVARIANTS
    ReadInOrderOnce
    RelayedAccountedFor
PROPERTIES
    SignalEndsReachableRelay
CHECK_DEADLOCK FALSE
