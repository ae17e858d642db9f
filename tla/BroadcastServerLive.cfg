SPECIFICATION FairSpec
CONSTANTS
    Handlers = {h1, h2}
    Capacity = 1
    HasLimit = TRUE
    Limit = 2
    ConnectAttempts = 2
    ReconnectAttempts = 2
    MaxPayloads = 3
PROPERTIES
    SignalEndsRun
    FeedLossResolved
    TasksEndWithRun
    ReadersGetPayloads
CHECK_DEADLOCK FALSE
