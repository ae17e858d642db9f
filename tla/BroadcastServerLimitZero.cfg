SPECIFICATION Spec
CONSTANTS
    Handlers = {h1}
    Capacity = 1
    HasLimit = TRUE
    Limit = 0
    ConnectAttempts = 2
    ReconnectAttempts = 2
    MaxPayloads = 2
INVARIANTS
    StopsAfterLimit
CHECK_DEADLOCK FALSE
