SPECIFICATION Spec
CONSTANTS
    Handlers = {h1, h2}
    Capacity = 2
    HasLimit = TRUE
    Limit = 4
    ConnectAttempts = 2
    ReconnectAttempts = 2
    MaxPayloads = 5
SYMMETRY Overlays
INVARIANTS
    CountIsExact
    PayloadsAccountedFor
    OnlyOverwrittenMissed
    LimitHolds
CHECK_DEADLOCK FALSE
