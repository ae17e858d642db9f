SPECIFICATION Spec
CONSTANTS
    Overlays = {o1, o2}
    ConnectAttempts = 1
    ReconnectAttempts = 1
    MaxRelayed = 0
    MaxSessions = 1
INVARIANTS
    ClientsShownAreLive
CHECK_DEADLOCK FALSE
