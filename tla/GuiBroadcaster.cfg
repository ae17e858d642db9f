SPECIFICATION FairSpec
CONSTANTS
    Overlays = {o1}
    ConnectAttempts = 2
    ReconnectAttempts = 2
    MaxRelayed = 2
    MaxSessions = 2
INVARIANTS
    ShownSessionIsReal
    RelayedShownIsTrue
PROPERTIES
    StopEndsSession
    CloseEndsProcess
    EndIsShown
CHECK_DEADLOCK FALSE
