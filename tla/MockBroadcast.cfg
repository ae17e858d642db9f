SPECIFICATION Spec
CONSTANTS
    Templates <- MCTemplates
    Wanted <- MCWanted
    HasMax = TRUE
    MaxEvents = 5
    LoopEvents = TRUE
    Players = 4
    Handlers = {h1}
    Capacity = 1
    MaxPayloads = 6
INVARIANTS
    PlaysScenario
PROPERTIES
    ImplementsBroadcastServer
    SeenPlayersStay
CHECK_DEADLOCK FALSE
