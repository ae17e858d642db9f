SPECIFICATION PollingSpec
CONSTANTS
    MaxAttempts = 2
    MaxConnections = 2
    MaxCells <- CellsPerConnection
    MaxCommands = 1
INVARIANTS
    TypeOK
    Contiguous
    ExactlyOnceInOrder
    EndOfFeedIsHonest
PROPERTIES
    SyntaxErrorSticks
    ImplementsEventFeed
    WrittenValuesArrive
    CallsEndWithTheGame
CHECK_DEADLOCK FALSE
