SPECIFICATION FairSpec
CONSTANTS
    MaxShortcut = 12
    Message <- MCMessage
    CommandLine <- MCCommandLine
    PyCommand <- MCPyCommand
    Traffic <- MCTraffic
    MaxLines = 3
    StartAttempts = 2
    Attempts = 3
INVARIANTS
    PrintsWhatItWasAsked
    DecodedIsWritten
    SentMeansAsked
PROPERTIES
    NothingLostUnasked
    OutageResolved
CHECK_DEADLOCK FALSE
