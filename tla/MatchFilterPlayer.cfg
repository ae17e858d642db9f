SPECIFICATION Spec
CONSTANTS
    Missing = Missing
    Names <- MCNames
    Blank = ""
    Folded <- MCFolded
    Seats <- MCSeats
    SeatTeam <- MCSeatTeam
    Styles <- MCStyles
    TrackedName = "Ann"
    MaxMatches = 1
    MaxScore = 1
INVARIANTS
    InvolvedEventsPass
CHECK_DEADLOCK FALSE
