SPECIFICATION Spec
CONSTANTS
    Missing = Missing
    Names <- MCNames
    Blank = ""
    Folded <- MCFolded
    Seats <- MCSeats
    SeatTeam <- MCSeatTeam
    Styles <- MCStyles
    TrackedName = "Ann"
    MaxMatches = 2
    MaxScore = 1
INVARIANTS
    OverlayShowsTick
    RefsResolve
    GuidIsReal
    TrackerIsCurrent
    FilterFindsPlayer
CHECK_DEADLOCK FALSE
