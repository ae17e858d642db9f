SPECIFICATION Spec
CONSTANTS
    Clients = {c1, c2}
    Starts <- OneOrTwoPrograms
    Runs = 2
    DefaultPort = 49123
    DefaultWebPort = 49124
    MaxRate = 1200000
    Template <- TheTemplate
INVARIANTS
    ResultMatchesFile
    RerunAgrees
    OnlyTornWritesLose
CHECK_DEADLOCK FALSE
