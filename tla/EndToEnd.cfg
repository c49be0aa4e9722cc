SPECIFICATION FairSpec
CONSTANTS
    s1 = s1
    s2 = s2
    Socket = {s1, s2}
    NoSocket = NoSocket
    Window = Window
    Anonymous = Anonymous
    LivenessTimeout = 1
    MaxLag = 0
    MaxConnections = 5
    MaxEdits = 2
    MaxStops = 1
    MaxSequence = 3
INVARIANTS
    TypeOK
    WellFormedStream
    NeverGivesUp
    NeverRefused
    ShownOnlyWhenSafe
    LeavesNoFailure
PROPERTIES
    LeavesWithGoodbye
    ExitCovers
    ModeBecomesTrue
CHECK_DEADLOCK FALSE
