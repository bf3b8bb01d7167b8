SPECIFICATION FairSpec
CONSTANTS
    Rooms = {A, B}
    MaxMatches = 2
    Period = 3
    Grain = 2
    MaxCatchUpSteps = 1
    MaxLate = 6
    MaxAway = 1
    MaxSpent = 1
    QueueFills = FALSE
INVARIANTS
    SimulatedIsHeld
    LoopKeepsTime
PROPERTIES
    MatchEnds
CHECK_DEADLOCK FALSE
