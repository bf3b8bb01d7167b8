SPECIFICATION FairSpec
CONSTANTS
    a1 = a1
    a2 = a2
    b1 = b1
    b2 = b2
    A = A
    B = B
    Rooms = {A, B}
    Keys = {a1, a2, b1}
    RoomOf <- MCRoomOf
    Size <- MCSize
    Commits <- MCContested
    Capacity = 2
    WaitingCapacity = 2
    CompletedRetention = 2
    MaxAttempts = 2
    SchedulersFail = TRUE
INVARIANTS
    AnsweredTruthfully
PROPERTIES
    RedeliveryWindow
    InOrder
    AcceptedSettles
CHECK_DEADLOCK FALSE
