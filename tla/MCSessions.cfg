SPECIFICATION FairSpec
CONSTANTS
    r1 = r1
    Conns = {1, 2}
    Rooms = {r1}
    None = None
    Outdated = Outdated
    MaxConnections = 2
    QueueCapacity = 2
    MaxAsks = 2
    Careful = TRUE
INVARIANTS
    BindingIsMembership
PROPERTIES
    SuccessorKept
    LossIsHeard
    ReturnIsHeard
CHECK_DEADLOCK FALSE
