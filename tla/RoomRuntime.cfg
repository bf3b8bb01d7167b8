SPECIFICATION FairSpec
CONSTANTS
    Timers = {k1, k2}
    Reconnects = {k1, k2}
    RequestIds = {1}
    Capacity = 2
    MaxEntries = 1
    SchedulerFails = TRUE
    MaxCommits = 4
    MaxSends = 2
INVARIANTS
    NothingUnpublished
    
    CommittedIsPublished
PROPERTIES
    DeadlineMet
    Answered
CHECK_DEADLOCK FALSE
