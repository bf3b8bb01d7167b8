SPECIFICATION FairSpec
CONSTANTS
    Players = {p1, p2}
    None = None
    MaxSpectators = 1
    MaxDenied = 1
    TargetWinsOptions = {1, 2}
    MaxJoins = 4
    MaxGames = 2
INVARIANTS
    CommitInvariant
    ConsentBound
PROPERTIES
    OneForfeitPerMatch
    RevisionFence
    LostMemberResolved
    AbandonedRoomCloses
CHECK_DEADLOCK FALSE
