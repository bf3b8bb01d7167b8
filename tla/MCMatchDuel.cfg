SPECIFICATION DuelSpec

CONSTANTS
    Width = 4
    Height = 7
    OpenerPieces = 2
    GarbageCap = 2
    SpawnX = 0
    SpawnY = 3
    DasFrames = 1
    ArrFrames = 0
    Gravity = 1
    SoftDrop = 6
    CellParts = 1
    LockDelay = 1
    LockResetLimit = 1
    None = None
    Kinds = {"I", "T"}
    Bags = 4
    Openings <- MCOpenings
    Boards <- MCBoards
    Actions <- MCActions
    MaxPresses <- MCMaxPresses
    MaxFrames = 3
    TravelFrames = 1
    Holes = {0}
    TickRate = 2
    SnapshotRate = 1

INVARIANTS
    ActiveFits
    CellsAccounted
    PiecesAccounted
    GarbageConserved

CHECK_DEADLOCK FALSE
