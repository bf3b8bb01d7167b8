SPECIFICATION Spec
CONSTANTS
    HistorySize = 2
    FrameLag = 1
    ResumeMeetsStart = FALSE
    MaxActs = 4
    MaxFrame = 4
    MaxGeneration = 3
INVARIANTS
    AppliedInOrder
    PressShownOnce
    InStep
CHECK_DEADLOCK FALSE
