SPECIFICATION Spec
CONSTANTS
    HistorySize = 2
    FrameLag = 1
    ResumeMeetsStart = TRUE
    MaxActs = 3
    MaxFrame = 3
    MaxGeneration = 2
INVARIANTS
    SequenceNamesInput
CHECK_DEADLOCK FALSE
