SPECIFICATION ReplaySpec
CONSTANTS
    Fatal = "fatal"
    MaxActions = 2
    MaxPending = 2
    ActionLists <- MCActionLists
    MaxFrame = 2
    MaxInputs = 2
    MaxControls = 1
INVARIANTS
    FinalIsWhole
    ReconstructionAgrees
PROPERTIES
    EndIsPublished
CHECK_DEADLOCK FALSE
