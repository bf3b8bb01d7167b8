SPECIFICATION Spec
CONSTANTS
    RetainedEvents = 1
    MaxFrame = 4
    MaxGeneration = 2
INVARIANTS
    ShownIsReal
    ResyncAnswered
CHECK_DEADLOCK FALSE
