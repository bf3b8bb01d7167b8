SPECIFICATION HandlingSpec
CONSTANTS
    Bindings <- MCBindings
    Settings <- MCSettings
    MaxEmissions = 4
    SafeLockTime = 1
    LastTime = 4
    MaxPresses = 4
INVARIANTS
    NewestDirection
    ShiftGoesOn
    FrameRateIndependent
CHECK_DEADLOCK FALSE
