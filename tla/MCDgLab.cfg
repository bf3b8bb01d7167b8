SPECIFICATION DeviceSpec
CONSTANTS
    Configs <- MCConfigs
    BaseStrength = 1
    MaxQueue = 2
    DefeatTime = 2
    MaxTime = 3
    MaxConnects = 1
    MaxArms = 2
    MaxEvents = 2
    MaxChanges = 1
    MaxWrites = 1
INVARIANTS
    StopSilences
    WithinLimit
PROPERTIES
    OutputEnds
CHECK_DEADLOCK FALSE
