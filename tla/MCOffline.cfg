SPECIFICATION Spec
CONSTANTS
    Kinds <- SessionKinds
    MaxCommands = 1
    MaxRefresh = 0
    MaxQueue = 1
CHECK_DEADLOCK FALSE
PROPERTIES NoPollOnceOffline
