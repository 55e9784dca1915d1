SPECIFICATION Spec
CONSTANTS
    MaxOpens = 1
    MaxCrashes = 0
    MaxCommands = 0
CHECK_DEADLOCK FALSE
PROPERTIES CoreIsTold
