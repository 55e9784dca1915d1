SPECIFICATION Spec
CONSTANTS
    Kinds <- SessionKinds
    MaxCommands = 2
    MaxRefresh = 0
    MaxQueue = 1
CHECK_DEADLOCK FALSE
INVARIANTS TypeOK CommandsStayInOrder NothingLeftBehind
PROPERTIES LastWordIsOffline ServesCommands 
