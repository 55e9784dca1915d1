SPECIFICATION Spec
CONSTANTS
    Kinds <- BlockingKinds
    MaxCommands = 1
    MaxRefresh = 1
    MaxQueue = 1
CHECK_DEADLOCK FALSE
INVARIANTS OnlyKnownDeadlocks
PROPERTIES OnlyKnownHangs ClosingUsesUpWork
