SPECIFICATION Spec
CONSTANTS
    MaxOpens = 2
    MaxCrashes = 1
    MaxCommands = 2
CHECK_DEADLOCK FALSE
INVARIANTS TypeOK PromptOnlyAfterCrash CloseKillsNoCore ShellOutlivesWatchingThread
    OnlyKnownDeadlocks
PROPERTIES OneCore OnlyKnownHangs ClosingUsesUpWork
