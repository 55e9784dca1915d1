SPECIFICATION Spec
CONSTANTS
    Tickets = {t1, t2, t3}
    NoTicket = NoTicket
    MaxQueue = 1
    MaxCommands = 2
    MaxFailures = 1
    MaxClosings = 1
CHECK_DEADLOCK FALSE
ACTION_CONSTRAINT FirstFree
INVARIANTS TypeOK NoOrphans SecondSessionOnlyForInfo DeletedUnused NothingHeldAtEnd
PROPERTIES BrokenSessionEnds
