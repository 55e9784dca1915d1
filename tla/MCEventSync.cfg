SPECIFICATION SyncSpec
CONSTANTS
    Events = {e1, e2}
    MaxQueue = 2
    MaxRestarts = 1
    MaxOutages = 1
    MaxFailures = 0
    MaxHasty = 0
INVARIANTS LaterEventsAreTail HeadWasReported SyncTypeOK NoEventForgotten
PROPERTIES ClearDropsOnlyReported ImplementsCustody EventsGetThrough
