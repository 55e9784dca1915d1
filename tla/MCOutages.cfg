SPECIFICATION SyncSpec
CONSTANTS
    Events = {e1}
    MaxQueue = 2
    MaxRestarts = 1
    MaxOutages = 1
    MaxFailures = 1
    MaxHasty = 1
PROPERTIES OutagesGetThrough
