SPECIFICATION FairDelivery
CONSTANTS
    Worker = {w1, w2}
    Target <- MCTarget
    Backoff <- MCBackoff
    MaxJobs = 2
    MaxAttempts = 2
    Limit = 2
    MaxFaults = 1
    Event = {e1}
    MaxTries = 2
    Replays = 0
    MaxScans = 0
    Toggling = FALSE
    Scan = Scan
    NoJob = NoJob
    NoClaim = NoClaim
PROPERTIES EveryEventDelivered
CHECK_DEADLOCK FALSE
