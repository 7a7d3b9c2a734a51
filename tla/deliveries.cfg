SPECIFICATION DeliverySpec
CONSTANTS
    Worker = {w1, w2}
    Target <- MCTarget
    Backoff <- MCBackoff
    MaxJobs = 3
    MaxAttempts = 2
    Limit = 2
    MaxFaults = 1
    Event = {e1}
    MaxTries = 2
    Replays = 0
    MaxScans = 1
    Toggling = TRUE
    Scan = Scan
    NoJob = NoJob
    NoClaim = NoClaim
SYMMETRY WorkerSymmetry
INVARIANTS DeliveryTypeOK OneRunner RunsBounded AttemptHasJob OneJobPerAttempt
PROPERTIES QueueKept
CHECK_DEADLOCK FALSE
