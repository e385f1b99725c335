SPECIFICATION FairSpec
CONSTANTS
    Events = {e1, e2, e3}
    BatchSize = 2
    QueueSize = 2
    Faults = {"offline", "error", "late", "disk"}
    MaxOutages = 1
    MaxStops = 1
    MaxCrashes = 2
INVARIANT TypeOK
INVARIANT SentAccounted
INVARIANT NoUnexplainedDuplicates
PROPERTY QueueDrains
