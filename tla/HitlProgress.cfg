SPECIFICATION FairSpec
CONSTANTS
    Requests = {r1}
    NoRow = NoRow
    AcceptSets <- AnyAccepted
    NoRequest = NoRequest
    Timeouts = {1, 2, 3}
    RecoverLimit = 1
    MaxTime = 5
    MaxForwards = 1
    MaxCrashes = 2
INVARIANT WaitsEndByDeadline
PROPERTY PendingResolves
