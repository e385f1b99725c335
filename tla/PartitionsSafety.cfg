SPECIFICATION Spec
CONSTANTS
    Events = {e1, e2}
    Cycles = {loop, admin}
    Loop = loop
    AcceptSets <- AnyAccepted
    MonthLength = 2
    Retention = 0
    Initial = 1
    MaxTime = 3
    MaxFaults = 1
SYMMETRY Symmetry
INVARIANT TypeOK
INVARIANT NothingLost
INVARIANT ArchivedOnce
INVARIANT ManifestAgrees
