SPECIFICATION FairSpec
CONSTANTS
    Events = {e1}
    Cycles = {loop, admin}
    Loop = loop
    AcceptSets <- AnyAccepted
    MonthLength = 1
    Retention = 0
    Initial = 1
    MaxTime = 1
    MaxFaults = 1
PROPERTY OldIsDropped
