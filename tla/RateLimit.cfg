SPECIFICATION Spec
CONSTANTS
    RuleSets <- SomeRuleSets
    DefaultWindow = 2
    MaxTime = 5
    MaxCalls = 4
    MaxReloads = 2
CHECK_DEADLOCK FALSE
PROPERTIES TightestLimitHolds RefusedOnlyIfBusy
