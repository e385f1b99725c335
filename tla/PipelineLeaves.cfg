SPECIFICATION Spec
CONSTANTS
    r1 = r1
    NoInput = NoInput
    BlockAll = FALSE
    Requests = {r1}
    Inputs <- Elsewhere
    Starts <- SomeSettings
    Remote <- SomeSettings
    MaxReloads = 0
INVARIANT SecretsLeaveRedacted
CHECK_DEADLOCK FALSE
