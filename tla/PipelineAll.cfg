SPECIFICATION FairSpec
CONSTANTS
    r1 = r1
    NoInput = NoInput
    BlockAll = FALSE
    Requests = {r1}
    Inputs <- AllInputs
    Starts <- AllStarts
    Remote <- SomeSettings
    MaxReloads = 2
INVARIANT TypeOK
INVARIANT AnswersAreLogged
INVARIANT CheckedBeforeForwarding
INVARIANT PromptRedacted
INVARIANT PausedUntilReleased
PROPERTY EveryRequestAnswered
CHECK_DEADLOCK FALSE
