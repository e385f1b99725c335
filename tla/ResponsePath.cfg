SPECIFICATION Spec
CONSTANTS
    Configs <- SomeConfigs
    Answers <- SomeAnswers
    Trusts = {2, 4, 5}
    Actions = {"", "delete"}
    Contents <- SomeContents
    MaxLen = 4
CHECK_DEADLOCK FALSE
INVARIANTS RedactedForGood LowTrustIsVerified CondemnedIsOnRecord QuotedReadsBack HardStopsHold
