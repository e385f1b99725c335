SPECIFICATION FairSpec
CONSTANTS
    Batches <- SomeBatches
    Info <- SomeInfo
    Channels <- TwoChannels
    MaxSends = 2
    Codecs = {TRUE, FALSE}
    MaxFaults = 1
CHECK_DEADLOCK FALSE
INVARIANTS AlertsAccounted AcknowledgedIsAlerted TwiceOnlyIfUnsure
PROPERTIES StoredIsAlerted
