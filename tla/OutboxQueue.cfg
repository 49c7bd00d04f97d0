\* A batch of one row: a row with no attempts left at the head, and behind it a mail of any kind.
SPECIFICATION FairSpec
CONSTANTS
    pass1 = pass1
    pass2 = pass2
    Passes = {pass1}
    Ids = {1, 2}
    Rows <- MixedRows
    Leftover = {1}
    BatchSize = 1
    MaxAttempts = 2
    RetryDelays <- ShortDelays
    MaxDelay = 2
    MaxWriteFailures = 2
    SendOutcomes = {"skipped", "sent", "failed", "sentUnconfirmed"}
    WriteOutcomes = {"ok", "failed", "doneUnconfirmed"}
    MaxCrashes = 1
INVARIANTS
    MessageKeepsToItsSide
PROPERTIES
    DeliveryImplemented
    EveryRowSettles
