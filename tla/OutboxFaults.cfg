\* Two rows, every fault: deliveries and UPDATEs that fail or go unconfirmed, a restart.
SPECIFICATION Spec
CONSTANTS
    pass1 = pass1
    pass2 = pass2
    Passes = {pass1, pass2}
    Ids = {1, 2}
    Rows <- TwoAudiences
    Leftover = {}
    BatchSize = 2
    MaxAttempts = 2
    RetryDelays <- ShortDelays
    MaxDelay = 2
    MaxWriteFailures = 2
    SendOutcomes = {"skipped", "sent", "failed", "sentUnconfirmed"}
    WriteOutcomes = {"ok", "failed", "doneUnconfirmed"}
    MaxCrashes = 1
SYMMETRY PassSymmetry
INVARIANTS
    TypeOK
    NoUnexcusedRepeat
    DispatchBudget
