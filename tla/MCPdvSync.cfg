SPECIFICATION FairSpec
CONSTANTS
    p1 = p1
    p2 = p2
    None = None
    Purchases = {p1, p2}
    MaxAttempts = 2
    MaxBatch = 1
    BatchAnswered = TRUE
    MaxRestarts = 1
INVARIANTS OneSalePerEvent SyncedIsSold
PROPERTIES SettledForGood RunsEnd
CHECK_DEADLOCK FALSE
