SPECIFICATION Spec
CONSTANTS
    p1 = p1
    p2 = p2
    None = None
    Purchases = {p1, p2}
    MaxAttempts = 2
    MaxBatch = 2
    BatchAnswered = FALSE
    MaxRestarts = 1
INVARIANTS NoneStranded
CHECK_DEADLOCK FALSE
