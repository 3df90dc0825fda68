SPECIFICATION FairOutboxSpec
CONSTANTS
    Task = {t1, t2}
    Worker = {w1, w2}
    None = None
    MaxAttempts = 2
    ClaimLimit = 2
    MaxCrashes = 0
PROPERTIES EverySettles
CHECK_DEADLOCK FALSE
