SPECIFICATION MCSpec
CONSTANTS
    Order = {o1}
    Driver = {d1, d2}
    Notification = {n1}
    None = None
    MaxSends = 2
    w1 = w1
    w2 = w2
    Task = {1, 2, 3, 4}
    Worker = {w1, w2}
    MaxAttempts = 2
    ClaimLimit <- MCClaimLimit
    Budget = 1
    MaxCalls = 2
    RepeatThreshold = 1
    MaxAborts = 1
INVARIANTS
    TypeOK
    OneTickPerTask
    AttemptsAreCounted
    OvershootIsBounded
    RowsTellTheTruth
CHECK_DEADLOCK FALSE
PROPERTY
    ExhaustedIsPaused
