SPECIFICATION FairOutboxSpec
CONSTANTS
    Task = {t1, t2}
    Worker = {w1, w2}
    None = None
    MaxAttempts = 2
    ClaimLimit = 2
    MaxCrashes = 1
INVARIANTS TypeOK HandlerRunsBounded TerminalEvidence AtLeastOnce
PROPERTIES FencedSettlement StaleLeaseRecovered ImplementsContract
CHECK_DEADLOCK FALSE
