SPECIFICATION FairSpec
CONSTANTS
    Order = {o1, o2}
    Document = {d1, d2}
    Session = {s1, s2, s3}
    None = None
INVARIANTS SettlementIffAccepted
PROPERTIES EveryTransactionEnds
CHECK_DEADLOCK FALSE
