SPECIFICATION MCSpec
CONSTANTS
    None = None
    e1 = e1
    e2 = e2
    e3 = e3
    e4 = e4
    e5 = e5
    e6 = e6
    r1 = r1
    r2 = r2
    g1 = g1
    o1 = o1
    Order = {o1, o2}
    Reference = {r1, r2}
    GatewayRefund = {g1, g2}
    Event = {e1, e2, e3, e4, e5, e6}
    Content <- Events
    Amount = {150, 205}
    Refund = {k1, k2}
    ExecutionKey = {x1, x2}
    Account = {a1, c}
    Admin = {a1}
    SweepLimit = 3
INVARIANTS TypeOK ProjectionsAreBacked OneInvoicePerCapture RefundsAreApproved NothingIsSilent
PROPERTIES LateMappingRepaired
CHECK_DEADLOCK FALSE
