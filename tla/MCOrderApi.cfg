SPECIFICATION MCSpec
CONSTANTS
    o1 = o1
    s1 = s1
    a1 = a1
    b1 = b1
    Order = {o1, o2}
    Key = {k1, k2}
    None = None
    Session = {s1, s2}
    Account = {a1, a2}
    Body = {b1, b2}
    Target = {"quoted", "cancelled"}
INVARIANTS TypeOK HistoryIsPath KeyExecutesOnce AnswersAreTrue IntakeComplete
PROPERTIES EveryRequestAnswered ChangesWereDecidedOn
CHECK_DEADLOCK FALSE
