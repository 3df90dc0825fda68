SPECIFICATION MCSpec
CONSTANTS
    r1 = r1
    r2 = r2
    r3 = r3
    g1 = g1
    g2 = g2
    g3 = g3
    s1 = s1
    s2 = s2
    c1 = c1
    c2 = c2
    None = None
    Run = {r1, r2, r3}
    Grant = {g1, g2, g3}
    Registered <- MCRegistered
    Window <- MCWindow
    Shown <- MCShown
    Timeout = 2
    Horizon = 4
    MaxMishaps = 2
    i1 = i1
    i2 = i2
    Review <- MCReview
    Snapshot <- MCSnapshot
    ShownIn <- MCShownIn
    Agent <- MCAgent
    Caller = {a1, a2}
    Reviewer = {human, agent}
    Human = {human}
    Key = {k1, k2}
    LastTime = 2
SYMMETRY Interchangeable
INVARIANTS
    WellTyped
    LatchHolds
    OneCallPerGrant
    DecisionsStand
CHECK_DEADLOCK FALSE
