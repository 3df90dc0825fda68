SPECIFICATION MCSpec
CONSTANTS
    Key = {1, 2, 3, 4, 5}
    Agent = {a1, a2}
    Content = {x1, x2}
    Holder = {h1}
    Result = {"passed", "failed"}
    Verdict = {"APPROVED", "REJECTED"}
    Owner = owner
    Report = {"ATTEMPTED"}
    Cost = {1}
    Life = {1, 2}
    Session = {s1, s2}
    RunKey = {u1, u2}
    None = None
    Budget = 1
    LoopLimit = 3
    LoopWindow = 2
    GrantTtl = 1
    MaxBlocks = 2
    MaxWait = 1
    MaxTime = 4
SYMMETRY Symmetry
INVARIANTS TypeOK ExecutedAsApproved ExecutedOnce LoopGuardHolds
PROPERTIES GrantsAreOneShot
CHECK_DEADLOCK FALSE
