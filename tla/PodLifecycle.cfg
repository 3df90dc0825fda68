SPECIFICATION Spec
CONSTANTS
    Order = {o1}
    Client = {c1, c2}
    None = None
PROPERTY SuccessMoved
CHECK_DEADLOCK FALSE
