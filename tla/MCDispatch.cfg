SPECIFICATION Spec
CONSTANTS
    Order = {o1, o2}
    Key = {}
    None = None
    Offer = {f1, f2}
    Vehicle = {v1}
    Driver = {d1}
    Suitable <- AllSuitable
    Target = {"quoted", "confirmed", "cancelled"}
    Session = {s1, s2}
SYMMETRY Symmetry
INVARIANTS TypeOK NoDoubleBooking
PROPERTY ImplementsContract
CHECK_DEADLOCK FALSE
