SPECIFICATION Spec
CONSTANTS
    Order = {o1}
    Key = {}
    None = None
    Offer = {f1}
    Vehicle = {v1}
    Driver = {d1}
    Suitable <- AllSuitable
    Target = {"quoted", "confirmed", "assigned", "in_transit", "delivered", "cancelled"}
    Session = {s1, s2}
PROPERTIES DocumentsValidAtAssignment
CHECK_DEADLOCK FALSE
