SPECIFICATION Spec
CONSTANTS
    Nodes = {n1}
    p1 = p1
    p2 = p2
    p3 = p3
    Pairs = {p1, p2, p3}
    Expirable <- MCExpirable
    MaxFaults = 0
    MaxLosses = 0
    Requests = {r1, r2}
    Users = {u1}
    Devices = {}
    None = None
    MaxArrivals = 3
CHECK_DEADLOCK FALSE
SYMMETRY Symmetry
INVARIANT SingleUse
