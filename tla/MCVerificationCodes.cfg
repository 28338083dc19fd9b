SPECIFICATION CodesSpec
CONSTANTS
    Requests = {r1, r2}
    Targets = {g1, g2}
    Ips = {a1}
    Types = {"LOGIN"}
    Codes = {k1}
    None = None
    MaxPerTarget = 2
    MaxPerIp = 2
    MaxRows = 3
    MaxFaults = 1
CHECK_DEADLOCK FALSE
SYMMETRY Symmetry
INVARIANTS
    CodesTypeOK
    TargetOverrunBounded
    IpOverrunBounded
    OverlappingAcceptsOnly
PROPERTIES
    ImplementsOneTimeCodes
