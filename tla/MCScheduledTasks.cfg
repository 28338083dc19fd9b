SPECIFICATION Spec
CONSTANTS
    OnceIds = {o1}
    ManualIds = {}
    Crons = {c1, c2}
    None = None
    MaxInstances = 1
    Tasks = {t1, t2}
    Requests = {r1, r2}
    ClientStatuses = {"PENDING"}
    MaxArrivals = 3
    MaxFaults = 1
    MaxCrashes = 1
CHECK_DEADLOCK FALSE
SYMMETRY Symmetry
INVARIANTS
    TypeOK
    ScheduleMatchesRows
    PauseAgrees
PROPERTIES
    DeletedOnceNeverStarts
