SPECIFICATION Spec
CONSTANTS
    OnceIds = {}
    ManualIds = {}
    Crons = {c1, c2}
    None = None
    MaxInstances = 2
    Tasks = {t1, t2}
    Requests = {r1}
    ClientStatuses = {}
    MaxArrivals = 3
    MaxFaults = 0
    MaxCrashes = 0
CHECK_DEADLOCK FALSE
SYMMETRY Symmetry
INVARIANTS
    CronTasksStayScheduled
