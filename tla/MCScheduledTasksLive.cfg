SPECIFICATION FairSpec
CONSTANTS
    OnceIds = {o1}
    ManualIds = {m1}
    Crons = {c1}
    None = None
    MaxInstances = 1
    Tasks = {t1}
    Requests = {r1, r2}
    ClientStatuses = {"COMPLETED"}
    MaxArrivals = 2
    MaxFaults = 1
    MaxCrashes = 2
CHECK_DEADLOCK FALSE
PROPERTIES
    OnceTasksRun
