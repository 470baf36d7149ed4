CONSTANTS
    j1 = j1
    j2 = j2
    j3 = j3
    e1 = e1
    e2 = e2
    e3 = e3
    u1 = u1
    NoJob = NoJob
    Jobs = {j1, j2, j3}
    EventIds = {e1, e2, e3}
    Releases = {1, 2}
    Users = {u1}
    Workload <- TripleWorkload
    MaxTries = 1
    MaxActions <- TripleActions
SPECIFICATION Spec
INVARIANT
    RegressionAlertIsPrecise
