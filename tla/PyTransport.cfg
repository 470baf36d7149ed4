CONSTANTS
    t1 = t1
    t2 = t2
    NoThread = NoThread
    Threads = {t1, t2}
    MaxQueue = 1
    MaxEvents = 3
SPECIFICATION FairSpec
INVARIANTS
    TypeOK
    FlushCountsEverything
PROPERTIES
    CallsReturn
    WorkerStops
