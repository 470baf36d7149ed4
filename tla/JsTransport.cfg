CONSTANTS
    Sdks = {"node", "browser"}
    MaxQueue = 3
    MaxEvents = 5
    MaxFlushes = 2
SPECIFICATION FairSpec
INVARIANTS
    TypeOK
    DropsOldest
PROPERTIES
    FlushIsHonest
    QueueDrains
CHECK_DEADLOCK FALSE
