CONSTANTS
    Sdks = {"browser"}
    MaxQueue = 2
    MaxEvents = 3
    MaxFlushes = 1
SPECIFICATION Spec
INVARIANT
    DropsOnlyOnOverflow
CHECK_DEADLOCK FALSE
