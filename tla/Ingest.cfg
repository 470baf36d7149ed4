CONSTANTS
    r1 = r1
    r2 = r2
    r3 = r3
    r4 = r4
    Requests = {r1, r2, r3, r4}
    NoRequest = NoRequest
    Token = 2
    Second = 2
    Capacity = 4
    Margin = 1
    MaxClock = 6
SPECIFICATION Spec
INVARIANTS
    TypeOK
    GrantsBounded
    OnePool
    ExpiryIsHarmless
PROPERTIES
    RetryAfterIsEnough
SYMMETRY Interchangeable
CHECK_DEADLOCK FALSE
