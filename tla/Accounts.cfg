CONSTANTS
    r1 = r1
    r2 = r2
    Requests = {r1, r2}
    Addresses <- MCAddresses
    Lower <- MCLower
    MaxInvites = 1
    MaxToggles = 3
    Attempts = {r1, r2}
    LOCKOUT_THRESHOLD = 3
    LOCKOUT_DURATION = 2
    MaxTime = 4
SYMMETRY Interchangeable
SPECIFICATION SignInSpec
INVARIANTS
    MembershipsAreExplained
    AdminsRemainUnlessRaced
    LockoutCountsGuesses
    LostCountsAreBounded
