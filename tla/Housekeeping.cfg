CONSTANTS
    p1 = p1
    p2 = p2
    u1 = u1
    u2 = u2
    d1 = d1
    Nobody = Nobody
    Uploads = {u1, u2}
    Dirs = {d1}
    Target <- MCTarget
    Readers = {"r1"}

    Chunks = 2
    Stamps = {1, 2}
    TicksPerDay = 2
    Projects = {p1, p2}
    OrgOf <- MCOrgOf
    RetentionDays = {1, 2}
    DefaultRetention = 1
    Fallback = 3
    Lookahead = 1
    Plans <- MCPlans
    MaxDelay = 1
SPECIFICATION Spec
INVARIANTS
    RetentionIsExact
    TodayHasPartition
    StoredIsLatest
    CacheIsCurrent
    PruneSparesFresh
