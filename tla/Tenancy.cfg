CONSTANTS
    p1 = p1
    p2 = p2
    k1 = k1
    c1 = c1
    c2 = c2
    c3 = c3
    i1 = i1
    u1 = u1
    a1 = a1
    a2 = a2
    OrgWide = OrgWide
    Nobody = Nobody
    Admins = {a1, a2}
    Projs = {p1, p2}
    Keys = {k1}
    KeyProject <- MCKeyProject
    Channels = {c1, c2, c3}
    Scope <- MCScope
    Issues = {i1}
    IssueProject <- MCIssueProject
    Users = {u1}
    Rates = {"low", "full"}
    FullRate = "full"
    Plans <- MCPlans
    Alerted = i1
    ChannelType <- MCChannelType
    Explicit = {}
    smtp_is_configured = TRUE
    HTTP_ATTEMPTS = 2
    MaxTries = 2
    Orgs = {o1, o2}
    Units = {j1, j2, j3}
    Conns = {d1, d2}
    NoConn = NoConn
SPECIFICATION TenancySpec
INVARIANTS
    NothingDangles
    AuditIsExact
    ChannelsAreServed
    ScopeIsExact
CHECK_DEADLOCK FALSE
