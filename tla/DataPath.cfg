CONSTANTS
    x = x
    y = y
    Others = {"o1", "o2"}
    Chaining = {"o1"}
    MaxClients = 3

    Root = "main"
    Contexts = {"main", "r1", "r2"}
    MAX_BREADCRUMBS = 2
    MaxCrumbs = 4
    MaxEvents = 1

    MAX_FRAMES = 3
    MAX_CAUSE_DEPTH = 3
    FINGERPRINT_FRAME_LIMIT = 2
    Names = {"a", "long1", "long2", "long", "lib", "f"}
    Cut <- MCCut
    Errors = {x, y}
    NoError = NoError
    Volatile <- MCVolatile
    Programs <- MCPrograms

    CONTEXT_WINDOW = 1
    Segments <- MCSegments
    Sources <- MCSources
    SymbolNames <- MCSymbolNames
    Vendored = {"dep", "dep.min"}
    MinifiedFrames <- MCMinifiedFrames

    Rows = {1, 2, 3}
    MAX_PER_PAGE = 2
    DEFAULT_PER_PAGE = 1
    Requested = {0, 5}
    WINDOW_DAYS = 2
    TicksPerDay = 2
    MaxClock = 4
    MaxArrivals = 2
SPECIFICATION Spec
INVARIANTS
    CrashIsReportedOnce
    ScopesDoNotBleed
    IssuesAreCrashes
    MapsAreRead
    UntouchedIsShown
    ChartAddsUp
CHECK_DEADLOCK FALSE
