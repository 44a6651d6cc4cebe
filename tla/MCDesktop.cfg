SPECIFICATION DesktopSpec
CONSTANTS
    a1 = a1
    a2 = a2
    a3 = a3
    pdf1 = pdf1
    pdf2 = pdf2
    d1 = d1
    d2 = d2
    Arrivals = {a1, a2, a3}
    Paths = {pdf1, pdf2}
    PathOf <- MCPathOf
    Drains = {d1, d2}
    MaxReloads = 1
    minDisplay = 1
    timeout = 3
    loadWait = 2
    crossfade = 1
    forceQuit = 1
    Horizon = 4
    MaxClicks = 5
    BatchSize = 3
    Unsupported = TRUE
    w1 = w1
    w2 = w2
    Writers = {w1, w2}
    Attempts = 2
    NoFile = NoFile
    Positionals <- MCPositionals
    RecentPaths <- MCRecentPaths
    FileAt <- MCFileAt
    RecentCalls = {1, 2}
    StoredLists <- MCStoredLists
    MaxEntries = 3
    MaxAsks = 3
    NoRight = NoRight
    n1 = n1
    n2 = n2
    NavNodes = {n1, n2}
    MaxNavSteps = 3
    NoNav = NoNav
CHECK_DEADLOCK FALSE
INVARIANTS
    QueueSound
    CliContract
    StartupSafe
    CliToolSafe
    BatchSafe
    AtomicFileSafe
    RecentListSound
    PanelsSound
PROPERTIES
    DeliversOnce
    MetUnlessReloaded
    ForeignEntriesKept
    LaunchesEnd
