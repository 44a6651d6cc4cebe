SPECIFICATION FairSpec
CONSTANTS
    t1 = t1
    Tabs = {t1}
    Versions = {"v1", "v2"}
    MaxStats = 2
    EarlyCheck = FALSE
    InOrder = TRUE
    MaxUpsets = 2
    MaxChecks = 1
INVARIANTS WatcherSound
PROPERTIES Converges StopFreesStats
CHECK_DEADLOCK FALSE
