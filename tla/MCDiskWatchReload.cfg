SPECIFICATION FairSpec
CONSTANTS
    t1 = t1
    Tabs = {t1}
    Versions = {"v1", "v2"}
    MaxStats = 1
    EarlyCheck = TRUE
    InOrder = FALSE
    MaxUpsets = 2
    MaxChecks = 1
PROPERTIES
    Converges
CHECK_DEADLOCK FALSE
