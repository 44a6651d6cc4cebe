SPECIFICATION Spec
CONSTANTS
    t1 = t1
    t2 = t2
    Tabs = {t1, t2}
    Versions = {"v1"}
    MaxStats = 3
    EarlyCheck = FALSE
    InOrder = FALSE
    MaxUpsets = 0
    MaxChecks = 0
INVARIANTS OneStatPerTab
CHECK_DEADLOCK FALSE
