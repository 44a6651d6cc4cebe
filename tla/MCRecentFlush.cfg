SPECIFICATION FairSpec
CONSTANTS
    o1 = o1
    f1 = f1
    f2 = f2
    c1 = c1
    Openers = {o1}
    Flushers = {f1, f2}
    Callers = {c1}
    MaxChanges = 2
INVARIANTS SaverSound SavesAreDurable NoStrandedChange
PROPERTIES NoRebuildAfterClose ReportedIsSavedAndShown CallsReturn
CHECK_DEADLOCK FALSE
