SPECIFICATION Spec
CONSTANTS
    t1 = t1
    t2 = t2
    d1 = d1
    d2 = d2
    Nobody = Nobody
    Threads = {t1, t2}
    Docs = {d1, d2}
    Pages = 2
    MaxCalls = 2
    MaxCloses = 1
    Methods = {"object", "pages", "objects", "xref", "stream", "content", "reverse", "images", "structure", "validate", "plaintext", "render", "diff"}
CHECK_DEADLOCK FALSE
SYMMETRY Symmetry
INVARIANTS CallsSound NoWaitCycle CloseStopsWalks
