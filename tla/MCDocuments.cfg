CONSTANTS
    p1 = p1
    p2 = p2
    TabPaths = {p1, p2}
    NoTab = NoTab
    MaxDocs = 3
    MaxRepeats = 1
    o1 = o1
    o2 = o2
    o3 = o3
    d1 = d1
    Objects = {o1, o2, o3}
    Directs = {d1}
    Types = {"Page", "Pages", "none"}
    Owns = {"absent", "value", "null", "error"}
    MaxKids = 2
    MaxDepth = 2
    None = None
    SignedDocs <- MCSignedDocs
    SigFields <- MCSigFields
    maxNodeIDDepth = 2
    maxHoleProbeBytes = 2
    IntHalf = 16
    MaxDiskEvents = 2
    maxBERDepth = 3
    maxResolveDepth = 2
    ContentsKey = 8
    ByteRangeKey = 9
    Text <- DecText
    DiffDocs <- MCDiffDocs
    maxFormWalkDepth = 3
    maxImageWalkEntries = 9
    maxImageWalkUses = 8
    maxNumberTreeDepth = 3
    NumberTrees <- MCNumberTrees
    maxStructTreeDepth = 2
    ExportRequests <- MCExportRequests
SPECIFICATION DocSpec
INVARIANTS TabsSound PagesComplete PageRowsSound
           SignaturesAreRight ExportsAreSafe ComparisonsAreRight
           NumberTreeIsRight AnswersAreRight
PROPERTY ReloadQuiet
SYMMETRY Symmetry
CHECK_DEADLOCK FALSE
