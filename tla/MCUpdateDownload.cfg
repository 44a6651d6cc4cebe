CONSTANTS
    MaxDownloads = 2
    Chunks = 1
    Escalate = 1
    MaxPrompts = 2
SPECIFICATION FairSpec
INVARIANTS DownloadSound
CHECK_DEADLOCK FALSE
PROPERTIES GateLetsGo
