CONSTANTS
    Commands = {1, 2}
    MaxVersion = 2
    Installed = 1
    TTL = 2
    MaxTime = 4
    MaxApp = 2
SPECIFICATION CastSpec
INVARIANTS AnswersSound RefreshSound
PROPERTIES SkipIsSound CommandsExit
CHECK_DEADLOCK FALSE
