SPECIFICATION DockerSpec
CONSTANTS
    Codes = {0, 3}
    MaxChunks = 4
    HijackCap = 2
    Users = {u1, u2}
    MaxCalls = 4
INVARIANTS
    WaitTellsTruth
    FilesShared
    CloseReleases
PROPERTIES
    WaitReturns
    CloseEndsGoroutines
CHECK_DEADLOCK FALSE
