CONSTANTS
    c1 = c1
    c2 = c2
    orphan = orphan
    Pids <- MCPids
    Waited <- MCWaited
    Statuses <- MCStatuses
    NoStatus = NoStatus
    NoPid = NoPid
    SigChCap = 1
SPECIFICATION FairSpec
INVARIANTS
    ZombieHasWakeup
    StatusNeverLost
PROPERTIES
    AbstractSpec
    WaitForReturns
CHECK_DEADLOCK FALSE
