CONSTANTS
    u = u
    v = v
    f = f
    g = g
    Callers = {u, v}
    Files = {f, g}
    Opens <- MCOpens
    NoFile = NoFile
    IdSpace = 5
    FirstId = 3
    HandleSpace = 5
    FirstHandle = 3
    MaxCalls = 3
    LinkCap = 1
SPECIFICATION Spec
INVARIANTS
    OwnAnswer
    ReadsOwnFile
    PendingAccounted
    HandlesAccounted
PROPERTIES
    CloseReleasesAll
CHECK_DEADLOCK FALSE
