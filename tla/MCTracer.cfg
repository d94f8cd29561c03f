CONSTANTS
    p1 = p1
    p2 = p2
    sh = sh
    nope = nope
    Procs = {p1, p2}
    Root = p1
    Paths = {sh, nope}
    Whitelist = {sh}
    Missing = {nope}
    Shim = Shim
    NoPath = NoPath
    CwdMap = TRUE
    MaxStops = 3
SPECIFICATION TracerSpec
INVARIANTS
    InitialStopSuppressed
    GetcwdRemapped
PROPERTIES
    FirstExecRedirected
    LoopTerminates
CHECK_DEADLOCK FALSE
