SPECIFICATION Spec
CONSTANTS
    a = a
    b = b
    c = c
    MaxMounts = 3
    Paths <- MCPaths
    Cwd = c
    LocalHome = a
    LocalOS = "lo"
    LocalArch = "la"
    Requests <- MCRequests
INVARIANTS
    BindsServed
    AsAsked
    RemoteIntact
    NothingLeft
