SPECIFICATION Spec
CONSTANTS
    StubDir = "stub"
    Relative <- MCRelative
    Cwd = "cwd"
    LocalCommands <- MCLocal
    Regexes <- MCRegexes
    None = None
    TempDirs <- MCTempDirs
    Scenarios <- MCScenarios
    Asked <- MCAsked
    Names <- MCNames
    MaxNest = 3
    LocalDirs <- MCLocalDirs
    Places <- MCPlaces
    Commands <- MCRun
    Hardened <- MCHardened
    MaxDepth = 5
INVARIANTS
    InitialStaysLocal
    MapsToShown
    RunsWhereShown
    RoutedAsListed
CHECK_DEADLOCK FALSE
