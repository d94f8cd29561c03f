SPECIFICATION Spec
CONSTANTS
    proc1 = proc1
    proc2 = proc2
    Procs = {proc1, proc2}
    Width = 8
    n1 = n1
    n2 = n2
    Names = {n1, n2}
    f1 = f1
    f2 = f2
    Files = {f1, f2}
    NoFile = NoFile
    Unset = Unset
    LocalID = 0
    Uses <- MCUses
INVARIANTS
    WritesReachOpened
PROPERTIES
    ChownShows
    SetattrKeeps
CHECK_DEADLOCK FALSE
