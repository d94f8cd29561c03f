SPECIFICATION Spec
CONSTANTS
    MaxDials = 4
    MaxFails = 2
INVARIANTS
    NoLeak
PROPERTIES
    Reconnects
CHECK_DEADLOCK FALSE
