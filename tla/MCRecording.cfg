SPECIFICATION Spec
CONSTANTS
    Cmds = {c1, c2}
    NoOne = NoOne
    MaxFails = 1
    MaxFrames = 1
SYMMETRY MCSymmetry
INVARIANTS
    AgentStarts
    Attributable
CHECK_DEADLOCK FALSE
