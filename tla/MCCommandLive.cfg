CONSTANTS
    lead = lead
    helper = helper
    InStreams = {0}
    OutStreams = {1}
    Procs = {lead, helper}
    Leader = lead
    Stubborn = {lead, helper}
    Codes = {3}
    PipeCap = 1
    LinkCap = 1
    Kinds = {"in", "out", "fork"}
    MaxEvents = 1
    ShimSigCap = 1
    SigCap = 1
    SockCap = 1
    Faults = {"link", "shim", "broker"}
SPECIFICATION Spec
PROPERTIES
    KeepsPromise
    CommandReturns
    GoroutinesEnd
    LossEndsGroup
CHECK_DEADLOCK FALSE
