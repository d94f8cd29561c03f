CONSTANTS
    lead = lead
    helper = helper
    InStreams = {0, 3}
    OutStreams = {1, 3}
    Procs = {lead}
    Leader = lead
    Stubborn = {}
    Codes = {0}
    PipeCap = 1
    LinkCap = 1
    Kinds = {"fdin", "fdout", "out", "sig"}
    MaxEvents = 2
    ShimSigCap = 1
    SigCap = 1
    SockCap = 1
    Faults = {"start"}
SPECIFICATION SafeSpec
PROPERTIES
    KeepsPromise
CHECK_DEADLOCK FALSE
