SPECIFICATION EnvSpec
CONSTANTS
    Names <- MCNames
    Values = {"v1", "v2"}
    Dirs = {"/bin", "/usr/bin"}
    StubDir = "/stubs"
    Unset = Unset
    ContainerRemove <- MCContainerRemove
    EnvKeep <- MCKeep
    EnvRemove <- MCRemove
INVARIANTS
    ForwardedExactly
    ShimFindsBroker
