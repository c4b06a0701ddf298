CONSTANTS
    MaxQueues = 1
    MaxRegions = 1
    MaxFd = 3
    RegionDescs <- MCRegionDescs
    VringUvas <- MCVringUvas
    VringNums = {0, 1}
    VringBases = {0}
    DevFeatures = {}
    SupportedProtocolFeatures = {"REPLY_ACK"}
    EventLoopCanFail = TRUE
    SunPathLen = 2
    PathLens = {1, 2}
    MasterOmitsFds = FALSE

SPECIFICATION Spec

INVARIANT TypeOK
INVARIANT EnabledOnlyConnected
INVARIANT SocketSourcesMatchState
INVARIANT HeldFdsOpen
INVARIANT NotifyTargetCurrent
INVARIANT InitFailureReleases
INVARIANT ListenerAtSocketPath

PROPERTY ConnectionRefinement

CHECK_DEADLOCK FALSE
