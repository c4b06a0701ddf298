CONSTANTS
    MaxQueues = 1
    MaxRegions = 1
    MaxFd = 3
    RegionDescs <- MCRegionDescs
    VringUvas <- MCVringUvas
    VringNums = {0, 1}
    VringBases = {0}
    DevFeatures = {}
    SupportedProtocolFeatures = {"REPLY_ACK"}
    EventLoopCanFail = TRUE
    SunPathLen = 2
    PathLens = {1, 2}
    MasterOmitsFds = FALSE

SPECIFICATION Spec

INVARIANT RepliesAsSpecified


CHECK_DEADLOCK FALSE
