CONSTANTS
    SunPathLen <- MCSunPathLen
    PathLens <- MCPathLens
SPECIFICATION Spec
PROPERTY UnlinkOnlySockets
CHECK_DEADLOCK FALSE
