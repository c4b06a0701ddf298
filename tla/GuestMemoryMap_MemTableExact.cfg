CONSTANTS
    MaxRegions = 2
    AddrBits = 5
    U32Bits = 3
    PageShift = 1
    PageSizeBits = 5
    MaxFd = 3
    Gpas <- MCGpas
    Uvas <- MCUvas
    Sizes <- MCSizes
    Offsets <- MCOffsets

SPECIFICATION Spec
INVARIANT MemTableExact





CHECK_DEADLOCK FALSE
