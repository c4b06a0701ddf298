CONSTANTS
    MaxRequests = 2

SPECIFICATION Spec

PROPERTY IoEventOnMappedMemory
