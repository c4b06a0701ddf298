CONSTANTS
    MaxRequests = 2

SPECIFICATION Spec

INVARIANT StoppedBaseFinal
