CONSTANTS
    MaxRequests = 3

SPECIFICATION Spec

INVARIANT TypeOK
INVARIANT NoStrandedRequest

PROPERTY DispatchEventually
