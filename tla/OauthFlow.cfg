CONSTANTS
    c1 = c1
    c2 = c2
    Conns <- MCConns
    ConnectionLimit = 2
    MaxRequests = 2
SPECIFICATION Spec
INVARIANTS
    AcceptResumes
    SendsAResponse
PROPERTIES
    KeepsPromise
    NoStaleError
    StopReturns
CHECK_DEADLOCK FALSE
