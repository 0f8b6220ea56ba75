SPECIFICATION LiveSpec
CONSTANTS
    Kernel = {k1, k2}
    NoKernel = NoKernel
    Retries <- DefaultRetries
    MaxCalls = 2
    MaxInbox = 1
CHECK_DEADLOCK FALSE
INVARIANTS
    TypeOK
    StaleFramesAreAbandoned
    TokenFitsConnection
PROPERTIES
    ImplementsCallContract
    CallEnds
    ReadsLeaveDeadConnections
