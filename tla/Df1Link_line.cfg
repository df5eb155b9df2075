SPECIFICATION LineSpec
CONSTANTS
    MaxCalls = 2
    TnsRange = 3
    MaxNAK = 1
    MaxENQ = 1
    MaxTries = 1
    MaxJobs = 2
    MaxNoise = 1
    Nothing = Nothing
INVARIANTS
    TakenIsOwn
PROPERTIES
    ImplementsRemoteCall
    CallsReturn
CHECK_DEADLOCK FALSE
