SPECIFICATION FairSpec
CONSTANTS
    MaxSessions = 2
    MaxRequests = 2
INVARIANTS
    TypeOK
    FailureWaits

    
CHECK_DEADLOCK FALSE
