SPECIFICATION FairSpec
CHECK_DEADLOCK FALSE
CONSTANTS
    MaxRetries = 3
INVARIANTS
    TypeOK
    ConnectionsClosed
    RetryInv
    FailedIsServersDoing
    
PROPERTIES
    ValidationReturns
