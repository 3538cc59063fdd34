SPECIFICATION FairSpec
CHECK_DEADLOCK FALSE
CONSTANTS
    MaxRetries = 3
PROPERTIES
    HandshakeBounded
