CONSTANTS
    Codes <- MCCodes
    EventTypes <- MCEventTypes
    Bytes <- MCBytes
    MaxQueue = 2
SPECIFICATION Spec
INVARIANT FailureReported
CHECK_DEADLOCK FALSE
