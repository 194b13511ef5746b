CONSTANTS
    Codes <- MCCodes
    EventTypes <- MCEventTypes
    Bytes <- MCBytes
    MaxQueue = 2
SPECIFICATION Spec
INVARIANT KeyMovesItsDirection
CHECK_DEADLOCK FALSE
