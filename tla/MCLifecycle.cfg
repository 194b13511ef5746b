CONSTANTS
    Codes <- MCCodes
    EventTypes <- MCEventTypes
    Bytes <- MCBytes
    MaxQueue = 2
SPECIFICATION FairSpec
INVARIANTS TypeOK LastKeyWins FreedOnce
PROPERTIES InputImplemented QuitEnds TurnsGoOn
CHECK_DEADLOCK FALSE
