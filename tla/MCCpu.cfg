CONSTANTS
    Slots = 4
    Carts <- MCCarts
    Layouts <- MCLayouts
    inst_tbl <- MCInstTable
SPECIFICATION CallsSpec
CONSTRAINT Window
INVARIANTS TypeOK FramesIntact
PROPERTIES FlagsHaveCause TimerSetByStrobe OnlyTheVectorWraps ReturnsToCaller
CHECK_DEADLOCK FALSE
