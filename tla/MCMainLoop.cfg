CONSTANTS
    Carts <- MCCarts
    Layouts <- MCLayouts
    inst_tbl <- MCInstTable
    VISIBLE_HEIGHT = 2
    VISIBLE_WIDTH = 2
    VSYNC_H = 0
    VBLANK_H = 0
    TOTAL_HEIGHT = 2
    HBLANK_W = 0
    TOTAL_WIDTH = 3
    PIXEL = 1000
    BufferLayouts <- MCBufferLayouts
    Keys <- MCKeys
SPECIFICATION MCSpec
INVARIANTS LoopTypeOK WaitTakesItsTime
PROPERTIES BeamFollowsClock TimerImplemented LoopReturnsToCaller PicturesKeepComing WaitIsHonest WaitEnds
CHECK_DEADLOCK FALSE
