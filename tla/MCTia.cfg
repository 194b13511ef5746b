CONSTANTS
    VISIBLE_HEIGHT = 3
    VISIBLE_WIDTH = 4
    VSYNC_H = 1
    VBLANK_H = 1
    TOTAL_HEIGHT = 6
    HBLANK_W = 1
    TOTAL_WIDTH = 5
    PIXEL = 1000
    Layouts <- MCLayouts
SPECIFICATION FairSpec
INVARIANTS TypeOK StrayWritesBounded
PROPERTIES PictureComplete PictureImplemented KeepsDisplaying
