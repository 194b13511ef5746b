CONSTANTS
    Carts <- MCCarts
    Layouts <- MCLayouts
    inst_tbl <- MCInstTable
SPECIFICATION Spec
CONSTRAINT Window
PROPERTY ZeroFlagFollowsResult
CHECK_DEADLOCK FALSE
