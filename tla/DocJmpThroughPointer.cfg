CONSTANTS
    Carts <- MCCarts
    Layouts <- MCLayouts
    inst_tbl <- MCInstTable
SPECIFICATION Spec
CONSTRAINT Window
PROPERTY JmpThroughPointer
CHECK_DEADLOCK FALSE
