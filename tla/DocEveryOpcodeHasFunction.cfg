CONSTANTS
    Carts <- MCCarts
    Layouts <- MCLayouts
    inst_tbl <- MCInstTable
SPECIFICATION Spec
CONSTRAINT Window
INVARIANT EveryOpcodeHasFunction
CHECK_DEADLOCK FALSE
