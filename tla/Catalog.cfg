SPECIFICATION Spec
CONSTANTS
    lamp = lamp
    chair = chair
    stool = stool
    yacht = yacht
    garbled = garbled
    restock = restock
    hide = hide
    blank = blank
    addChair = addChair
    addStool = addStool
    addYacht = addYacht
    Requests = {restock, hide, blank, garbled, addChair, addStool, addYacht}
    Op <- MCOp
    Malformed = {garbled}
    Target <- MCTarget
    Sku <- MCSku
    Body <- MCBody
    Products = {lamp, chair, stool, yacht}
    Seed <- MCSeed
    NULL = NULL
    MaxInt = 2
    Faults = {"db", "crash"}
CHECK_DEADLOCK FALSE
INVARIANTS
    TypeOK
    SkusUnique
    AcknowledgedWritesStick
    ColumnsHaveAuthors
PROPERTIES
    ProductsStay
