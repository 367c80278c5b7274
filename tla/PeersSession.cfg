CONSTANTS
    Pushers = {p1}
    Shutdown = TRUE
    IDs = 3
    MaxDraws = 4
    MaxIn = 2
    MaxSwitch = 1
SPECIFICATION FairSpec
INVARIANTS TypeOK HandlerIsTold UpdateIDsInOrder
PROPERTIES BufferDrains SessionEnds
CHECK_DEADLOCK FALSE
