CONSTANTS
    Pushers = {p1}
    Shutdown = FALSE
    IDs = 2
    MaxDraws = 1
    MaxIn = 1
    MaxSwitch = 0
SPECIFICATION FairSpec
PROPERTY ExpiryClosesConnection
CHECK_DEADLOCK FALSE
