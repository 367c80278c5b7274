CONSTANTS
    Pushers = {p1, p2}
    Shutdown = FALSE
    IDs = 2
    MaxDraws = 1
    MaxIn = 1
    MaxSwitch = 0
SPECIFICATION FairSpec
SYMMETRY Symmetry
INVARIANT EntriesFollowTheirTable
CHECK_DEADLOCK FALSE
