CONSTANTS
    Tables <- SomeTables
    FirstIDs = {0, 7}
    IDs = 8
    MaxSent = 4
    Nil = Nil
SPECIFICATION Spec
INVARIANTS TypeOK UpdatesAsSent NoUpdateIsLost
CHECK_DEADLOCK FALSE
