CONSTANTS
    Tables <- KeyedTables
    FirstIDs = {7}
    IDs = 8
    MaxSent = 3
    Nil = Nil
SPECIFICATION Spec
INVARIANT UpdatesAsSent
CHECK_DEADLOCK FALSE
