CONSTANTS
    Conns = {c1, c2}
    Workers = {w1}
    Cap = 2
    Notifies = 2
    Firsts = {"hello"}
    Faults = {}
    Shutdown = FALSE
    HandlerWaits = TRUE
    Outcomes = {"ack"}
    AckParts = {2, 3}
    Nil = Nil
SPECIFICATION FairSpec
PROPERTY CtxCancelledOnDisconnect
CHECK_DEADLOCK FALSE
