CONSTANTS
    Conns = {c1, c2}
    Workers = {w1, w2}
    Cap = 2
    Notifies = 2
    Firsts = {"hello", "healthcheck", "badHello", "bad", "unreadable"}
    Faults = {"hello", "unreadable"}
    Shutdown = TRUE
    HandlerWaits = FALSE
    Outcomes = {"ack", "fail"}
    AckParts = {3}
    Nil = Nil
SPECIFICATION Spec
SYMMETRY Symmetry
INVARIANTS TypeOK HealthcheckOnlyHello ServedConnIsLive ClosedIsDone WireIntact AnswersInOrder
CHECK_DEADLOCK FALSE
