CONSTANTS
    Conns = {c1, c2}
    Workers = {w1}
    Cap = 1
    Notifies = 2
    Firsts = {"hello", "healthcheck"}
    Faults = {"bad"}
    Shutdown = FALSE
    HandlerWaits = FALSE
    Outcomes = {"ack"}
    AckParts = {2}
    Nil = Nil
SPECIFICATION FairSpec
PROPERTIES NotifyAnswered GoroutineEnds HealthcheckCloses
CHECK_DEADLOCK FALSE
