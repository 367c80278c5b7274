CONSTANTS
    Notifies <- TwoMessages
    Calls = {}
    MaxCalls = 0
    Rooms = {0}
    FrameHeader = 7
    Limit = 500
    Targets <- SomeTargets
    Old = Old
    Nil = Nil
SPECIFICATION AnswerSpec
INVARIANT EveryMessageIsHandled
CHECK_DEADLOCK FALSE
