CONSTANTS
    Notifies <- OneMessage
    Calls <- SomeCalls
    MaxCalls = 2
    Rooms = {0, 8}
    FrameHeader = 7
    Limit = 500
    Targets <- SomeTargets
    Old = Old
    Nil = Nil
SPECIFICATION AnswerSpec
INVARIANTS TypeOK SeenIsSent EveryMessageIsHandled FieldsAreFresh RoomIsMade AckIsWhatWasSet
CHECK_DEADLOCK FALSE
