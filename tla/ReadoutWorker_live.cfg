SPECIFICATION FairSpec
CONSTANTS
    Calls = {"start", "stop"}
    MaxCalls = 3
    ListfileWriterBufferCount = 1
    SnoopCount = 0
    Options <- LiveOptions
PROPERTIES CallsReturn
CHECK_DEADLOCK FALSE
