SPECIFICATION Spec
CONSTANTS
    Calls = {"start", "stop", "pause", "resume"}
    MaxCalls = 3
    ListfileWriterBufferCount = 2
    SnoopCount = 1
    Options <- SafetyOptions
INVARIANTS OneReader BuffersConserved RunsRecorded
CHECK_DEADLOCK FALSE
