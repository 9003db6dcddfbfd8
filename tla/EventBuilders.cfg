SPECIFICATION BuildersSpec
CONSTANTS
    ModuleConfigs <- Configs
    TimestampMax = 63
    Inputs <- InputsAt
    Steps = {1, 5}
    StartTime = 60
    MaxRecords = 3
    CrateSetups <- Setups
    MainModule <- Main
    MatchWindows <- Windows
    MemoryLimit = 3
    CrateInputs <- CrateInputsAt
    MaxEvents <- EventCounts
    MaxDirect = 1
    WordBits = 4
    Patterns <- Filters
    StampWords <- Words
    StampIndexes <- Indexes
INVARIANTS EventsBuilt EventsMatched
PROPERTIES FlushDone
CHECK_DEADLOCK FALSE
