SPECIFICATION ListfileSpec
CONSTANTS
    Setups <- Modes
    StaleParts <- Leftovers
    BlockUnits = 2
    ReadAhead = 2
    WriteSizes = {1, 3}
    ReadSizes = {1, 4}
    SeekPositions = {1, 4}
    MaxParts = 4
    MaxUnits = 5
    MaxFaults = 1
    MaxSeeks = 1
    FrameSizes <- Frames
    SystemFrames = {1, 3}
    Truncations = {0, 1, 3}
    Capacity = 5
    Buffers = 2
    MaxCalls = 3
    Archive <- Two
    OpLists <- Lists
    Crates <- SavedCrates
    DocWords = {1, 2, 3, 5}
    LengthMask = 2
    PreambleReadMax = 7
    GenModules = 2
    MaxPart = 4
    FrameLimits = {2, 3, 4}
    LengthMod = 6
INVARIANTS ArchivesWhole ReplayFaithful FilesReadBack
PROPERTIES FilesCallsEnd
CHECK_DEADLOCK FALSE
