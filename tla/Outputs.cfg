SPECIFICATION OutputsSpec
CONSTANTS
    Clients = {1, 2}
    MaxBroadcasts = 2
    MaxListens = 2
    SnoopBuffers = 2
    MaxCommands = 3
    MaxTriggers = 2
    MaxClock = 1
    MaxFaults = 3
    NChannels = 2
    MaxHvChanges = 1
    MaxHvFaults = 1
    VmeClients = {1, 2}
    MaxOps = 2
    MaxVmeFaults = 1
    MaxExecutes = 2
    ModuleNames = {1}
    Ensembles = {"hv", "idle", "old"}
    UseGivenName = {"old"}
    HalfMod = 2
    MaxListLen = 2
    MaxTclFaults = 1
INVARIANTS StreamsServed RunsReported SlowControlsTrue ListsTrue
CHECK_DEADLOCK FALSE
