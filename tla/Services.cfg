SPECIFICATION ServicesSpec
CONSTANTS
    Threads = {1, 2, 3}
    Callers = {1, 2, 3}
    TicketMod = 4
    StackIds = {0, 1}
    LineNumbers = {1, 2, 6}
    Flags = {0}
    StackCount = 1
    LineMod = 4
    CountMax = 2
    MaxNotified = 4
    MaxErrorRuns = 2
    BufferCount = 1
    Values = {0, 1}
INVARIANTS MutualExclusion NoLostWakeup WaitTruth SharedStateTrue
PROPERTIES LockImplemented LockReturns
CHECK_DEADLOCK FALSE
